----------------------------- MODULE Selection -----------------------------
(***************************************************************************)
(* How a request gets its provider and credential: the hook model-access   *)
(* checks the model against the key's policy and the catalog, the          *)
(* SelectionEngine collects the candidates of each provider of the policy, *)
(* one load of the plane's snapshot after the other, draws a provider by   *)
(* weight and a credential by round robin, and the transport looks up the  *)
(* provider's client.  The credentials change underneath it.               *)
(***************************************************************************)
EXTENDS ProviderPlane, FiniteSetsExt

CONSTANTS
    Requests,
    Policies,    \* provider configs of virtual keys
    Catalog,     \* pairs provider, model that the model catalog knows
    MaxPicks     \* bound on the picks of one cursor between restarts

(* A provider config as CompileProviderConfigs leaves it: allows holds the *)
(* models that IsModelAllowed accepts; weights are whole numbers here.     *)
ProviderConfig == [provider : Providers, allows : SUBSET Models, weight : Nat]

ASSUME SelectionAssumption ==
    /\ \A policy \in Policies :
        /\ policy \in Seq(ProviderConfig) /\ policy # <<>>
        /\ \A j, k \in DOMAIN policy : policy[j].provider = policy[k].provider => j = k
    /\ Catalog \subseteq Providers \X Models
    /\ MaxPicks \in Nat

VARIABLES
    req,      \* where each request is, and its context
    cursors,  \* roundRobin.cursors, by provider and model
    rotation  \* ghost: the last candidates of each cursor and who was picked of them

vars == <<planeVars, req, cursors, rotation>>

NoRequest == [pc |-> "idle"]
NoRotation == [creds |-> <<>>, picked |-> <<>>]
Keys == Providers \X Models

Step(r, state) == req' = [req EXCEPT ![r] = state]

-----------------------------------------------------------------------------
(* ModelAccessHook.Execute *)

(* VirtualKey.ProviderConfig and IsModelKeyAllowed *)
Config(policy, p) == {k \in DOMAIN policy : policy[k].provider = p}
Allowing(policy, m) == {k \in DOMAIN policy : m \in policy[k].allows}

(* The client names a provider, or Nobody. *)
Allowed(policy, named, m) ==
    IF named = Nobody THEN Allowing(policy, m) # {}
    ELSE Config(policy, named) \intersect Allowing(policy, m) # {}

(* modelInCatalog asks for a provider that allows the model and knows it. *)
InCatalog(policy, named, m) ==
    IF named = Nobody THEN \E k \in Allowing(policy, m) : <<policy[k].provider, m>> \in Catalog
    ELSE <<named, m>> \in Catalog

(* The hook lets the request through; a rejected one changes nothing.  The *)
(* catalog is asked only when it is ready.                                 *)
Access(r) ==
    /\ req[r].pc = "idle"
    /\ \E policy \in Policies, m \in Models, named \in Providers \union {Nobody}, ready \in BOOLEAN :
        /\ Allowed(policy, named, m)
        /\ ready => InCatalog(policy, named, m)
        /\ Step(r, [pc |-> "collect", policy |-> policy, model |-> m, named |-> named,
                    left |-> policy, viable |-> <<>>, from |-> Nobody, entry |-> Nobody])
    /\ UNCHANGED <<planeVars, cursors, rotation>>

-----------------------------------------------------------------------------
(* SelectionEngine *)

(* The total weight of the viable providers so far: pickProvider's first   *)
(* loop.                                                                   *)
Total(viable) == IF viable = <<>> THEN 0 ELSE Last(viable).upto

(* A viable provider: its weight in the policy, its candidates, and the    *)
(* total up to it.                                                         *)
Viable(p, w, creds, total) == [provider |-> p, weight |-> w, creds |-> creds, upto |-> total + w]

(* resolveExplicit: the candidates of the named provider, and no other. *)
CollectExplicit(r) ==
    LET c == req[r]
        creds == Candidates(c.named, c.model)
    IN
    /\ c.pc = "collect" /\ c.named # Nobody
    /\ Step(r, IF creds = <<>> THEN NoRequest
               ELSE [c EXCEPT !.pc = "pick", !.from = Viable(c.named, 1, creds, 0)])
    /\ UNCHANGED <<planeVars, cursors, rotation>>

(* resolveWeighted: one provider config of the loop. *)
CollectWeighted(r) ==
    LET c == req[r]
        cfg == Head(c.left)
        creds == Candidates(cfg.provider, c.model)
    IN
    /\ c.pc = "collect" /\ c.named = Nobody /\ c.left # <<>>
    /\ Step(r, [c EXCEPT !.left = Tail(@),
                         !.viable = IF creds = <<>> THEN @
                                    ELSE Append(@, Viable(cfg.provider, cfg.weight, creds, Total(@)))])
    /\ UNCHANGED <<planeVars, cursors, rotation>>

Collected(c) == c.pc = "collect" /\ c.named = Nobody /\ c.left = <<>>

NoneViable(r) ==
    /\ Collected(req[r]) /\ req[r].viable = <<>>
    /\ Step(r, NoRequest)
    /\ UNCHANGED <<planeVars, cursors, rotation>>

(* pickProvider walks the viable providers in the order of the policy and  *)
(* takes the first at which the target falls below zero, else the last.    *)
PickNotAbove(viable, target) ==     \* mutant: target <= 0
    LET hit == {k \in DOMAIN viable : target - viable[k].upto <= 0}
    IN IF hit = {} THEN Len(viable) ELSE Min(hit)
PickProvider(viable, target) ==
    LET hit == {k \in DOMAIN viable : target - viable[k].upto < 0}
    IN IF hit = {} THEN Len(viable) ELSE Min(hit)

(* The target drawn is below the total weight, or zero when that is zero. *)
Targets(viable) == IF Total(viable) = 0 THEN {0} ELSE 0 .. Total(viable) - 1

DrawProvider(r) ==
    LET c == req[r] IN
    /\ Collected(c) /\ c.viable # <<>>
    /\ \E target \in Targets(c.viable) :
        Step(r, [c EXCEPT !.pc = "pick", !.from = c.viable[PickProvider(c.viable, target)]])
    /\ UNCHANGED <<planeVars, cursors, rotation>>

(* roundRobin.Pick: one candidate is taken as it is; else the cursor of    *)
(* the key is advanced by one atomic Add and taken modulo the candidates.  *)
Unadvanced(cursor) == cursor    \* mutant: Load for Add(1)
Advanced(cursor) == cursor + 1

PickCredential(r) ==
    LET c == req[r]
        creds == c.from.creds
        key == <<c.from.provider, c.model>>
        turn == Advanced(cursors[key])
        chosen == creds[IF Len(creds) = 1 THEN 1 ELSE 1 + (turn % Len(creds))]
    IN
    /\ c.pc = "pick" /\ cursors[key] < MaxPicks
    /\ Step(r, [c EXCEPT !.pc = "chosen", !.entry = chosen])
    /\ IF Len(creds) = 1 THEN UNCHANGED <<cursors, rotation>>
       ELSE /\ cursors' = [cursors EXCEPT ![key] = turn]
            /\ rotation' = [rotation EXCEPT ![key] =
                   [creds |-> creds,
                    picked |-> IF @.creds # creds THEN <<chosen.id>>
                               ELSE Append(IF Len(@.picked) < Len(creds) THEN @.picked
                                           ELSE Tail(@.picked), chosen.id)]]
    /\ UNCHANGED planeVars

(* ServeHTTP takes the client of the provider, or fails without one; what  *)
(* follows is ChatRequest's.                                               *)
Dial(r) ==
    /\ req[r].pc = "chosen"
    /\ Step(r, NoRequest)
    /\ UNCHANGED <<planeVars, cursors, rotation>>

Request(r) ==
    Access(r) \/ CollectExplicit(r) \/ CollectWeighted(r) \/ NoneViable(r)
        \/ DrawProvider(r) \/ PickCredential(r) \/ Dial(r)

-----------------------------------------------------------------------------
(* The process ends and starts again. *)
Restart ==
    /\ LoadTables
    /\ req' = [r \in Requests |-> NoRequest]
    /\ cursors' = [key \in Keys |-> 0]
    /\ rotation' = [key \in Keys |-> NoRotation]

Init ==
    /\ PlaneInit
    /\ req = [r \in Requests |-> NoRequest]
    /\ cursors = [key \in Keys |-> 0]
    /\ rotation = [key \in Keys |-> NoRotation]

Next ==
    \/ PlaneNext /\ UNCHANGED <<req, cursors, rotation>>
    \/ \E r \in Requests : Request(r)
    \/ Restart

Spec == Init /\ [][Next]_vars

-----------------------------------------------------------------------------
(* Properties. *)

Routed(r) == req[r].pc \in {"pick", "chosen"}

(* The plane's invariant, and what a routed request keeps while the plane  *)
(* changes: a provider of its key's policy, or the one the client named,   *)
(* which then allows the model, and a credential of that very provider,    *)
(* whose secret is sent there.  (Without a named provider the draw may     *)
(* fall on one that blocks the model, when another one allows it.)         *)
RoutingInv ==
    /\ PlaneInv
    /\ \A key \in Keys : cursors[key] \in 0 .. MaxPicks
    /\ \A r \in Requests : Routed(r) =>
        /\ Config(req[r].policy, req[r].from.provider) # {}
        /\ req[r].named # Nobody =>
            /\ req[r].from.provider = req[r].named
            /\ Config(req[r].policy, req[r].named) \subseteq Allowing(req[r].policy, req[r].model)
        /\ req[r].pc = "chosen" => Home[req[r].entry.id] = req[r].from.provider

(* A provider of weight zero is drawn only when no provider that has a     *)
(* candidate has weight: an operator takes a provider out of rotation with *)
(* weight zero and keeps it as a last resort.                              *)
WeightsRespected ==
    \A r \in Requests :
        (Routed(r) /\ req[r].named = Nobody /\ req[r].from.weight = 0) =>
            \A k \in DOMAIN req[r].viable : req[r].viable[k].weight = 0

(* As long as the candidates of a key stay the same, any n picks in a row  *)
(* of n candidates take each of them once, whatever requests they are for. *)
RotationFair == \A key \in Keys : IsInjective(rotation[key].picked)
=============================================================================
