---------------------------- MODULE ModelCatalog ----------------------------
(***************************************************************************)
(* The model catalog: the tables model_metadata, model_pricing and         *)
(* model_pricing_override, the three snapshots that requests read without  *)
(* a lock, the job catalog_sync that fetches the feed, writes two tables   *)
(* and loads the three snapshots one after the other, and the admin        *)
(* handlers that write an override and load the snapshot of overrides.     *)
(*                                                                         *)
(* Statements and transactions are serialised on one connection.           *)
(***************************************************************************)
EXTENDS Pricing

CONSTANTS
    Known,       \* providers with a row in table providers, seeded at start
    Models, VirtualKeys, Selectors,
    Plain0,      \* the empty selector
    Feeds,       \* what the feed may contain: lists of parsed rows
    Overrides,   \* prices an admin may give an override
    Admins,
    Nobody,
    MaxFaults,   \* bound on failing fetches, statements and transactions
    MaxOps       \* bound on admin requests

(* A row of the feed that modelParser keeps, and of table model_pricing.   *)
IsRow(row) == row.model \in Models /\ row.sel \in Selectors /\ IsPrice(row.price)

(* An override's slot: idx_uq_cp_scope on model, scope type and scope ref. *)
Slots == Models \X ({<<"global", Nobody>>} \union {<<"provider", p>> : p \in Known}
                      \union {<<"virtualkey", v>> : v \in VirtualKeys})

ASSUME CatalogAssumption ==
    /\ Plain0 \in Selectors
    /\ \A feed \in Feeds : DOMAIN feed = 1 .. Len(feed) /\ \A k \in DOMAIN feed : IsRow(feed[k])
    /\ \A price \in Overrides : IsPrice(price)
    /\ Nobody \notin Admins \union {"sync"} /\ "sync" \notin Admins
    /\ MaxFaults \in Nat /\ MaxOps \in Nat

VARIABLES
    meta,       \* table model_metadata: pairs provider, model
    rows,       \* table model_pricing: rows by place, which grows with each insertion
    overrides,  \* table model_pricing_override: price by slot
    models,     \* c.models
    base,       \* c.basePricing: the rows it was made of
    custom,     \* c.customPricing
    customMu,   \* who holds c.customMu
    sync,       \* where catalog_sync is, and what it holds
    admin,      \* where each admin handler is, and what it holds
    up,         \* Start has returned: requests are served
    faults, ops,
    stale       \* ghost: overrides were written and loading them failed

tables == <<meta, rows, overrides>>
vars == <<tables, models, base, custom, customMu, sync, admin, up, faults, ops, stale>>

Idle == [pc |-> "idle"]
Key(row) == <<row.provider, row.model>>

Fault == faults < MaxFaults /\ faults' = faults + 1

-----------------------------------------------------------------------------
(* What requests read. *)

(* BasePricingSnapshot.find: the row with the selector, else the base row, *)
(* which is the first without a selector, else the first.  The bucket of   *)
(* variants is kept for keys with more than one row.                       *)
Find(b, key, sel) ==
    LET mine == {k \in DOMAIN b : Key(b[k]) = key}
        exact == {k \in mine : b[k].sel = sel}
        plain == {k \in mine : b[k].sel = Plain0}
    IN b[Min(IF Cardinality(mine) >= 2 /\ exact # {} THEN exact ELSE IF plain # {} THEN plain ELSE mine)]

(* ResolvePrice: the override of the key, else of the provider, else the   *)
(* global one, merged onto the row.                                        *)
Scopes(v, p) == <<<<"virtualkey", v>>, <<"provider", p>>, <<"global", Nobody>>>>
ResolvePrice(v, key, sel) ==
    LET slots == [k \in 1 .. 3 |-> <<key[2], Scopes(v, key[1])[k]>>]
        found == {k \in 1 .. 3 : slots[k] \in DOMAIN custom}
        row == Find(base, key, sel)
    IN IF found = {} THEN row.price ELSE MergePricing(row.price, custom[slots[Min(found)]])

Ready == models # {} /\ DOMAIN base # {}

-----------------------------------------------------------------------------
(* catalog_sync *)

At(pc) == sync.pc = pc
Goto(state) == sync' = state

(* A step that fails ends the run; on first boot Start fails with it, and  *)
(* the process ends: see Restart.                                          *)
Fails == Fault /\ Goto(IF up THEN Idle ELSE [pc |-> "failed"])

(* Fetch, modelParser and build. *)
Fetch ==
    /\ At("idle")
    /\ \/ \E feed \in Feeds : Goto([pc |-> "meta", feed |-> feed]) /\ UNCHANGED faults
       \/ Fails
    /\ UNCHANGED <<tables, models, base, custom, customMu, admin, up, ops, stale>>

(* BulkSyncModelMetadata skips unknown providers and upserts the rest. *)
Fetched == {Key(sync.feed[k]) : k \in {j \in DOMAIN sync.feed : sync.feed[j].provider \in Known}}

SyncMetaIgnoresError ==      \* mutant: the prices are written although the metadata was not
    /\ At("meta")
    /\ \/ meta' = meta \union Fetched /\ UNCHANGED faults
       \/ Fault /\ UNCHANGED meta
    /\ Goto([sync EXCEPT !.pc = "pricing"])
    /\ UNCHANGED <<rows, overrides, models, base, custom, customMu, admin, up, ops, stale>>

SyncMeta ==
    /\ At("meta")
    /\ \/ /\ meta' = meta \union Fetched
          /\ Goto([sync EXCEPT !.pc = "pricing"])
          /\ UNCHANGED faults
       \/ Fails /\ UNCHANGED meta
    /\ UNCHANGED <<rows, overrides, models, base, custom, customMu, admin, up, ops, stale>>

(* BulkSyncModelPricing skips unknown providers, and of two rows with one  *)
(* raw key the second.                                                     *)
Fresh(feed) ==
    LET known == {k \in DOMAIN feed : feed[k].provider \in Known}
    IN {k \in known : \A j \in known : feed[j].raw = feed[k].raw => k <= j}

(* The upsert on raw_key: a row that is there keeps its place, the others  *)
(* come behind it in the order of the feed.                                *)
Upsert(table, feed) ==
    LET last == Max(DOMAIN table \union {0})
        of(row) == {j \in Fresh(feed) : feed[j].raw = row.raw}
        new == {j \in Fresh(feed) : \A k \in DOMAIN table : j \notin of(table[k])}
    IN [k \in DOMAIN table \union {last + j : j \in new} |->
            IF k \notin DOMAIN table THEN feed[k - last]
            ELSE IF of(table[k]) = {} THEN table[k] ELSE feed[Min(of(table[k]))]]

SyncPricing ==
    /\ At("pricing")
    /\ \/ /\ rows' = Upsert(rows, sync.feed)
          /\ Goto([pc |-> "models"])
          /\ UNCHANGED faults
       \/ Fails /\ UNCHANGED rows
    /\ UNCHANGED <<meta, overrides, models, base, custom, customMu, admin, up, ops, stale>>

(* loadModels and loadBasePricing: list, build, store. *)
LoadModels ==
    /\ At("models")
    /\ \/ models' = meta /\ Goto([pc |-> "base"]) /\ UNCHANGED faults
       \/ Fails /\ UNCHANGED models
    /\ UNCHANGED <<tables, base, custom, customMu, admin, up, ops, stale>>

LoadBaseOnce ==      \* mutant: a snapshot that is there is kept
    /\ At("base")
    /\ \/ base' = (IF DOMAIN base = {} THEN rows ELSE base) /\ Goto([pc |-> "custom"]) /\ UNCHANGED faults
       \/ Fails /\ UNCHANGED base
    /\ UNCHANGED <<tables, models, custom, customMu, admin, up, ops, stale>>

LoadBase ==
    /\ At("base")
    /\ \/ base' = rows /\ Goto([pc |-> "custom"]) /\ UNCHANGED faults
       \/ Fails /\ UNCHANGED base
    /\ UNCHANGED <<tables, models, custom, customMu, admin, up, ops, stale>>

(* loadCustomPricing: lock, list, *)
MutexIgnored == TRUE        \* mutant: without customMu
MutexFree == customMu = Nobody

SyncList ==
    /\ At("custom") /\ MutexFree
    /\ \/ customMu' = "sync" /\ Goto([pc |-> "store", list |-> overrides]) /\ UNCHANGED faults
       \/ Fails /\ UNCHANGED customMu
    /\ UNCHANGED <<tables, models, base, custom, admin, up, ops, stale>>

(* then store and unlock. *)
StoreCustom(list) ==
    /\ custom' = list
    /\ customMu' = Nobody
    /\ stale' = (stale /\ list # overrides)

SyncStore ==
    /\ At("store")
    /\ StoreCustom(sync.list)
    /\ Goto(Idle) /\ up' = TRUE
    /\ UNCHANGED <<tables, models, base, admin, faults, ops>>

SyncCatalog ==
    Fetch \/ SyncMeta \/ SyncPricing \/ LoadModels \/ LoadBase \/ SyncList \/ SyncStore

-----------------------------------------------------------------------------
(* createCustomPricing, updateCustomPricing, deleteCustomPricing. *)

Begin(a) == up /\ admin[a].pc = "idle" /\ ops < MaxOps /\ ops' = ops + 1
Becomes(a, state) == admin' = [admin EXCEPT ![a] = state]
Loading == [pc |-> "load"]

(* hasBasePricing: "custom pricing overrides a price, it cannot create     *)
(* one"; the provider counts when the override is for one provider.        *)
HasBasePricing(slot) ==
    \E k \in DOMAIN rows : /\ rows[k].model = slot[1]
                           /\ slot[2][1] = "provider" => rows[k].provider = slot[2][2]

CreateCheck(a) ==
    /\ Begin(a)
    /\ \E slot \in Slots, price \in Overrides :
        HasBasePricing(slot) /\ Becomes(a, [pc |-> "create", slot |-> slot, price |-> price])
    /\ UNCHANGED <<tables, models, base, custom, customMu, sync, up, faults, stale>>

(* The unique index refuses a second override of a slot.  When the row     *)
(* cannot be read back the handler fails without loading.                  *)
CreateInsert(a) ==
    LET slot == admin[a].slot IN
    /\ admin[a].pc = "create"
    /\ \/ /\ slot \notin DOMAIN overrides
          /\ overrides' = [s \in DOMAIN overrides \union {slot} |->
                            IF s = slot THEN admin[a].price ELSE overrides[s]]
          /\ \/ Becomes(a, Loading) /\ UNCHANGED <<faults, stale>>
             \/ Becomes(a, Idle) /\ Fault /\ stale' = TRUE
       \/ /\ slot \in DOMAIN overrides
          /\ Becomes(a, Idle)
          /\ UNCHANGED <<overrides, faults, stale>>
    /\ UNCHANGED <<meta, rows, models, base, custom, customMu, sync, up, ops>>

(* UpdateCustomPricing merges, in one transaction. *)
Update(a) ==
    /\ Begin(a)
    /\ \E slot \in DOMAIN overrides, price \in Overrides :
        overrides' = [overrides EXCEPT ![slot] = MergePricing(@, price)]
    /\ Becomes(a, Loading)
    /\ UNCHANGED <<meta, rows, models, base, custom, customMu, sync, up, faults, stale>>

Delete(a) ==
    /\ Begin(a)
    /\ \E slot \in DOMAIN overrides :
        overrides' = [s \in DOMAIN overrides \ {slot} |-> overrides[s]]
    /\ Becomes(a, Loading)
    /\ UNCHANGED <<meta, rows, models, base, custom, customMu, sync, up, faults, stale>>

(* ReloadCustomPricing; "stored, not yet live" when the list fails. *)
AdminList(a) ==
    /\ admin[a].pc = "load" /\ MutexFree
    /\ \/ /\ customMu' = a
          /\ Becomes(a, [pc |-> "store", list |-> overrides])
          /\ UNCHANGED <<faults, stale>>
       \/ /\ Fault /\ stale' = TRUE
          /\ Becomes(a, Idle)
          /\ UNCHANGED customMu
    /\ UNCHANGED <<tables, models, base, custom, sync, up, ops>>

AdminStore(a) ==
    /\ admin[a].pc = "store"
    /\ StoreCustom(admin[a].list)
    /\ Becomes(a, Idle)
    /\ UNCHANGED <<tables, models, base, sync, up, faults, ops>>

Admin(a) == CreateCheck(a) \/ CreateInsert(a) \/ Update(a) \/ Delete(a) \/ AdminList(a) \/ AdminStore(a)

-----------------------------------------------------------------------------
(* The process ends and starts again: loadAll, and a first sync when the   *)
(* catalog is empty.                                                       *)
Restart ==
    /\ models' = meta /\ base' = rows /\ custom' = overrides
    /\ up' = Ready'
    /\ sync' = Idle /\ admin' = [a \in Admins |-> Idle]
    /\ customMu' = Nobody /\ stale' = FALSE
    /\ UNCHANGED <<tables, faults, ops>>

Init ==
    /\ meta = {} /\ rows = <<>> /\ overrides = <<>>
    /\ models = {} /\ base = <<>> /\ custom = <<>>
    /\ up = FALSE /\ sync = Idle /\ admin = [a \in Admins |-> Idle]
    /\ customMu = Nobody /\ stale = FALSE
    /\ faults = 0 /\ ops = 0

Next == SyncCatalog \/ Restart \/ \E a \in Admins : Admin(a)

Spec == Init /\ [][Next]_vars

(* The ticker keeps starting the job, and what has begun goes on. *)
FairSpec ==
    /\ Spec
    /\ WF_vars(SyncCatalog)
    /\ \A a \in Admins : WF_vars(CreateInsert(a) \/ AdminList(a) \/ AdminStore(a))

-----------------------------------------------------------------------------
(* Properties. *)

Keys == {Key(base[k]) : k \in DOMAIN base}

(* The variables have their types; and through every order of failing      *)
(* writes, loads and restarts, a key with a price in the snapshot is in    *)
(* the snapshot of models, which model-access asks first: the metadata is  *)
(* written before the prices and loaded before them.                       *)
CatalogInv ==
    /\ meta \subseteq Known \X Models
    /\ \A k \in DOMAIN rows : IsRow(rows[k]) /\ rows[k].provider \in Known
    /\ \A j, k \in DOMAIN rows : rows[j].raw = rows[k].raw => j = k
    /\ \A o \in {overrides, custom} : DOMAIN o \subseteq Slots /\ \A s \in DOMAIN o : IsPrice(o[s])
    /\ faults \in 0 .. MaxFaults /\ ops \in 0 .. MaxOps
    /\ Keys \subseteq models

(* The override of the table that is the most specific for a request. *)
Binding(slot, v, key) ==
    /\ slot[1] = key[2]
    /\ \E k \in 1 .. 3 : /\ slot[2] = Scopes(v, key[1])[k]
                        /\ \A j \in 1 .. k - 1 : <<key[2], Scopes(v, key[1])[j]>> \notin DOMAIN overrides

(* When no handler or sync is between its write and its store, and no load *)
(* failed, a request is priced with the override of the table that is the  *)
(* most specific for it.  Without customMu around list and store, an older *)
(* list may be stored last and stay, and a change is not live.             *)
OverridesLive ==
    (/\ \A a \in Admins : admin[a].pc \notin {"load", "store"}
     /\ sync.pc # "store" /\ ~ stale) =>
        /\ custom = overrides
        /\ \A v \in VirtualKeys, key \in Keys, sel \in Selectors, slot \in DOMAIN overrides :
            Binding(slot, v, key) =>
                \A f \in DOMAIN overrides[slot] : ResolvePrice(v, key, sel)[f] = overrides[slot][f]

(* While the process serves, what is stored becomes live: again and again  *)
(* the three snapshots are what the tables are, also after loads failed.   *)
StoredBecomesLive == []<>(up => models = meta /\ base = rows /\ custom = overrides)
=============================================================================
