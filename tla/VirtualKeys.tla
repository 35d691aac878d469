---------------------------- MODULE VirtualKeys ----------------------------
(***************************************************************************)
(* Virtual keys and the budgets they are bound to: the rows of both        *)
(* tables, the VirtualkeyCache that authenticates requests by the          *)
(* plaintext key, the entries of the BudgetCache without which a request   *)
(* is refused, the admin handlers that write a row and a cache after it,   *)
(* and the jobs virtual_keys_sync and budget_sync, which make the caches   *)
(* what they read from the tables.  What a budget's entry holds is module  *)
(* BudgetWindow's; here it is there or not.                                *)
(*                                                                         *)
(* Transactions and statements are serialised on one connection, and every *)
(* update of the cache publishes a whole map under its mutex, so each is   *)
(* one step.                                                               *)
(***************************************************************************)
EXTENDS Integers, FiniteSets

CONSTANTS
    Keys,        \* ids of virtual keys; an id is given once
    Secrets,     \* plaintext keys; GenerateVirtualKey never gives one twice
    Budgets,     \* ids of budgets; an id is given once
    Routings,    \* mode, provider configs and load balancer that ToCore accepts
    Implemented, \* those whose load balancer is implemented, which Validate wants
    Admins,      \* concurrent admin handlers
    MaxOps,      \* bound on admin requests
    MaxCrashes   \* bound on restarts of the process

ASSUME VirtualKeysAssumption ==
    /\ Implemented \subseteq Routings
    /\ MaxOps \in Nat /\ MaxCrashes \in Nat

VARIABLES
    rows,     \* table virtual_keys: the rows by id
    status,   \* StoreBudget.Status of each budget, "none" before and "deleted" after its row
    loaded,   \* VirtualkeyCache.Loaded: a snapshot was published
    cache,    \* the published map: the set of its entries
    sync,     \* where virtual_keys_sync is, and the rows it listed
    entries,  \* the budgets with an entry in BudgetCache.BudgetMap
    bsync,    \* where budget_sync is, and the budgets it listed
    admin,    \* where each admin handler is, its key or budget and the row it holds
    minted,   \* secrets given so far
    ops, crashes,
    rerevoked \* history: the budgets of keys that were revoked when they were not active

store == <<rows, status, minted, rerevoked>>
budgetCache == <<entries, bsync>>
vars == <<store, loaded, cache, sync, budgetCache, admin, ops, crashes>>

(* A row, and the core.VirtualKey that ToCore makes of it. *)
Row == [id : Keys, secret : Secrets, budget : Budgets, active : BOOLEAN, routing : Routings]

RowOf(id) == CHOOSE r \in rows : r.id = id
Ids == {r.id : r \in rows}

Exists(b) == status[b] \notin {"none", "deleted"}
BudgetRows == {b \in Budgets : Exists(b)}

NoRows == [pc |-> "idle", rows |-> {}]
Boot == [pc |-> "boot", budgets |-> {}]
Idle == [pc |-> "idle", then |-> "idle", ids |-> {}, rows |-> {}]

-----------------------------------------------------------------------------
(* Authentication. *)

(* ValidatevKeyAuth lets the request through, on the entry it found.  The  *)
(* expiry, which never changes after creation, is left out.                *)
Accepts(e) == e \in cache /\ e.active

-----------------------------------------------------------------------------
(* VirtualkeyCache. *)

(* LoadVirtualKeys *)
LoadVirtualKeys(R) == cache' = R /\ loaded' = TRUE

(* UpsertVirtualKey: only the entry with the same plaintext is replaced.   *)
Upserted(c, r) == {e \in c : e.secret # r.secret} \union {r}
UpsertVirtualKey(r) == cache' = Upserted(cache, r) /\ loaded' = TRUE

(* DeleteVirtualKeyByID deletes one entry with the id, whichever the range *)
(* over the map meets first, and publishes nothing when there is none.     *)
Deleted(c, ids) ==
    IF \E e \in c : e.id \in ids THEN {c \ {e} : e \in {x \in c : x.id \in ids}} ELSE {c}

-----------------------------------------------------------------------------
(* The admin handlers: first the transaction, after which the handler goes *)
(* to pc, and from there to "then". *)

Commit(a, id, pc, then) ==
    /\ loaded /\ admin[a].pc = "idle" /\ ops < MaxOps
    /\ ops' = ops + 1
    /\ admin' = [admin EXCEPT ![a] = [pc |-> pc, then |-> then, ids |-> {id}, rows |-> {}]]
    /\ UNCHANGED <<loaded, cache, sync, budgetCache, crashes>>

SetRow(id, r) == rows' = {x \in rows : x.id # id} \union {r}
(* An update of a budget that has no row any more changes nothing. *)
SetStatus(b, s) == status' = [status EXCEPT ![b] = IF Exists(b) THEN s ELSE @]

(* Mutant: a bound budget is not refused. *)
CreateUnchecked(a, id, s, b, rt) ==
    /\ id \notin Ids /\ s \notin minted
    /\ Exists(b)
    /\ rows' = rows \union
         {[id |-> id, secret |-> s, budget |-> b, active |-> TRUE, routing |-> rt]}
    /\ SetStatus(b, "bound")
    /\ minted' = minted \union {s}
    /\ Commit(a, id, "reread", "upsert")
    /\ UNCHANGED rerevoked

(* createVirtualKey: CreateVirtualKeyTx refuses a bound budget, and binds it. *)
Create(a, id, s, b, rt) ==
    /\ id \notin Ids /\ s \notin minted
    /\ Exists(b) /\ status[b] # "bound"
    /\ rows' = rows \union
         {[id |-> id, secret |-> s, budget |-> b, active |-> TRUE, routing |-> rt]}
    /\ SetStatus(b, "bound")
    /\ minted' = minted \union {s}
    /\ Commit(a, id, "reread", "upsert")
    /\ UNCHANGED rerevoked

(* setVirtualKeyStatus: SetVirtualKeyActive changes nothing when the key   *)
(* is as asked, and refuses to activate a second key on the budget.        *)
SetActive(a, id, v) ==
    /\ id \in Ids
    /\ LET old == RowOf(id) IN
       IF old.active = v THEN UNCHANGED <<rows, status>>
       ELSE /\ v => ~\E r \in rows : r.budget = old.budget /\ r.active /\ r.id # id
            /\ SetRow(id, [old EXCEPT !.active = v])
            /\ SetStatus(old.budget, IF v THEN "bound" ELSE "released")
    /\ Commit(a, id, "reread", IF v THEN "upsert" ELSE "delete")
    /\ UNCHANGED <<minted, rerevoked>>

(* Mutant: a revocation that leaves the budget bound. *)
RevokeWithoutRelease(a, id) ==
    /\ id \in Ids
    /\ SetRow(id, [RowOf(id) EXCEPT !.active = FALSE])
    /\ Commit(a, id, "delete", "idle")
    /\ UNCHANGED <<status, minted, rerevoked>>

(* revokeVirtualKey: RevokeVirtualKey does not look whether it is active.  *)
Revoke(a, id) ==
    /\ id \in Ids
    /\ LET old == RowOf(id) IN
       /\ SetRow(id, [old EXCEPT !.active = FALSE])
       /\ SetStatus(old.budget, "released")
       /\ rerevoked' = rerevoked \union (IF old.active THEN {} ELSE {old.budget})
    /\ Commit(a, id, "delete", "idle")
    /\ UNCHANGED minted

(* rotateVirtualKey: RotateVirtualKey refuses a revoked key. *)
Rotate(a, id, s) ==
    /\ id \in Ids /\ RowOf(id).active /\ s \notin minted
    /\ SetRow(id, [RowOf(id) EXCEPT !.secret = s])
    /\ minted' = minted \union {s}
    /\ Commit(a, id, "reread", "replace")
    /\ UNCHANGED <<status, rerevoked>>

(* updateVirtualKeyRouting: also for a revoked key, and the load balancer  *)
(* need not be implemented.                                                *)
UpdateRouting(a, id, rt) ==
    /\ id \in Ids
    /\ SetRow(id, [RowOf(id) EXCEPT !.routing = rt])
    /\ Commit(a, id, "reread", "upsert")
    /\ UNCHANGED <<status, minted, rerevoked>>

(* createBudget: the row is inserted, and the entry follows it. *)
CreateBudget(a, b) ==
    /\ status[b] = "none"
    /\ status' = [status EXCEPT ![b] = "unbound"]
    /\ Commit(a, b, "upsert budget", "idle")
    /\ UNCHANGED <<rows, minted, rerevoked>>

(* deleteBudget: Store.DeleteBudget reads the row, refuses a bound budget, *)
(* and deletes the row in a statement of its own.                          *)
DeleteBudget(a, b) ==
    /\ Exists(b) /\ status[b] # "bound"
    /\ Commit(a, b, "delete row", "delete budget")
    /\ UNCHANGED store

(* ... then GetVirtualKey, in a statement of its own: it reads what is in  *)
(* the table by then.  When it fails so does the request, and the cache is *)
(* left as it was although the row has changed.                            *)
Reread(a) ==
    /\ admin[a].pc = "reread"
    /\ admin' = [admin EXCEPT ![a] =
                    [@ EXCEPT !.pc = admin[a].then, !.rows = {r \in rows : r.id \in admin[a].ids}]]
    /\ UNCHANGED <<store, loaded, cache, sync, budgetCache, ops, crashes>>

DeleteBudgetRow(a) ==
    /\ admin[a].pc = "delete row"
    /\ status' = [b \in Budgets |-> IF b \in admin[a].ids THEN "deleted" ELSE status[b]]
    /\ admin' = [admin EXCEPT ![a].pc = admin[a].then]
    /\ UNCHANGED <<rows, minted, rerevoked, loaded, cache, sync, budgetCache, ops, crashes>>

(* ... then the cache. *)

Done(a) ==
    /\ admin' = [admin EXCEPT ![a] = Idle]
    /\ UNCHANGED <<store, sync, bsync, ops, crashes>>

HandlerUpsert(a) ==
    /\ admin[a].pc = "upsert"
    /\ \E r \in admin[a].rows : UpsertVirtualKey(r)
    /\ Done(a)
    /\ UNCHANGED entries

HandlerDelete(a) ==
    /\ admin[a].pc = "delete"
    /\ cache' \in Deleted(cache, admin[a].ids)
    /\ Done(a)
    /\ UNCHANGED <<loaded, entries>>

(* BudgetCache.UpsertBudget and DeleteBudget *)
HandlerBudget(a) ==
    /\ \/ admin[a].pc = "upsert budget" /\ entries' = entries \union admin[a].ids
       \/ admin[a].pc = "delete budget" /\ entries' = entries \ admin[a].ids
    /\ Done(a)
    /\ UNCHANGED <<loaded, cache>>

(* rotateVirtualKey deletes by id and then upserts the new secret. *)
HandlerReplace(a) ==
    /\ admin[a].pc = "replace"
    /\ cache' \in Deleted(cache, admin[a].ids)
    /\ admin' = [admin EXCEPT ![a].pc = "upsert"]
    /\ UNCHANGED <<store, loaded, sync, budgetCache, ops, crashes>>

RereadFails(a) ==
    admin[a].pc = "reread" /\ Done(a) /\ UNCHANGED <<loaded, cache, entries>>

CacheStep(a) ==
    \/ Reread(a) \/ RereadFails(a) \/ HandlerUpsert(a) \/ HandlerDelete(a) \/ HandlerReplace(a)
    \/ DeleteBudgetRow(a) \/ HandlerBudget(a)

-----------------------------------------------------------------------------
(* The jobs.  Both run once inside Start, budget_sync first and before     *)
(* requests and handlers, which fails when a sync does, and then on their  *)
(* tickers.                                                                *)

(* Mutant: an entry is not evicted. *)
BudgetSyncAdds ==
    \/ /\ bsync.pc = "boot" \/ (bsync.pc = "idle" /\ loaded)
       /\ bsync' = [pc |-> "listed", budgets |-> BudgetRows]
       /\ UNCHANGED <<store, loaded, cache, sync, entries, admin, ops, crashes>>
    \/ /\ bsync.pc = "listed"
       /\ entries' = entries \union bsync.budgets
       /\ bsync' = [pc |-> "idle", budgets |-> {}]
       /\ UNCHANGED <<store, loaded, cache, sync, admin, ops, crashes>>

(* syncBudget lists the rows; LoadBudgets then adds the listed budgets and *)
(* evicts the others, also one that was created since the list was read.   *)
BudgetSync ==
    \/ /\ bsync.pc = "boot" \/ (bsync.pc = "idle" /\ loaded)
       /\ bsync' = [pc |-> "listed", budgets |-> BudgetRows]
       /\ UNCHANGED <<store, loaded, cache, sync, entries, admin, ops, crashes>>
    \/ /\ bsync.pc = "listed"
       /\ entries' = bsync.budgets
       /\ bsync' = [pc |-> "idle", budgets |-> {}]
       /\ UNCHANGED <<store, loaded, cache, sync, admin, ops, crashes>>

SyncList ==
    /\ sync.pc = "idle" /\ (bsync.pc = "idle" \/ loaded)
    /\ sync' = [pc |-> "listed", rows |-> rows]
    /\ UNCHANGED <<store, loaded, cache, budgetCache, admin, ops, crashes>>

(* Mutant: the listed rows are added to the map, and nothing is evicted. *)
SyncMerge ==
    /\ sync.pc = "listed"
    /\ cache' = {e \in cache : \A r \in sync.rows : r.secret # e.secret} \union sync.rows
    /\ loaded' = TRUE
    /\ sync' = NoRows
    /\ UNCHANGED <<store, budgetCache, admin, ops, crashes>>

(* Validate refuses a row whose load balancer is not implemented, and one  *)
(* such row ends the sync with the published map as it was.                *)
SyncLoad ==
    /\ sync.pc = "listed"
    /\ IF \A r \in sync.rows : r.routing \in Implemented
       THEN LoadVirtualKeys(sync.rows)
       ELSE UNCHANGED <<loaded, cache>>
    /\ sync' = NoRows
    /\ UNCHANGED <<store, budgetCache, admin, ops, crashes>>

KeySync == SyncList \/ SyncLoad

(* The process ends and is started again. *)
Restart ==
    /\ loaded /\ crashes < MaxCrashes
    /\ crashes' = crashes + 1
    /\ loaded' = FALSE /\ cache' = {}
    /\ sync' = NoRows
    /\ entries' = {} /\ bsync' = Boot
    /\ admin' = [a \in Admins |-> Idle]
    /\ UNCHANGED <<store, ops>>

-----------------------------------------------------------------------------
Init ==
    /\ rows = {} /\ minted = {}
    /\ status \in [Budgets -> {"none", "unbound"}]
    /\ loaded = FALSE /\ cache = {}
    /\ sync = NoRows
    /\ entries = {} /\ bsync = Boot
    /\ rerevoked = {}
    /\ admin = [a \in Admins |-> Idle]
    /\ ops = 0 /\ crashes = 0

Handler(a) ==
    \/ \E id \in Keys :
          \/ \E s \in Secrets, b \in Budgets, rt \in Routings : Create(a, id, s, b, rt)
          \/ \E v \in BOOLEAN : SetActive(a, id, v)
          \/ Revoke(a, id)
          \/ \E s \in Secrets : Rotate(a, id, s)
          \/ \E rt \in Routings : UpdateRouting(a, id, rt)
    \/ \E b \in Budgets : CreateBudget(a, b) \/ DeleteBudget(a, b)
    \/ CacheStep(a)

Next ==
    \/ \E a \in Admins : Handler(a)
    \/ KeySync
    \/ BudgetSync
    \/ Restart

Spec == Init /\ [][Next]_vars

(* The worker group runs the jobs for as long as the process lives, and a  *)
(* handler that started runs to its end.                                   *)
FairSpec ==
    /\ Spec
    /\ WF_vars(KeySync) /\ WF_vars(BudgetSync)
    /\ \A a \in Admins : WF_vars(CacheStep(a))

-----------------------------------------------------------------------------
(* Properties. *)

(* Every variable has the type its Go counterpart gives it: rows have one   *)
(* row per id, the cache one entry per plaintext key.                      *)
TypeOK ==
    /\ rows \subseteq Row /\ cache \subseteq Row /\ minted \subseteq Secrets
    /\ status \in [Budgets -> {"none", "unbound", "bound", "released", "deleted"}]
    /\ \A r, q \in rows : r.id = q.id => r = q
    /\ \A e, f \in cache : e.secret = f.secret => e = f
    /\ loaded \in BOOLEAN
    /\ sync \in [pc : {"idle", "listed"}, rows : SUBSET Row]
    /\ entries \subseteq Budgets /\ rerevoked \subseteq Budgets
    /\ bsync \in [pc : {"boot", "idle", "listed"}, budgets : SUBSET Budgets]
    /\ admin \in [Admins -> [pc : {"idle", "reread", "upsert", "delete", "replace",
                                   "upsert budget", "delete row", "delete budget"},
                             then : {"idle", "upsert", "delete", "replace", "delete budget"},
                             ids : SUBSET (Keys \union Budgets), rows : SUBSET Row]]
    /\ ops \in Nat /\ crashes \in Nat

(* A budget that is bound has an active key: none is stranded, refused to  *)
(* every new key although nobody bills it.                                 *)
BoundBudgetHasKey ==
    \A b \in Budgets : status[b] = "bound" => \E r \in rows : r.budget = b /\ r.active

(* The tables and the cache are sound: types, no stranded budget. *)
KeysInv == TypeOK /\ BoundBudgetHasKey

(* Two active keys never share a budget, and an active key's budget is     *)
(* bound, so that it is neither given to another key nor deleted, as long  *)
(* as no revoked key on it was revoked again (RevokeVirtualKey releases    *)
(* the budget whoever it is bound to by then) and its row was not deleted. *)
BudgetIsExclusive ==
    \A r \in rows : r.active /\ r.budget \notin rerevoked /\ Exists(r.budget) =>
        /\ status[r.budget] = "bound"
        /\ \A q \in rows : q.active /\ q.budget = r.budget => q = r

(* Once every row has a load balancer that is implemented, the keys that   *)
(* authenticate become those the table has active, although a sync         *)
(* publishes an old list over a handler's change, a handler's re-read      *)
(* fails and a revocation deletes one entry of two.                        *)
Live(R) == {r \in R : r.active}
CacheConverges ==
    <>[](\A r \in rows : r.routing \in Implemented)
        => <>[](loaded /\ Live(cache) = Live(rows))

(* The budgets that requests find become those of the table, although a    *)
(* sync evicts a budget that was created after it listed the rows, or      *)
(* brings back one that was deleted: no request of a budget that exists is *)
(* refused for ever, and none is charged to a budget that does not.        *)
EntriesConverge == <>[](entries = BudgetRows)
=============================================================================
