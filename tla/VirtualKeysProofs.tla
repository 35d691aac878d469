------------------------- MODULE VirtualKeysProofs -------------------------
(***************************************************************************)
(* Proofs about VirtualKeys, for every number of keys, budgets, handlers   *)
(* and admin requests: the tables and the cache stay sound, and a budget   *)
(* has one active key.                                                     *)
(***************************************************************************)
EXTENDS VirtualKeys, TLAPS

Statuses == {"none", "unbound", "bound", "released", "deleted"}

(* A row's id and plaintext are its own, and its budget was created. *)
OneSecret(R) == \A r, q \in R : r.secret = q.secret => r = q
Rows ==
    /\ rows \subseteq Row
    /\ \A r, q \in rows : r.id = q.id => r = q
    /\ OneSecret(rows)
    /\ \A r \in rows : r.secret \in minted /\ status[r.budget] # "none"

(* The tables: what transactions read and write. *)
Tables ==
    /\ Rows
    /\ status \in [Budgets -> Statuses] /\ minted \subseteq Secrets /\ rerevoked \subseteq Budgets
    /\ BoundBudgetHasKey /\ BudgetIsExclusive

(* The caches, the jobs and the handlers. *)
AdminType ==
    [pc : {"idle", "reread", "upsert", "delete", "replace", "upsert budget", "delete row", "delete budget"},
     then : {"idle", "upsert", "delete", "replace", "delete budget"},
     ids : SUBSET (Keys \union Budgets), rows : SUBSET Row]
AboutBudget(h) == h.pc \in {"upsert budget", "delete row", "delete budget"} \/ h.then = "delete budget"
HandlerType == {h \in AdminType : AboutBudget(h) => h.ids \subseteq Budgets}
SyncType == [pc : {"idle", "listed"}, rows : SUBSET Row]
BudgetSyncType == [pc : {"boot", "idle", "listed"}, budgets : SUBSET Budgets]
Caches ==
    /\ cache \subseteq Row /\ OneSecret(cache) /\ loaded \in BOOLEAN
    /\ sync \in SyncType /\ OneSecret(sync.rows)
    /\ entries \subseteq Budgets /\ bsync \in BudgetSyncType
    /\ admin \in [Admins -> HandlerType]
    /\ ops \in Nat /\ crashes \in Nat

-----------------------------------------------------------------------------
(* The tables. *)

LEMMA RowOfIs ==
    ASSUME Rows, NEW id \in Ids
    PROVE  RowOf(id) \in rows /\ RowOf(id).id = id /\ RowOf(id) \in Row
<1>1. \E r \in rows : r.id = id
  BY DEF Ids
<1> QED BY <1>1 DEF RowOf, Rows

(* Updating one row, which keeps its id and budget. *)
LEMMA RowChange ==
    ASSUME Tables, NEW old \in rows, NEW new \in Row,
           new.id = old.id, new.budget = old.budget,
           new.secret = old.secret \/ new.secret \notin minted,
           rows' = {x \in rows : x.id # old.id} \union {new},
           minted' = minted \union {new.secret},
           \A b \in Budgets : status[b] # "none" => status'[b] # "none"
    PROVE  /\ Rows'
           /\ \A x : x \in rows' <=> x = new \/ (x \in rows /\ x # old)
<1>r. Rows
  BY DEF Tables
<1>1. \A x : x \in rows' <=> x = new \/ (x \in rows /\ x # old)
  BY <1>r DEF Rows
<1>2. rows' \subseteq Row
  BY <1>r, <1>1 DEF Rows
<1>3. \A r, q \in rows' : r.id = q.id => r = q
  BY <1>r, <1>1 DEF Rows
<1>4. OneSecret(rows')
  BY <1>r, <1>1 DEF Rows, OneSecret
<1>5. \A r \in rows' : r.secret \in minted' /\ status'[r.budget] # "none"
  <2>1. new.budget \in Budgets /\ \A r \in rows : r.budget \in Budgets
    BY <1>r DEF Rows, Row
  <2> QED BY <1>r, <1>1, <2>1 DEF Rows
<1>6. OneSecret(rows)'
  BY <1>4 DEF OneSecret
<1> QED BY <1>1, <1>2, <1>3, <1>5, <1>6 DEF Rows

LEMMA CreateTables ==
    ASSUME Tables, NEW a \in Admins, NEW id \in Keys, NEW s \in Secrets, NEW b \in Budgets,
           NEW rt \in Routings, Create(a, id, s, b, rt)
    PROVE  Tables'
<1> DEFINE new == [id |-> id, secret |-> s, budget |-> b, active |-> TRUE, routing |-> rt]
<1>t. /\ Rows /\ status \in [Budgets -> Statuses] /\ minted \subseteq Secrets /\ rerevoked \subseteq Budgets
      /\ BoundBudgetHasKey /\ BudgetIsExclusive
  BY DEF Tables
<1>1. /\ id \notin Ids /\ s \notin minted /\ Exists(b) /\ status[b] # "bound"
      /\ rows' = rows \union {new} /\ minted' = minted \union {s} /\ rerevoked' = rerevoked
      /\ status' = [status EXCEPT ![b] = "bound"]
  BY DEF Create, SetStatus
<1>2. new \in Row /\ new.id = id /\ new.secret = s /\ new.budget = b /\ new.active
  BY DEF Row
<1> HIDE DEF new
<1>3. status' \in [Budgets -> Statuses] /\ minted' \subseteq Secrets /\ rerevoked' \subseteq Budgets
  BY <1>t, <1>1 DEF Statuses
<1>4. status'[b] = "bound" /\ \A c \in Budgets : c # b => status'[c] = status[c]
  BY <1>t, <1>1
<1>b. \A r \in rows : r.budget \in Budgets
  BY <1>t DEF Rows, Row
<1>5. Rows'
  <2>1. rows' \subseteq Row /\ \A r, q \in rows' : r.id = q.id => r = q
    BY <1>t, <1>1, <1>2 DEF Rows, Ids
  <2>2. OneSecret(rows)'
    BY <1>t, <1>1, <1>2 DEF Rows, OneSecret
  <2>3. \A r \in rows' : r.secret \in minted' /\ status'[r.budget] # "none"
    BY <1>t, <1>b, <1>1, <1>2, <1>4 DEF Rows
  <2> QED BY <2>1, <2>2, <2>3 DEF Rows
<1>6. BoundBudgetHasKey'
  BY <1>t, <1>1, <1>2, <1>4 DEF BoundBudgetHasKey
<1>7. b \in rerevoked \/ \A r \in rows : r.budget = b => ~r.active
  BY <1>t, <1>1 DEF BudgetIsExclusive
<1>8. BudgetIsExclusive'
  <2> SUFFICES ASSUME NEW r \in rows', r.active, r.budget \notin rerevoked', Exists(r.budget)'
               PROVE  /\ status'[r.budget] = "bound"
                      /\ \A q \in rows' : q.active /\ q.budget = r.budget => q = r
    BY DEF BudgetIsExclusive
  <2>1. CASE r.budget = b
    BY <1>1, <1>2, <1>4, <1>7, <2>1
  <2>2. CASE r.budget # b
    <3>1. r \in rows /\ r.budget \in Budgets
      BY <1>1, <1>2, <1>b, <2>2
    <3>2. Exists(r.budget)
      BY <1>4, <2>2, <3>1 DEF Exists
    <3> QED BY <1>t, <1>1, <1>2, <1>4, <2>2, <3>1, <3>2 DEF BudgetIsExclusive
  <2> QED BY <2>1, <2>2
<1> QED BY <1>3, <1>5, <1>6, <1>8 DEF Tables

(* A row that keeps its state, whatever becomes of its secret and routing. *)
LEMMA SameState ==
    ASSUME Tables, NEW old \in rows, NEW new \in Row,
           new.id = old.id, new.budget = old.budget, new.active = old.active,
           new.secret = old.secret \/ new.secret \notin minted,
           rows' = {x \in rows : x.id # old.id} \union {new},
           minted' = minted \union {new.secret},
           status' = status, rerevoked' = rerevoked
    PROVE  Tables'
<1>t. /\ Rows /\ status \in [Budgets -> Statuses] /\ minted \subseteq Secrets /\ rerevoked \subseteq Budgets
      /\ BoundBudgetHasKey /\ BudgetIsExclusive
  BY DEF Tables
<1>1. Rows' /\ \A x : x \in rows' <=> x = new \/ (x \in rows /\ x # old)
  BY RowChange
<1>2. minted' \subseteq Secrets
  BY <1>t DEF Row
<1>3. BoundBudgetHasKey'
  BY <1>t, <1>1 DEF BoundBudgetHasKey
<1>4. BudgetIsExclusive'
  BY <1>t, <1>1 DEF BudgetIsExclusive, Exists
<1> QED BY <1>t, <1>1, <1>2, <1>3, <1>4 DEF Tables

(* A key becomes active when no other key of its budget is. *)
LEMMA Activation ==
    ASSUME Tables, NEW old \in rows, NEW new \in Row,
           new.id = old.id, new.budget = old.budget, new.secret = old.secret, new.active = TRUE,
           \A r \in rows : r.budget = old.budget /\ r.active => r.id = old.id,
           rows' = {x \in rows : x.id # old.id} \union {new},
           minted' = minted, rerevoked' = rerevoked, SetStatus(old.budget, "bound")
    PROVE  Tables'
<1>t. /\ Rows /\ status \in [Budgets -> Statuses] /\ minted \subseteq Secrets /\ rerevoked \subseteq Budgets
      /\ BoundBudgetHasKey /\ BudgetIsExclusive
  BY DEF Tables
<1>b. old.budget \in Budgets /\ (\A r \in rows : r.budget \in Budgets) /\ old.secret \in minted
  BY <1>t DEF Rows, Row
<1>1. /\ status' \in [Budgets -> Statuses]
      /\ \A c \in Budgets : c # old.budget => status'[c] = status[c]
      /\ IF Exists(old.budget) THEN status'[old.budget] = "bound" ELSE status'[old.budget] = status[old.budget]
  BY <1>t, <1>b DEF SetStatus, Statuses
<1>2. \A b \in Budgets : status[b] # "none" => status'[b] # "none"
  BY <1>b, <1>1
<1>3. Rows' /\ \A x : x \in rows' <=> x = new \/ (x \in rows /\ x # old)
  BY <1>b, <1>2, RowChange
<1>4. \A r \in rows' : r.budget = old.budget /\ r.active => r = new
  BY <1>t, <1>3 DEF Rows
<1>5. new \in rows' /\ new.active
  BY <1>3
<1>6. BoundBudgetHasKey'
  <2> SUFFICES ASSUME NEW b \in Budgets, status'[b] = "bound"
               PROVE  \E r \in rows' : r.budget = b /\ r.active
    BY DEF BoundBudgetHasKey
  <2>1. CASE b = old.budget
    BY <1>5, <2>1
  <2>2. CASE b # old.budget
    BY <1>t, <1>1, <1>3, <2>2 DEF BoundBudgetHasKey
  <2> QED BY <2>1, <2>2
<1>7. BudgetIsExclusive'
  <2> SUFFICES ASSUME NEW r \in rows', r.active, r.budget \notin rerevoked', Exists(r.budget)'
               PROVE  /\ status'[r.budget] = "bound"
                      /\ \A q \in rows' : q.active /\ q.budget = r.budget => q = r
    BY DEF BudgetIsExclusive
  <2>1. CASE r.budget = old.budget
    BY <1>1, <1>4, <2>1 DEF Exists
  <2>2. CASE r.budget # old.budget
    <3>1. r \in rows /\ r.budget \in Budgets
      BY <1>3, <1>b, <2>2
    <3>2. Exists(r.budget)
      BY <1>1, <2>2, <3>1 DEF Exists
    <3> QED BY <1>t, <1>1, <1>3, <2>2, <3>1, <3>2 DEF BudgetIsExclusive
  <2> QED BY <2>1, <2>2
<1> QED BY <1>t, <1>1, <1>3, <1>6, <1>7 DEF Tables

(* A key is no longer active, and its budget is released: if it was not    *)
(* active before, the budget counts as revoked again.                      *)
LEMMA Release ==
    ASSUME Tables, NEW old \in rows, NEW new \in Row,
           new.id = old.id, new.budget = old.budget, new.secret = old.secret, new.active = FALSE,
           rows' = {x \in rows : x.id # old.id} \union {new},
           minted' = minted, SetStatus(old.budget, "released"),
           rerevoked' = rerevoked \union (IF old.active THEN {} ELSE {old.budget})
    PROVE  Tables'
<1>t. /\ Rows /\ status \in [Budgets -> Statuses] /\ minted \subseteq Secrets /\ rerevoked \subseteq Budgets
      /\ BoundBudgetHasKey /\ BudgetIsExclusive
  BY DEF Tables
<1>b. old.budget \in Budgets /\ (\A r \in rows : r.budget \in Budgets) /\ old.secret \in minted
  BY <1>t DEF Rows, Row
<1>1. /\ status' \in [Budgets -> Statuses]
      /\ \A c \in Budgets : c # old.budget => status'[c] = status[c]
      /\ IF Exists(old.budget) THEN status'[old.budget] = "released" ELSE status'[old.budget] = status[old.budget]
  BY <1>t, <1>b DEF SetStatus, Statuses
<1>2. \A b \in Budgets : status[b] # "none" => status'[b] # "none"
  BY <1>b, <1>1
<1>3. Rows' /\ \A x : x \in rows' <=> x = new \/ (x \in rows /\ x # old)
  BY <1>b, <1>2, RowChange
<1>4. rerevoked' \subseteq Budgets
  BY <1>t, <1>b
<1>5. status'[old.budget] # "bound"
  BY <1>1 DEF Exists
<1>6. BoundBudgetHasKey'
  <2> SUFFICES ASSUME NEW b \in Budgets, status'[b] = "bound"
               PROVE  \E r \in rows' : r.budget = b /\ r.active
    BY DEF BoundBudgetHasKey
  <2>1. b # old.budget
    BY <1>5
  <2> QED BY <1>t, <1>1, <1>3, <2>1 DEF BoundBudgetHasKey
<1>7. BudgetIsExclusive'
  <2> SUFFICES ASSUME NEW r \in rows', r.active, r.budget \notin rerevoked', Exists(r.budget)'
               PROVE  /\ status'[r.budget] = "bound"
                      /\ \A q \in rows' : q.active /\ q.budget = r.budget => q = r
    BY DEF BudgetIsExclusive
  <2>1. r \in rows /\ r # old /\ r.budget \in Budgets /\ r.budget \notin rerevoked
    BY <1>3, <1>b
  <2>2. r.budget # old.budget
    <3> SUFFICES ASSUME r.budget = old.budget PROVE FALSE
      OBVIOUS
    <3>1. old.active
      BY <2>1
    <3>2. Exists(old.budget)
      BY <1>1 DEF Exists
    <3> QED BY <1>t, <2>1, <3>1, <3>2 DEF BudgetIsExclusive
  <2>3. Exists(r.budget)
    BY <1>1, <2>1, <2>2 DEF Exists
  <2> QED BY <1>t, <1>1, <1>3, <2>1, <2>2, <2>3 DEF BudgetIsExclusive
<1> QED BY <1>t, <1>1, <1>3, <1>4, <1>6, <1>7 DEF Tables

(* The statuses of budgets change, and no row does: to "unbound" of a      *)
(* budget without rows, or to "deleted".                                   *)
LEMMA BudgetRowChange ==
    ASSUME Tables, rows' = rows, minted' = minted, rerevoked' = rerevoked,
           status' \in [Budgets -> Statuses],
           \A b \in Budgets : status'[b] \in {status[b], "deleted"} \/ (status[b] = "none" /\ status'[b] = "unbound")
    PROVE  Tables'
<1>t. /\ Rows /\ status \in [Budgets -> Statuses] /\ minted \subseteq Secrets /\ rerevoked \subseteq Budgets
      /\ BoundBudgetHasKey /\ BudgetIsExclusive
  BY DEF Tables
<1>1. \A r \in rows : r.budget \in Budgets /\ status'[r.budget] \in {status[r.budget], "deleted"}
  BY <1>t DEF Rows, Row
<1>2. Rows'
  BY <1>t, <1>1 DEF Rows, OneSecret
<1>3. BoundBudgetHasKey'
  BY <1>t DEF BoundBudgetHasKey
<1>4. BudgetIsExclusive'
  BY <1>t, <1>1 DEF BudgetIsExclusive, Exists
<1> QED BY <1>t, <1>2, <1>3, <1>4 DEF Tables

LEMMA InitTables == Init => Tables
<1> SUFFICES ASSUME Init PROVE Tables
  OBVIOUS
<1>1. Rows
  BY DEF Init, Rows, OneSecret
<1>2. status \in [Budgets -> Statuses] /\ minted \subseteq Secrets /\ rerevoked \subseteq Budgets
  BY DEF Init, Statuses
<1>3. BoundBudgetHasKey /\ BudgetIsExclusive
  BY DEF Init, BoundBudgetHasKey, BudgetIsExclusive
<1> QED BY <1>1, <1>2, <1>3 DEF Tables

LEMMA Updated ==
    ASSUME NEW r \in Row, NEW v \in BOOLEAN
    PROVE  /\ [r EXCEPT !.active = v] \in Row /\ [r EXCEPT !.active = v].active = v
           /\ [r EXCEPT !.active = v].id = r.id /\ [r EXCEPT !.active = v].budget = r.budget
           /\ [r EXCEPT !.active = v].secret = r.secret
BY DEF Row

(* Every transaction keeps the tables sound. *)
LEMMA StepTables == Tables /\ Caches /\ [Next]_vars => Tables'
<1> SUFFICES ASSUME Tables, Caches, [Next]_vars PROVE Tables'
  OBVIOUS
<1>t. Rows /\ status \in [Budgets -> Statuses] /\ minted \subseteq Secrets
  BY DEF Tables
<1>m. \A r \in rows : minted = minted \union {r.secret}
  BY <1>t DEF Rows
<1>1. ASSUME UNCHANGED store PROVE Tables'
  BY <1>1 DEF store, Tables, Rows, OneSecret, BoundBudgetHasKey, BudgetIsExclusive, Exists
<1>2. ASSUME NEW a \in Admins, NEW id \in Keys, NEW v \in BOOLEAN, SetActive(a, id, v) PROVE Tables'
  <2> DEFINE old == RowOf(id)
             new == [old EXCEPT !.active = v]
  <2>1. old \in rows /\ old.id = id /\ old \in Row /\ old.active \in BOOLEAN
    BY <1>2, <1>t, RowOfIs DEF SetActive, Row
  <2>2. /\ new \in Row /\ new.active = v /\ new.id = old.id /\ new.budget = old.budget
        /\ new.secret = old.secret
    BY <2>1, Updated
  <2>3. minted' = minted /\ rerevoked' = rerevoked
    BY <1>2 DEF SetActive
  <2>4. CASE old.active = v
    <3>1. rows' = rows /\ status' = status
      BY <1>2, <2>4 DEF SetActive
    <3> QED BY <1>1, <2>3, <3>1 DEF store
  <2>5. CASE old.active # v
    <3>1. /\ v => ~\E r \in rows : r.budget = old.budget /\ r.active /\ r.id # id
          /\ rows' = {x \in rows : x.id # id} \union {new}
          /\ SetStatus(old.budget, IF v THEN "bound" ELSE "released")
      BY <1>2, <2>5 DEF SetActive, SetRow
    <3> HIDE DEF new
    <3>2. CASE v = TRUE
      <4>1. SetStatus(old.budget, "bound") /\ new.active = TRUE
        BY <3>1, <3>2, <2>2
      <4>2. \A r \in rows : r.budget = old.budget /\ r.active => r.id = old.id
        BY <3>1, <3>2, <2>1
      <4> HIDE DEF old
      <4> QED BY <2>1, <2>2, <2>3, <3>1, <4>1, <4>2, Activation
    <3>3. CASE v = FALSE
      <4>1. SetStatus(old.budget, "released") /\ new.active = FALSE
        BY <3>1, <3>3, <2>2
      <4>2. old.active
        BY <2>1, <2>5, <3>3
      <4>3. rerevoked' = rerevoked \union (IF old.active THEN {} ELSE {old.budget})
        BY <2>3, <4>2
      <4> HIDE DEF old
      <4> QED BY <2>1, <2>2, <2>3, <3>1, <4>1, <4>3, Release
    <3> QED BY <3>2, <3>3
  <2> QED BY <2>4, <2>5
<1>3. ASSUME NEW a \in Admins, NEW id \in Keys, Revoke(a, id) PROVE Tables'
  <2> DEFINE old == RowOf(id)
             new == [old EXCEPT !.active = FALSE]
  <2>1. old \in rows /\ old.id = id /\ old \in Row
    BY <1>3, <1>t, RowOfIs DEF Revoke
  <2>2. /\ new \in Row /\ new.active = FALSE /\ new.id = old.id /\ new.budget = old.budget
        /\ new.secret = old.secret
    BY <2>1 DEF Row
  <2>3. /\ minted' = minted /\ rows' = {x \in rows : x.id # id} \union {new}
        /\ SetStatus(old.budget, "released")
        /\ rerevoked' = rerevoked \union (IF old.active THEN {} ELSE {old.budget})
    BY <1>3 DEF Revoke, SetRow
  <2> HIDE DEF old, new
  <2> QED BY <2>1, <2>2, <2>3, Release
<1>4. ASSUME NEW a \in Admins, NEW id \in Keys, NEW s \in Secrets, Rotate(a, id, s) PROVE Tables'
  <2> DEFINE old == RowOf(id)
             new == [old EXCEPT !.secret = s]
  <2>1. old \in rows /\ old.id = id /\ old \in Row
    BY <1>4, <1>t, RowOfIs DEF Rotate
  <2>2. /\ new \in Row /\ new.active = old.active /\ new.id = old.id /\ new.budget = old.budget
        /\ new.secret = s
    BY <2>1 DEF Row
  <2>3. /\ s \notin minted /\ minted' = minted \union {s} /\ rows' = {x \in rows : x.id # id} \union {new}
        /\ status' = status /\ rerevoked' = rerevoked
    BY <1>4 DEF Rotate, SetRow
  <2> HIDE DEF old, new
  <2> QED BY <2>1, <2>2, <2>3, SameState
<1>5. ASSUME NEW a \in Admins, NEW id \in Keys, NEW rt \in Routings, UpdateRouting(a, id, rt) PROVE Tables'
  <2> DEFINE old == RowOf(id)
             new == [old EXCEPT !.routing = rt]
  <2>1. old \in rows /\ old.id = id /\ old \in Row
    BY <1>5, <1>t, RowOfIs DEF UpdateRouting
  <2>2. /\ new \in Row /\ new.active = old.active /\ new.id = old.id /\ new.budget = old.budget
        /\ new.secret = old.secret
    BY <2>1 DEF Row
  <2>3. /\ minted' = minted /\ rows' = {x \in rows : x.id # id} \union {new}
        /\ status' = status /\ rerevoked' = rerevoked
    BY <1>5 DEF UpdateRouting, SetRow
  <2>4. minted' = minted \union {new.secret}
    BY <1>m, <2>1, <2>2, <2>3
  <2> HIDE DEF old, new
  <2> QED BY <2>1, <2>2, <2>3, <2>4, SameState
<1>6. ASSUME NEW a \in Admins, NEW b \in Budgets, CreateBudget(a, b) PROVE Tables'
  <2>1. status' \in [Budgets -> Statuses] /\ rows' = rows /\ minted' = minted /\ rerevoked' = rerevoked
    BY <1>6, <1>t DEF CreateBudget, Statuses
  <2>2. \A c \in Budgets : status'[c] \in {status[c], "deleted"} \/ (status[c] = "none" /\ status'[c] = "unbound")
    BY <1>6, <1>t DEF CreateBudget
  <2> QED BY <2>1, <2>2, BudgetRowChange
<1>7. ASSUME NEW a \in Admins, DeleteBudgetRow(a) PROVE Tables'
  <2>1. status' \in [Budgets -> Statuses] /\ rows' = rows /\ minted' = minted /\ rerevoked' = rerevoked
    BY <1>7, <1>t DEF DeleteBudgetRow, Statuses
  <2>2. \A c \in Budgets : status'[c] \in {status[c], "deleted"} \/ (status[c] = "none" /\ status'[c] = "unbound")
    BY <1>7 DEF DeleteBudgetRow
  <2> QED BY <2>1, <2>2, BudgetRowChange
<1>8. ASSUME NEW a \in Admins, NEW b \in Budgets, DeleteBudget(a, b) PROVE UNCHANGED store
  BY <1>8 DEF DeleteBudget
<1>9. ASSUME NEW a \in Admins, CacheStep(a) PROVE UNCHANGED store \/ DeleteBudgetRow(a)
  BY <1>9 DEF CacheStep, Reread, RereadFails, HandlerUpsert, HandlerDelete, HandlerReplace, HandlerBudget, Done
<1>10. ASSUME KeySync \/ BudgetSync \/ Restart PROVE UNCHANGED store
  BY <1>10 DEF KeySync, SyncList, SyncLoad, BudgetSync, Restart
<1>11. CASE UNCHANGED vars
  BY <1>1, <1>11 DEF vars
<1>12. ASSUME NEW a \in Admins, Handler(a) PROVE Tables'
  BY <1>12, CreateTables, <1>1, <1>2, <1>3, <1>4, <1>5, <1>6, <1>7, <1>8, <1>9 DEF Handler
<1> QED BY <1>1, <1>10, <1>11, <1>12 DEF Next

-----------------------------------------------------------------------------
(* The caches, the jobs and the handlers. *)

LEMMA InitCaches == Init => Caches
<1> SUFFICES ASSUME Init PROVE Caches
  OBVIOUS
<1>1. sync \in SyncType /\ bsync \in BudgetSyncType /\ sync.rows = {}
  BY DEF Init, NoRows, Boot, SyncType, BudgetSyncType
<1>2. admin \in [Admins -> HandlerType]
  BY DEF Init, Idle, AdminType, HandlerType, AboutBudget
<1>3. loaded \in BOOLEAN
  BY DEF Init
<1> QED BY <1>1, <1>2, <1>3 DEF Init, Caches, OneSecret

(* A map with one entry per plaintext stays one. *)
LEMMA CacheMaps ==
    ASSUME NEW C \in SUBSET Row, OneSecret(C)
    PROVE  /\ \A r \in Row : Upserted(C, r) \in SUBSET Row /\ OneSecret(Upserted(C, r))
           /\ \A ids : \A D \in Deleted(C, ids) : D \in SUBSET Row /\ OneSecret(D)
<1>1. ASSUME NEW r \in Row PROVE Upserted(C, r) \in SUBSET Row /\ OneSecret(Upserted(C, r))
  BY DEF Upserted, OneSecret
<1>2. ASSUME NEW ids, NEW D \in Deleted(C, ids) PROVE D \in SUBSET Row /\ OneSecret(D)
  <2>1. D \subseteq C
    BY DEF Deleted
  <2> QED BY <2>1 DEF OneSecret
<1> QED BY <1>1, <1>2

LEMMA Successor == \A n \in Nat : n + 1 \in Nat
OBVIOUS

LEMMA CommitCaches ==
    ASSUME Caches, NEW a \in Admins, NEW id \in Keys \union Budgets,
           NEW pc \in {"reread", "delete", "upsert budget", "delete row"},
           NEW then \in {"idle", "upsert", "delete", "replace", "delete budget"},
           pc \in {"upsert budget", "delete row"} \/ then = "delete budget" => id \in Budgets,
           Commit(a, id, pc, then)
    PROVE  Caches'
<1> DEFINE next == [pc |-> pc, then |-> then, ids |-> {id}, rows |-> {}]
<1>1. next \in HandlerType
  BY DEF AdminType, HandlerType, AboutBudget
<1>2. /\ admin' = [admin EXCEPT ![a] = next] /\ ops' = ops + 1 /\ loaded' = loaded /\ cache' = cache
      /\ sync' = sync /\ entries' = entries /\ bsync' = bsync /\ crashes' = crashes
  BY DEF Commit, budgetCache
<1> HIDE DEF next
<1>3. admin' \in [Admins -> HandlerType]
  BY <1>1, <1>2 DEF Caches
<1>4. OneSecret(cache)' /\ OneSecret(sync.rows)'
  BY <1>2 DEF Caches, OneSecret
<1>5. ops' \in Nat
  <2>1. ops \in Nat
    BY DEF Caches
  <2>2. ops' = ops + 1
    BY DEF Commit
  <2> QED BY <2>1, <2>2, Successor, Zenon
<1> QED BY <1>2, <1>3, <1>4, <1>5 DEF Caches

(* Every step keeps the types of the caches, the jobs and the handlers. *)
LEMMA StepCaches == Tables /\ Caches /\ [Next]_vars => Caches'
<1> SUFFICES ASSUME Tables, Caches, [Next]_vars PROVE Caches'
  OBVIOUS
<1>t. /\ cache \subseteq Row /\ OneSecret(cache) /\ loaded \in BOOLEAN
      /\ sync \in SyncType /\ OneSecret(sync.rows)
      /\ entries \subseteq Budgets /\ bsync \in BudgetSyncType
      /\ admin \in [Admins -> HandlerType] /\ ops \in Nat /\ crashes \in Nat
  BY DEF Caches
<1>r. rows \subseteq Row /\ OneSecret(rows)
  BY DEF Tables, Rows
<1>a. \A a \in Admins : admin[a].rows \subseteq Row /\ admin[a].ids \subseteq Keys \union Budgets
  BY <1>t DEF AdminType, HandlerType
<1>1. ASSUME NEW a \in Admins, NEW id \in Keys,
             \/ \E s \in Secrets, b \in Budgets, rt \in Routings : Create(a, id, s, b, rt)
             \/ \E v \in BOOLEAN : SetActive(a, id, v)
             \/ Revoke(a, id)
             \/ \E s \in Secrets : Rotate(a, id, s)
             \/ \E rt \in Routings : UpdateRouting(a, id, rt)
      PROVE  Caches'
  <2>1. \E pc \in {"reread", "delete"}, then \in {"idle", "upsert", "delete", "replace"} : Commit(a, id, pc, then)
    BY <1>1 DEF Create, SetActive, Revoke, Rotate, UpdateRouting
  <2> QED BY <2>1, CommitCaches
<1>2. ASSUME NEW a \in Admins, NEW b \in Budgets, CreateBudget(a, b) \/ DeleteBudget(a, b)
      PROVE  Caches'
  <2>1. \E pc \in {"reread", "delete", "upsert budget", "delete row"},
           then \in {"idle", "upsert", "delete", "replace", "delete budget"} : Commit(a, b, pc, then)
    BY <1>2 DEF CreateBudget, DeleteBudget
  <2> QED BY <2>1, CommitCaches
<1>3. ASSUME NEW a \in Admins, Reread(a) PROVE Caches'
  <2> DEFINE next == [admin[a] EXCEPT !.pc = admin[a].then, !.rows = {r \in rows : r.id \in admin[a].ids}]
  <2>1. admin[a] \in HandlerType
    BY <1>t
  <2>2. next \in HandlerType
    BY <2>1, <1>r DEF AdminType, HandlerType, AboutBudget
  <2>3. /\ admin' = [admin EXCEPT ![a] = next] /\ ops' = ops /\ loaded' = loaded /\ cache' = cache
        /\ sync' = sync /\ entries' = entries /\ bsync' = bsync /\ crashes' = crashes
    BY <1>3, <1>t DEF Reread, budgetCache
  <2> HIDE DEF next
  <2>4. admin' \in [Admins -> HandlerType]
    BY <1>t, <2>2, <2>3
  <2> QED BY <1>t, <2>3, <2>4 DEF Caches, OneSecret
<1>4. ASSUME NEW a \in Admins, DeleteBudgetRow(a) \/ HandlerReplace(a) PROVE Caches'
  <2>1. admin[a] \in HandlerType
    BY <1>t
  <2>2. [admin[a] EXCEPT !.pc = admin[a].then] \in HandlerType /\ [admin[a] EXCEPT !.pc = "upsert"] \in HandlerType
    BY <2>1 DEF AdminType, HandlerType, AboutBudget
  <2>3. /\ \/ admin' = [admin EXCEPT ![a] = [admin[a] EXCEPT !.pc = admin[a].then]]
           \/ admin' = [admin EXCEPT ![a] = [admin[a] EXCEPT !.pc = "upsert"]]
        /\ ops' = ops /\ loaded' = loaded
        /\ sync' = sync /\ entries' = entries /\ bsync' = bsync /\ crashes' = crashes
        /\ cache' = cache \/ cache' \in Deleted(cache, admin[a].ids)
    BY <1>4, <1>t DEF DeleteBudgetRow, HandlerReplace, budgetCache
  <2>4. admin' \in [Admins -> HandlerType]
    BY <1>t, <2>2, <2>3
  <2>5. cache' \subseteq Row /\ OneSecret(cache')
    BY <1>t, <2>3, CacheMaps
  <2>6. OneSecret(cache)'
    BY <2>5 DEF OneSecret
  <2>7. OneSecret(sync.rows)'
    BY <1>t, <2>3 DEF OneSecret
  <2> QED BY <1>t, <2>3, <2>4, <2>5, <2>6, <2>7 DEF Caches
<1>5. ASSUME NEW a \in Admins, HandlerUpsert(a) \/ HandlerDelete(a) \/ HandlerBudget(a) \/ RereadFails(a)
      PROVE  Caches'
  <2>1. /\ admin' = [admin EXCEPT ![a] = Idle] /\ ops' = ops /\ sync' = sync
        /\ bsync' = bsync /\ crashes' = crashes
    BY <1>5 DEF HandlerUpsert, HandlerDelete, HandlerBudget, RereadFails, Done
  <2>2. Idle \in HandlerType
    BY DEF Idle, AdminType, HandlerType, AboutBudget
  <2>3. admin' \in [Admins -> HandlerType]
    BY <1>t, <2>1, <2>2
  <2>4. /\ \/ cache' = cache \/ cache' \in Deleted(cache, admin[a].ids)
           \/ \E r \in admin[a].rows : cache' = Upserted(cache, r)
        /\ loaded' = loaded \/ loaded' = TRUE
    BY <1>5 DEF HandlerUpsert, HandlerDelete, HandlerBudget, RereadFails, UpsertVirtualKey
  <2>5. cache' \subseteq Row /\ OneSecret(cache')
    BY <1>t, <1>a, <2>4, CacheMaps
  <2>6. loaded' \in BOOLEAN
    BY <1>t, <2>4
  <2>7. entries' \subseteq Budgets
    <3>1. CASE entries' = entries
      BY <1>t, <3>1
    <3>2. CASE HandlerBudget(a)
      <4>1. CASE admin[a].pc = "delete budget" /\ entries' = entries \ admin[a].ids
        BY <1>t, <4>1
      <4>2. CASE admin[a].pc = "upsert budget" /\ entries' = entries \union admin[a].ids
        BY <1>t, <4>2 DEF HandlerType, AboutBudget
      <4> QED BY <3>2, <4>1, <4>2 DEF HandlerBudget
    <3> QED BY <1>5, <3>1, <3>2 DEF HandlerUpsert, HandlerDelete, RereadFails
  <2>8. OneSecret(cache)' /\ OneSecret(sync.rows)'
    BY <1>t, <2>1, <2>5 DEF OneSecret
  <2> QED BY <1>t, <2>1, <2>3, <2>5, <2>6, <2>7, <2>8 DEF Caches
<1>6. CASE KeySync
  <2>1. /\ admin' = admin /\ ops' = ops /\ crashes' = crashes /\ entries' = entries /\ bsync' = bsync
        /\ sync' \in {NoRows, [pc |-> "listed", rows |-> rows]}
        /\ cache' \in {cache, sync.rows} /\ (loaded' = loaded \/ loaded' = TRUE)
    BY <1>6 DEF KeySync, SyncList, SyncLoad, LoadVirtualKeys, budgetCache
  <2>2. sync' \in SyncType /\ sync'.rows \in {{}, rows}
    BY <1>r, <2>1 DEF SyncType, NoRows
  <2>3. cache' \subseteq Row
    BY <1>t, <2>1 DEF SyncType
  <2>4. OneSecret(cache)' /\ OneSecret(sync.rows)'
    BY <1>t, <1>r, <2>1, <2>2 DEF OneSecret
  <2>5. loaded' \in BOOLEAN
    BY <1>t, <2>1
  <2> QED BY <1>t, <2>1, <2>2, <2>3, <2>4, <2>5 DEF Caches
<1>7. CASE BudgetSync
  <2>1. /\ admin' = admin /\ ops' = ops /\ crashes' = crashes /\ sync' = sync /\ cache' = cache /\ loaded' = loaded
        /\ bsync' \in {[pc |-> "listed", budgets |-> BudgetRows], [pc |-> "idle", budgets |-> {}]}
        /\ entries' \in {entries, bsync.budgets}
    BY <1>7 DEF BudgetSync
  <2>2. bsync' \in BudgetSyncType
    BY <2>1 DEF BudgetSyncType, BudgetRows
  <2>3. entries' \subseteq Budgets
    BY <1>t, <2>1 DEF BudgetSyncType
  <2>4. OneSecret(cache)' /\ OneSecret(sync.rows)'
    BY <1>t, <2>1 DEF OneSecret
  <2> QED BY <1>t, <2>1, <2>2, <2>3, <2>4 DEF Caches
<1>8. CASE Restart
  <2>1. /\ crashes' = crashes + 1 /\ loaded' = FALSE /\ cache' = {} /\ sync' = NoRows /\ entries' = {}
        /\ bsync' = Boot /\ admin' = [a \in Admins |-> Idle] /\ ops' = ops
    BY <1>8 DEF Restart
  <2>2. sync' \in SyncType /\ sync'.rows = {} /\ bsync' \in BudgetSyncType
    BY <2>1 DEF NoRows, Boot, SyncType, BudgetSyncType
  <2>3. Idle \in HandlerType
    BY DEF Idle, AdminType, HandlerType, AboutBudget
  <2>4. admin' \in [Admins -> HandlerType] /\ loaded' \in BOOLEAN
    BY <2>1, <2>3
  <2>5. OneSecret(cache)' /\ OneSecret(sync.rows)'
    BY <2>1, <2>2 DEF OneSecret
  <2> QED BY <1>t, <2>1, <2>2, <2>4, <2>5 DEF Caches
<1>9. CASE UNCHANGED vars
  <2>1. /\ admin' = admin /\ ops' = ops /\ crashes' = crashes /\ sync' = sync /\ cache' = cache /\ loaded' = loaded
        /\ bsync' = bsync /\ entries' = entries
    BY <1>9 DEF vars, budgetCache
  <2>2. OneSecret(cache)' /\ OneSecret(sync.rows)'
    BY <1>t, <2>1 DEF OneSecret
  <2> QED BY <1>t, <2>1, <2>2 DEF Caches
<1>10. ASSUME NEW a \in Admins, CacheStep(a) PROVE Caches'
  BY <1>10, <1>3, <1>4, <1>5 DEF CacheStep
<1>11. ASSUME NEW a \in Admins, Handler(a) PROVE Caches'
  BY <1>11, <1>1, <1>2, <1>10 DEF Handler
<1> QED BY <1>6, <1>7, <1>8, <1>9, <1>11 DEF Next

LEMMA Inductive == Spec => [](Tables /\ Caches)
BY InitTables, InitCaches, StepTables, StepCaches, PTL DEF Spec

-----------------------------------------------------------------------------
(* The tables and the cache are sound, and no budget is left bound without *)
(* an active key, whatever handlers, jobs and restarts do.                 *)
THEOREM KeysInvariance == Spec => []KeysInv
<1>1. Tables /\ Caches => KeysInv
  <2> SUFFICES ASSUME Tables, Caches PROVE TypeOK /\ BoundBudgetHasKey
    BY DEF KeysInv
  <2>1. admin \in [Admins -> AdminType]
    BY DEF Caches, HandlerType
  <2>2. /\ rows \subseteq Row /\ cache \subseteq Row /\ minted \subseteq Secrets
        /\ (\A r, q \in rows : r.id = q.id => r = q) /\ BoundBudgetHasKey
        /\ (\A e, f \in cache : e.secret = f.secret => e = f)
        /\ entries \subseteq Budgets /\ rerevoked \subseteq Budgets
    BY DEF Tables, Rows, Caches, OneSecret
  <2>3. status \in [Budgets -> {"none", "unbound", "bound", "released", "deleted"}]
    BY DEF Tables, Statuses
  <2>4. /\ loaded \in BOOLEAN /\ sync \in [pc : {"idle", "listed"}, rows : SUBSET Row]
        /\ bsync \in [pc : {"boot", "idle", "listed"}, budgets : SUBSET Budgets]
        /\ ops \in Nat /\ crashes \in Nat
    BY DEF Caches, SyncType, BudgetSyncType
  <2> QED BY <2>1, <2>2, <2>3, <2>4, Zenon DEF TypeOK, AdminType
<1> QED BY <1>1, Inductive, PTL

(* A budget is bound to one active key as long as no key on it that was    *)
(* revoked is revoked again: the only way to a shared budget, for any      *)
(* number of keys and handlers and any interleaving of them.               *)
THEOREM BudgetsExclusive == Spec => []BudgetIsExclusive
<1>1. Tables /\ Caches => BudgetIsExclusive
  BY DEF Tables
<1> QED BY <1>1, Inductive, PTL
=============================================================================
