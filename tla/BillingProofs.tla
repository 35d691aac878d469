--------------------------- MODULE BillingProofs ---------------------------
(***************************************************************************)
(* Proofs about what a request is billed and how that is recorded, for     *)
(* every value of the constants: the model catalog that resolves a price,  *)
(* the price book that makes a bill of it, and the usage history that      *)
(* keeps the record.                                                       *)
(***************************************************************************)
EXTENDS ModelCatalog, PriceBook, UsageHistory, FiniteSetTheorems, WellFoundedInduction, TLAPS

-----------------------------------------------------------------------------
(* Numbers. *)

(* A set of numbers has a least one, which Min takes. *)
LEMMA NatMin ==
    ASSUME NEW S \in SUBSET Nat, S # {}
    PROVE  Min(S) \in S /\ \A y \in S : Min(S) <= y
<1>1. PICK x \in S : \A y \in S : ~ (<<y, x>> \in OpToRel(<, Nat))
  BY WFMin, NatLessThanWellFounded
<1>2. ASSUME NEW y \in S PROVE x <= y
  <2>1. x \in Nat /\ y \in Nat
    OBVIOUS
  <2>2. ~ (y < x)
    BY <1>1, <2>1 DEF OpToRel
  <2> QED
    BY <2>1, <2>2
<1> QED
  BY <1>2 DEF Min

(* A bounded set of numbers has a largest one, which Max takes. *)
LEMMA NatMax ==
    ASSUME NEW S \in SUBSET Nat, S # {}, NEW n \in Nat, \A k \in S : k <= n
    PROVE  Max(S) \in S /\ \A k \in S : k <= Max(S)
<1> DEFINE T == {m \in Nat : \E k \in S : m = n - k}
<1>1. T \subseteq Nat /\ T # {}
  <2>1. PICK k \in S : TRUE
    OBVIOUS
  <2>2. k \in Nat /\ k <= n
    OBVIOUS
  <2>3. n - k \in Nat
    BY <2>2
  <2>4. n - k \in T
    BY <2>3
  <2> QED BY <2>4
<1> HIDE DEF T
<1>2. PICK m \in T : \A y \in T : ~ (<<y, m>> \in OpToRel(<, Nat))
  BY <1>1, WFMin, NatLessThanWellFounded
<1>3. PICK k \in S : m = n - k
  BY DEF T
<1>4. ASSUME NEW j \in S PROVE k >= j
  <2>1. j \in Nat /\ j <= n /\ k \in Nat /\ k <= n
    OBVIOUS
  <2>2. n - j \in Nat /\ m \in Nat
    BY <2>1, <1>3
  <2>3. n - j \in T
    BY <2>2 DEF T
  <2>4. ~ (n - j < m)
    BY <1>2, <2>2, <2>3 DEF OpToRel
  <2> QED BY <1>3, <2>1, <2>4
<1>5. Max(S) \in S /\ \A j \in S : Max(S) >= j
  BY <1>4 DEF Max
<1> QED BY <1>5

(* The least element of a set, once it is known, is the one Min takes.     *)
LEMMA MinIs ==
    ASSUME NEW S \in SUBSET Int, NEW k \in S, \A j \in S : k <= j
    PROVE  Min(S) = k
<1>1. Min(S) \in S /\ \A j \in S : Min(S) <= j
  BY DEF Min
<1>2. Min(S) <= k /\ k <= Min(S) /\ Min(S) \in Int /\ k \in Int
  BY <1>1
<1> QED BY <1>2

-----------------------------------------------------------------------------
(* The usage history. *)

(* UsageBuffer.Append into a buffer that is not full keeps the capacity.   *)
LEMMA AppendFits ==
    ASSUME TypeOK, NEW r \in Records, ~Full
    PROVE  Cardinality(buffer \union {r}) <= Capacity
<1>1. IsFiniteSet(buffer)
  BY FS_Subset, UsageAssumption DEF TypeOK
<1>2. Cardinality(buffer) \in Nat /\ Capacity \in Nat
  BY <1>1, FS_CardinalityType, UsageAssumption
<1>3. Cardinality(buffer) + 1 <= Capacity
  BY <1>2 DEF Full
<1>4. CASE r \in buffer
  <2>1. buffer \union {r} = buffer
    BY <1>4
  <2> QED BY <2>1, <1>2, <1>3
<1>5. CASE r \notin buffer
  <2>1. Cardinality(buffer \union {r}) = Cardinality(buffer) + 1
    BY <1>1, <1>5, FS_AddElement
  <2> QED BY <2>1, <1>3
<1> QED BY <1>4, <1>5

(* A record that is dropped for the first time is one more drop.           *)
LEMMA OneMoreDrop ==
    ASSUME NEW S \in SUBSET Records, NEW r \in Records, r \notin S
    PROVE  /\ Cardinality(S) \in Nat
           /\ Cardinality(S \union {r}) = Cardinality(S) + 1
<1>1. IsFiniteSet(S)
  BY FS_Subset, UsageAssumption
<1> QED BY <1>1, FS_AddElement, FS_CardinalityType

LEMMA DropsAreNumbers ==
    ASSUME NEW S \in SUBSET Records
    PROVE  Cardinality(S) \in Nat
BY FS_Subset, FS_CardinalityType, UsageAssumption

LEMMA UsageInitInv == UsageInit => UsageInv
<1> SUFFICES ASSUME UsageInit PROVE UsageInv
  OBVIOUS
<1>1. Cardinality({}) = 0
  BY FS_EmptySet
<1>2. TypeOK
  BY <1>1, UsageAssumption DEF UsageInit, TypeOK
<1>3. OneHome /\ BatchOnlyInFlight
  BY DEF UsageInit, OneHome, BatchOnlyInFlight
<1>4. DropsCounted
  BY <1>1 DEF UsageInit, DropsCounted
<1> QED BY <1>2, <1>3, <1>4 DEF UsageInv

(* Every step of a request, of the job and of the process keeps UsageInv.  *)
LEMMA UsageStepInv == UsageInv /\ [UsageNext]_usageVars => UsageInv'
<1> SUFFICES ASSUME UsageInv, [UsageNext]_usageVars PROVE UsageInv'
  OBVIOUS
<1>t. TypeOK /\ OneHome /\ BatchOnlyInFlight /\ DropsCounted
  BY DEF UsageInv
<1>c. /\ Cardinality(refused) \in Nat /\ Cardinality(discarded) \in Nat
      /\ Cardinality({}) = 0 /\ Capacity \in Nat
  BY <1>t, DropsAreNumbers, FS_EmptySet, UsageAssumption DEF TypeOK
<1>1. ASSUME NEW r \in Records, AppendRecord(r) PROVE UsageInv'
  <2>1. CASE Full
    <3>1. Cardinality(refused \union {r}) = Cardinality(refused) + 1
      BY <1>1, <1>t, OneMoreDrop DEF AppendRecord, Offered, TypeOK
    <3>2. TypeOK'
      BY <1>1, <1>t, <2>1 DEF AppendRecord, TypeOK
    <3>3. OneHome' /\ BatchOnlyInFlight'
      BY <1>1, <1>t, <2>1 DEF AppendRecord, Offered, OneHome, BatchOnlyInFlight
    <3>4. DropsCounted'
      BY <1>1, <1>t, <1>c, <2>1, <3>1 DEF AppendRecord, DropsCounted, TypeOK
    <3> QED BY <3>2, <3>3, <3>4 DEF UsageInv
  <2>2. CASE ~Full
    <3>1. TypeOK'
      BY <1>1, <1>t, <2>2, AppendFits DEF AppendRecord, TypeOK
    <3>2. OneHome' /\ BatchOnlyInFlight'
      BY <1>1, <1>t, <2>2 DEF AppendRecord, Offered, OneHome, BatchOnlyInFlight
    <3>3. DropsCounted'
      BY <1>1, <1>t, <2>2 DEF AppendRecord, DropsCounted
    <3> QED BY <3>1, <3>2, <3>3 DEF UsageInv
  <2> QED BY <2>1, <2>2
<1>2. ASSUME NEW r \in Records, Charge(r) PROVE UsageInv'
  BY <1>2, <1>t DEF Charge, UsageInv, TypeOK, OneHome, BatchOnlyInFlight, DropsCounted
<1>3. CASE Drain
  <2>1. TypeOK'
    BY <1>3, <1>t, <1>c DEF Drain, TypeOK
  <2> QED BY <1>3, <1>t, <2>1 DEF Drain, UsageInv, OneHome, BatchOnlyInFlight, DropsCounted
<1>4. CASE Insert
  <2>1. TypeOK'
    BY <1>4, <1>t DEF Insert, TypeOK
  <2>2. OneHome' /\ BatchOnlyInFlight' /\ DropsCounted'
    BY <1>4, <1>t DEF Insert, OneHome, BatchOnlyInFlight, DropsCounted
  <2> QED BY <2>1, <2>2 DEF UsageInv
<1>5. ASSUME NEW r \in Records, Requeue(r) PROVE UsageInv'
  <2>1. BatchOnlyInFlight'
    BY <1>5, <1>t DEF Requeue, BatchOnlyInFlight
  <2>2. CASE Full
    <3>1. Cardinality(discarded \union {r}) = Cardinality(discarded) + 1
      BY <1>5, <1>t, OneMoreDrop DEF Requeue, OneHome, TypeOK
    <3>2. TypeOK'
      BY <1>5, <1>t, <2>2 DEF Requeue, TypeOK
    <3>3. OneHome'
      BY <1>5, <1>t, <2>2 DEF Requeue, OneHome
    <3>4. DropsCounted'
      <4>1. /\ dropped' = dropped + 1 /\ discarded' = discarded \union {r}
            /\ crashes' = crashes /\ refused' = refused
        BY <1>5, <2>2 DEF Requeue
      <4>2. Cardinality(discarded') = Cardinality(discarded) + 1
        BY <4>1, <3>1
      <4> QED BY <4>1, <4>2, <1>t, <1>c DEF DropsCounted, TypeOK
    <3> QED BY <2>1, <3>2, <3>3, <3>4 DEF UsageInv
  <2>3. CASE ~Full
    <3>1. TypeOK'
      BY <1>5, <1>t, <2>3, AppendFits DEF Requeue, TypeOK
    <3>2. OneHome'
      BY <1>5, <1>t, <2>3 DEF Requeue, OneHome
    <3>3. DropsCounted'
      BY <1>5, <1>t, <2>3 DEF Requeue, DropsCounted
    <3> QED BY <2>1, <3>1, <3>2, <3>3 DEF UsageInv
  <2> QED BY <2>2, <2>3
<1>6. CASE Exit
  <2>1. TypeOK'
    BY <1>6, <1>t, <1>c DEF Exit, TypeOK
  <2>2. OneHome' /\ BatchOnlyInFlight'
    BY <1>6, <1>t DEF Exit, OneHome, BatchOnlyInFlight
  <2>3. DropsCounted'
    BY <1>6, <1>t DEF Exit, DropsCounted, TypeOK
  <2> QED BY <2>1, <2>2, <2>3 DEF UsageInv
<1>7. CASE UNCHANGED usageVars
  BY <1>7, <1>t DEF usageVars, UsageInv, TypeOK, OneHome, BatchOnlyInFlight, DropsCounted
<1> QED BY <1>1, <1>2, <1>3, <1>4, <1>5, <1>6, <1>7 DEF UsageNext, FlushJob

(* The usage history is sound whatever requests, failing inserts and ends  *)
(* of the process do: a record is in one place, the buffer in its capacity *)
(* and every drop counted.                                                 *)
THEOREM UsageInvariance == UsageSpec => []UsageInv
BY UsageInitInv, UsageStepInv, PTL DEF UsageSpec

-----------------------------------------------------------------------------
(* The usage history refines Delivery. *)

LEMMA UsageInitMaps == UsageInit => Abstract!Init
BY DEF UsageInit, Abstract!Init, Status

(* Every step moves records as a step of Delivery does, or moves none.     *)
LEMMA UsageStepMaps ==
    UsageInv /\ [UsageNext]_usageVars =>
        [Abstract!Next]_[r \in Records |-> Status(r)]
<1> SUFFICES ASSUME UsageInv, [UsageNext]_usageVars
             PROVE  [Abstract!Next]_[r \in Records |-> Status(r)]
  OBVIOUS
<1> DEFINE map == [r \in Records |-> Status(r)]
<1>t. TypeOK /\ OneHome /\ BatchOnlyInFlight
  BY DEF UsageInv
<1>1. ASSUME NEW r \in Records, AppendRecord(r) PROVE Abstract!Next
  <2>1. CASE Full
    <3>1. Abstract!Move({r}, "new", "refused")
      BY <1>1, <1>t, <2>1 DEF AppendRecord, Offered, OneHome, Status, Abstract!Move
    <3> QED BY <3>1 DEF Abstract!Next
  <2>2. CASE ~Full
    <3>1. Abstract!Move({r}, "new", "held")
      BY <1>1, <1>t, <2>2 DEF AppendRecord, Offered, OneHome, Status, Abstract!Move
    <3> QED BY <3>1 DEF Abstract!Next
  <2> QED BY <2>1, <2>2
<1>2. ASSUME NEW r \in Records, Charge(r) PROVE UNCHANGED map
  BY <1>2 DEF Charge, Status
<1>3. CASE Drain
  <2>1. UNCHANGED map
    BY <1>3, <1>t DEF Drain, Status, BatchOnlyInFlight
  <2> QED BY <2>1
<1>4. CASE Insert
  <2>1. CASE table' = table \union batch /\ batch' = {}
    <3>1. batch # {} /\ batch \in SUBSET Records
      BY <1>4, <1>t DEF Insert, BatchOnlyInFlight, TypeOK
    <3>2. Abstract!Move(batch, "held", "stored")
      BY <1>4, <1>t, <2>1, <3>1 DEF Insert, OneHome, Status, Abstract!Move
    <3> QED BY <3>1, <3>2 DEF Abstract!Next
  <2>2. CASE UNCHANGED <<table, batch>>
    <3>1. UNCHANGED map
      BY <1>4, <2>2 DEF Insert, Status
    <3> QED BY <3>1
  <2> QED BY <1>4, <2>1, <2>2 DEF Insert
<1>5. ASSUME NEW r \in Records, Requeue(r) PROVE Abstract!Next \/ UNCHANGED map
  <2>1. CASE Full
    <3>1. Abstract!Move({r}, "held", "lost")
      BY <1>5, <1>t, <2>1 DEF Requeue, OneHome, Status, Abstract!Move
    <3> QED BY <3>1 DEF Abstract!Next
  <2>2. CASE ~Full
    BY <1>5, <1>t, <2>2 DEF Requeue, OneHome, Status
  <2> QED BY <2>1, <2>2
<1>6. CASE Exit
  <2> DEFINE S == buffer \union batch
  <2>1. CASE S = {}
    <3>1. UNCHANGED map
      BY <1>6, <2>1 DEF Exit, Status
    <3> QED BY <3>1
  <2>2. CASE S # {}
    <3>1. S \in SUBSET Records
      BY <1>t DEF TypeOK
    <3>2. \A r \in S : Status(r) = "held" /\ r \in Records
      BY <1>t, <3>1 DEF OneHome, Status
    <3>3. map' = [r \in Records |-> IF r \in S THEN "lost" ELSE Status(r)]
      <4>1. /\ table' = table /\ refused' = refused /\ discarded' = discarded
            /\ lost' = lost \union S /\ buffer' = {} /\ batch' = {}
        BY <1>6 DEF Exit
      <4>2. ASSUME NEW r \in Records
            PROVE  Status(r)' = IF r \in S THEN "lost" ELSE Status(r)
        BY <4>1, <1>t DEF OneHome, Status
      <4> QED BY <4>2
    <3>4. Abstract!Move(S, "held", "lost")
      BY <2>2, <3>1, <3>2, <3>3 DEF Abstract!Move
    <3> QED BY <3>1, <3>4 DEF Abstract!Next
  <2> QED BY <2>1, <2>2
<1>7. CASE UNCHANGED usageVars
  BY <1>7 DEF usageVars, Status
<1> QED BY <1>1, <1>2, <1>3, <1>4, <1>5, <1>6, <1>7 DEF UsageNext, FlushJob

(* The usage history implements Delivery: a record that was taken is       *)
(* stored at most once, although a failed insert is repeated.              *)
THEOREM UsageDelivers == UsageSpec => ImplementsDelivery
<1>1. UsageSpec => []UsageInv
  BY UsageInvariance
<1> QED BY <1>1, UsageInitMaps, UsageStepMaps, PTL DEF UsageSpec, ImplementsDelivery, Abstract!Spec

-----------------------------------------------------------------------------
(* The model catalog: its inductive invariant. *)

(* What a snapshot or table of overrides is, and a list of rows.           *)
IsOverrides(o) == DOMAIN o \subseteq Slots /\ \A s \in DOMAIN o : IsPrice(o[s])
IsTable(t) ==
    /\ DOMAIN t \subseteq Nat /\ \E n \in Nat : \A k \in DOMAIN t : k <= n
    /\ \A k \in DOMAIN t : IsRow(t[k]) /\ t[k].provider \in Known
    /\ \A j, k \in DOMAIN t : t[j].raw = t[k].raw => j = k
KeysOf(t) == {Key(t[k]) : k \in DOMAIN t}

(* What the tables, the snapshots, the sync and the handlers hold. *)
TablesInv ==
    /\ meta \subseteq Known \X Models
    /\ IsTable(rows) /\ IsOverrides(overrides) /\ IsOverrides(custom)
    /\ faults \in 0 .. MaxFaults /\ ops \in 0 .. MaxOps /\ stale \in BOOLEAN

SyncInv ==
    /\ sync.pc \in {"idle", "failed", "meta", "pricing", "models", "base", "custom", "store"}
    /\ sync.pc \in {"meta", "pricing"} =>
          sync.feed \in Feeds /\ sync = [pc |-> sync.pc, feed |-> sync.feed]
    /\ sync.pc = "store" => IsOverrides(sync.list)

HandlersInv ==
    /\ admin = [a \in Admins |-> admin[a]]
    /\ \A a \in Admins :
          /\ admin[a].pc \in {"idle", "create", "load", "store"}
          /\ admin[a].pc = "create" => admin[a].slot \in Slots /\ admin[a].price \in Overrides
          /\ admin[a].pc = "store" => IsOverrides(admin[a].list)

(* Metadata is written before the prices, and loaded before them.          *)
KeysInv ==
    /\ KeysOf(rows) \subseteq meta /\ KeysOf(base) \subseteq meta
    /\ KeysOf(base) \subseteq models
    /\ sync.pc = "pricing" => Fetched \subseteq meta
    /\ sync.pc = "base" => KeysOf(rows) \subseteq models

(* customMu is held between list and store. *)
LockInv ==
    /\ customMu \in Admins \union {Nobody, "sync"}
    /\ customMu = "sync" <=> sync.pc = "store"
    /\ \A a \in Admins : customMu = a <=> admin[a].pc = "store"

(* What the snapshot is, or is about to be: the table, unless a handler    *)
(* has yet to load it, or failed to.                                       *)
Listed == IF customMu = Nobody THEN custom
          ELSE IF customMu = "sync" THEN sync.list ELSE admin[customMu].list
LiveInv == stale \/ (\E a \in Admins : admin[a].pc = "load") \/ Listed = overrides

CatalogIInv == TablesInv /\ SyncInv /\ HandlersInv /\ KeysInv /\ LockInv /\ LiveInv

-----------------------------------------------------------------------------
(* Prices and tables. *)

(* MergePricing of two prices is a price. *)
LEMMA MergedIsPrice ==
    ASSUME NEW p, NEW q, IsPrice(p), IsPrice(q)
    PROVE  IsPrice(MergePricing(p, q))
BY DEF IsPrice, MergePricing

(* Of two rows of the feed with one raw key, one is written. *)
LEMMA FreshIsOne ==
    ASSUME NEW feed \in Feeds, NEW i \in Fresh(feed), NEW j \in Fresh(feed), feed[i].raw = feed[j].raw
    PROVE  i = j
<1>1. i \in 1 .. Len(feed) /\ j \in 1 .. Len(feed)
  BY CatalogAssumption DEF Fresh
<1>2. i <= j /\ j <= i
  BY DEF Fresh
<1>3. i \in Int /\ j \in Int
  BY <1>1
<1> QED BY <1>2, <1>3

(* BulkSyncModelPricing keeps the table a table, with one row per raw key, *)
(* and adds no key that is not in the feed.                                *)
LEMMA UpsertKeeps ==
    ASSUME NEW t, NEW feed \in Feeds, IsTable(t)
    PROVE  /\ IsTable(Upsert(t, feed))
           /\ KeysOf(Upsert(t, feed)) \subseteq KeysOf(t) \union
                {Key(feed[k]) : k \in {j \in DOMAIN feed : feed[j].provider \in Known}}
<1> DEFINE last == Max(DOMAIN t \union {0})
           of(row) == {j \in Fresh(feed) : feed[j].raw = row.raw}
           new == {j \in Fresh(feed) : \A k \in DOMAIN t : j \notin of(t[k])}
           u == Upsert(t, feed)
           known == {j \in DOMAIN feed : feed[j].provider \in Known}
<1>1. PICK n \in Nat : \A k \in DOMAIN t : k <= n
  BY DEF IsTable
<1>2. last \in Nat /\ \A k \in DOMAIN t : k <= last
  <2>1. DOMAIN t \union {0} \in SUBSET Nat /\ \A k \in DOMAIN t \union {0} : k <= n
    BY <1>1 DEF IsTable
  <2>2. last \in DOMAIN t \union {0} /\ \A k \in DOMAIN t \union {0} : k <= last
    BY <2>1, NatMax
  <2> QED BY <2>1, <2>2
<1>3. Fresh(feed) \subseteq known /\ Fresh(feed) \subseteq 1 .. Len(feed) /\ Len(feed) \in Nat
  <2>1. Fresh(feed) \subseteq known /\ DOMAIN feed = 1 .. Len(feed)
    BY CatalogAssumption DEF Fresh
  <2> QED BY <2>1, CatalogAssumption
<1>4. u = [k \in DOMAIN t \union {last + j : j \in new} |->
              IF k \notin DOMAIN t THEN feed[k - last]
              ELSE IF of(t[k]) = {} THEN t[k] ELSE feed[Min(of(t[k]))]]
  BY DEF Upsert
<1> HIDE DEF u, last
<1>5. ASSUME NEW k \in DOMAIN t
      PROVE  /\ k \in DOMAIN u /\ u[k].raw = t[k].raw
             /\ u[k] = t[k] \/ \E j \in Fresh(feed) : u[k] = feed[j]
  <2>1. CASE of(t[k]) = {}
    BY <1>4, <2>1
  <2>2. CASE of(t[k]) # {}
    <3>1. PICK j \in of(t[k]) : TRUE
      BY <2>2
    <3>2. \A i \in of(t[k]) : i = j
      BY FreshIsOne
    <3>3. of(t[k]) \in SUBSET Int /\ \A i \in of(t[k]) : j <= i
      BY <1>3, <3>2
    <3>4. Min(of(t[k])) = j
      BY <3>3, MinIs
    <3> QED BY <1>4, <2>2, <3>4
  <2> QED BY <2>1, <2>2
<1>6. ASSUME NEW k \in DOMAIN u, k \notin DOMAIN t
      PROVE  k - last \in new /\ u[k] = feed[k - last] /\ k \in Nat /\ k <= last + Len(feed)
  <2>1. PICK j \in new : k = last + j
    BY <1>4, <1>6
  <2>2. j \in 1 .. Len(feed)
    BY <1>3
  <2>3. k - last = j /\ k \in Nat /\ k <= last + Len(feed)
    BY <2>1, <2>2, <1>2, <1>3
  <2> QED BY <1>4, <1>6, <2>1, <2>3
<1>7. ASSUME NEW k \in DOMAIN u
      PROVE  (k \in DOMAIN t /\ u[k] = t[k]) \/ \E j \in known : u[k] = feed[j]
  BY <1>3, <1>5, <1>6
<1>8. \A k \in DOMAIN u : IsRow(u[k]) /\ u[k].provider \in Known
  BY <1>7, CatalogAssumption DEF IsTable
<1>9. \A k \in DOMAIN u : k \in Nat /\ k <= last + Len(feed)
  <2>1. ASSUME NEW k \in DOMAIN t PROVE k \in Nat /\ k <= last + Len(feed)
    <3>1. k \in Nat /\ k <= last
      BY <1>2 DEF IsTable
    <3> QED BY <3>1, <1>2, <1>3
  <2> QED BY <2>1, <1>6
<1>10. ASSUME NEW i \in DOMAIN u, NEW k \in DOMAIN u, u[i].raw = u[k].raw
       PROVE  i = k
  <2>1. CASE i \in DOMAIN t /\ k \in DOMAIN t
    BY <1>5, <1>10, <2>1 DEF IsTable
  <2>2. ASSUME NEW x \in DOMAIN t, NEW y \in DOMAIN u, y \notin DOMAIN t
        PROVE  u[x].raw # u[y].raw
    <3>1. u[x].raw = t[x].raw /\ u[y] = feed[y - last] /\ y - last \in new
      BY <1>5, <1>6, <2>2
    <3> QED BY <3>1
  <2>3. CASE i \notin DOMAIN t /\ k \notin DOMAIN t
    <3>1. i - last = k - last
      BY <1>6, <1>10, <2>3, FreshIsOne
    <3>2. i \in Nat /\ k \in Nat
      BY <1>6, <2>3
    <3> QED BY <3>1, <3>2, <1>2
  <2> QED BY <1>10, <2>1, <2>2, <2>3
<1>11. last + Len(feed) \in Nat
  BY <1>2, <1>3
<1>12. IsTable(u)
  BY <1>8, <1>9, <1>10, <1>11 DEF IsTable
<1>13. KeysOf(u) \subseteq KeysOf(t) \union {Key(feed[k]) : k \in known}
  BY <1>7 DEF KeysOf
<1> QED BY <1>12, <1>13 DEF u
-----------------------------------------------------------------------------
(* The catalog's steps. *)

LEMMA CatalogInit == Init => CatalogIInv
<1> SUFFICES ASSUME Init PROVE CatalogIInv
  OBVIOUS
<1>0. DOMAIN <<>> = {} /\ 0 \in Nat
  OBVIOUS
<1>1. TablesInv
  <2>1. IsTable(<<>>)
    BY <1>0 DEF IsTable
  <2>2. IsOverrides(<<>>)
    BY <1>0 DEF IsOverrides
  <2>3. rows = <<>> /\ overrides = <<>> /\ custom = <<>> /\ meta = {} /\ stale \in BOOLEAN
    BY DEF Init
  <2>4. IsTable(rows) /\ IsOverrides(overrides) /\ IsOverrides(custom)
    BY <2>1, <2>2, <2>3, Zenon
  <2>5. faults \in 0 .. MaxFaults /\ ops \in 0 .. MaxOps
    BY CatalogAssumption DEF Init
  <2> QED BY <2>3, <2>4, <2>5 DEF TablesInv
<1>2. SyncInv /\ HandlersInv
  BY DEF Init, SyncInv, HandlersInv, Idle
<1>3. KeysInv
  BY DEF Init, KeysInv, KeysOf, Idle
<1>4. LockInv /\ LiveInv
  BY CatalogAssumption DEF Init, LockInv, LiveInv, Listed, Idle
<1> QED BY <1>1, <1>2, <1>3, <1>4 DEF CatalogIInv

(* A run that fails ends, and one more fault is counted. *)
LEMMA FailsEnds ==
    ASSUME CatalogIInv, Fails
    PROVE  /\ faults' \in 0 .. MaxFaults
           /\ sync'.pc \in {"idle", "failed"}
BY CatalogAssumption DEF CatalogIInv, TablesInv, Fails, Fault, Goto, Idle

(* A step of the sync that holds no list of overrides and leaves custom,   *)
(* the overrides and the handlers alone keeps the handlers' parts.         *)
LEMMA SyncAside ==
    ASSUME CatalogIInv, ~ At("store"), ~ At("store")',
           UNCHANGED <<overrides, custom, customMu, admin, stale>>
    PROVE  HandlersInv' /\ LockInv' /\ LiveInv'
<1>1. HandlersInv'
  BY DEF CatalogIInv, HandlersInv
<1>2. LockInv'
  BY DEF CatalogIInv, LockInv, At
<1>3. customMu # "sync"
  BY DEF CatalogIInv, LockInv, At
<1>4. LiveInv'
  BY <1>3 DEF CatalogIInv, LiveInv, Listed
<1> QED BY <1>1, <1>2, <1>4

(* A failing step that writes nothing keeps the invariant. *)
LEMMA FailingKeeps ==
    ASSUME CatalogIInv, Fails, ~ At("store"),
           UNCHANGED <<meta, rows, overrides, models, base, custom, customMu, admin, up, ops, stale>>
    PROVE  CatalogIInv'
<1>1. TablesInv'
  BY FailsEnds DEF CatalogIInv, TablesInv
<1>2. SyncInv'
  BY FailsEnds DEF SyncInv
<1>3. KeysInv'
  BY FailsEnds DEF CatalogIInv, KeysInv
<1> QED BY <1>1, <1>2, <1>3, FailsEnds, SyncAside DEF CatalogIInv, At

LEMMA FetchKeeps == ASSUME CatalogIInv, Fetch PROVE CatalogIInv'
<1>1. UNCHANGED <<meta, rows, overrides, models, base, custom, customMu, admin, up, ops, stale>>
  BY DEF Fetch, tables
<1>2. CASE \E feed \in Feeds : Goto([pc |-> "meta", feed |-> feed]) /\ UNCHANGED faults
  <2>1. PICK feed \in Feeds : sync' = [pc |-> "meta", feed |-> feed] /\ faults' = faults
    BY <1>2 DEF Goto
  <2>2. TablesInv'
    BY <1>1, <2>1 DEF CatalogIInv, TablesInv
  <2>3. SyncInv'
    BY <2>1 DEF SyncInv
  <2>4. KeysInv'
    BY <1>1, <2>1 DEF CatalogIInv, KeysInv
  <2> QED BY <1>1, <2>1, <2>2, <2>3, <2>4, SyncAside DEF CatalogIInv, Fetch, At
<1>3. CASE Fails
  BY <1>1, <1>3, FailingKeeps DEF Fetch, At
<1> QED BY <1>2, <1>3 DEF Fetch

LEMMA SyncMetaKeeps == ASSUME CatalogIInv, SyncMeta PROVE CatalogIInv'
<1>1. UNCHANGED <<rows, overrides, models, base, custom, customMu, admin, up, ops, stale>> /\ At("meta")
  BY DEF SyncMeta
<1>2. CASE meta' = meta \union Fetched /\ Goto([sync EXCEPT !.pc = "pricing"]) /\ UNCHANGED faults
  <2>1. sync.feed \in Feeds /\ sync = [pc |-> "meta", feed |-> sync.feed]
    BY <1>1 DEF CatalogIInv, SyncInv, At
  <2>2. sync' = [pc |-> "pricing", feed |-> sync.feed]
    BY <1>2, <2>1 DEF Goto
  <2>3. Fetched \subseteq Known \X Models
    BY <2>1, CatalogAssumption DEF Fetched, Key, IsRow
  <2>4. TablesInv'
    BY <1>1, <1>2, <2>3 DEF CatalogIInv, TablesInv
  <2>5. SyncInv'
    BY <2>1, <2>2 DEF SyncInv
  <2>6. Fetched' = Fetched
    BY <2>2 DEF Fetched
  <2>7. KeysInv'
    BY <1>1, <1>2, <2>2, <2>6 DEF CatalogIInv, KeysInv
  <2> QED BY <1>1, <2>2, <2>4, <2>5, <2>7, SyncAside DEF CatalogIInv, At
<1>3. CASE Fails /\ UNCHANGED meta
  BY <1>1, <1>3, FailingKeeps DEF At
<1> QED BY <1>2, <1>3 DEF SyncMeta

LEMMA SyncPricingKeeps == ASSUME CatalogIInv, SyncPricing PROVE CatalogIInv'
<1>1. /\ UNCHANGED <<meta, overrides, models, base, custom, customMu, admin, up, ops, stale>>
      /\ At("pricing")
  BY DEF SyncPricing
<1>2. CASE rows' = Upsert(rows, sync.feed) /\ Goto([pc |-> "models"]) /\ UNCHANGED faults
  <2>1. sync.feed \in Feeds /\ Fetched \subseteq meta
    BY <1>1 DEF CatalogIInv, SyncInv, KeysInv, At
  <2>2. IsTable(rows') /\ KeysOf(rows') \subseteq KeysOf(rows) \union Fetched
    BY <1>2, <2>1, UpsertKeeps DEF CatalogIInv, TablesInv, Fetched
  <2>3. sync'.pc = "models"
    BY <1>2 DEF Goto
  <2>4. TablesInv'
    BY <1>1, <1>2, <2>2 DEF CatalogIInv, TablesInv
  <2>5. SyncInv'
    BY <2>3 DEF SyncInv
  <2>6. KeysInv'
    BY <1>1, <2>1, <2>2, <2>3 DEF CatalogIInv, KeysInv
  <2> QED BY <1>1, <2>3, <2>4, <2>5, <2>6, SyncAside DEF CatalogIInv, At
<1>3. CASE Fails /\ UNCHANGED rows
  BY <1>1, <1>3, FailingKeeps DEF At
<1> QED BY <1>2, <1>3 DEF SyncPricing

LEMMA LoadModelsKeeps == ASSUME CatalogIInv, LoadModels PROVE CatalogIInv'
<1>1. UNCHANGED <<meta, rows, overrides, base, custom, customMu, admin, up, ops, stale>> /\ At("models")
  BY DEF LoadModels, tables
<1>2. CASE models' = meta /\ Goto([pc |-> "base"]) /\ UNCHANGED faults
  <2>1. sync'.pc = "base"
    BY <1>2 DEF Goto
  <2>2. TablesInv' /\ SyncInv'
    BY <1>1, <1>2, <2>1 DEF CatalogIInv, TablesInv, SyncInv
  <2>3. KeysInv'
    BY <1>1, <1>2, <2>1 DEF CatalogIInv, KeysInv
  <2> QED BY <1>1, <2>1, <2>2, <2>3, SyncAside DEF CatalogIInv, At
<1>3. CASE Fails /\ UNCHANGED models
  BY <1>1, <1>3, FailingKeeps DEF At
<1> QED BY <1>2, <1>3 DEF LoadModels

LEMMA LoadBaseKeeps == ASSUME CatalogIInv, LoadBase PROVE CatalogIInv'
<1>1. UNCHANGED <<meta, rows, overrides, models, custom, customMu, admin, up, ops, stale>> /\ At("base")
  BY DEF LoadBase, tables
<1>2. CASE base' = rows /\ Goto([pc |-> "custom"]) /\ UNCHANGED faults
  <2>1. sync'.pc = "custom"
    BY <1>2 DEF Goto
  <2>2. TablesInv' /\ SyncInv'
    BY <1>1, <1>2, <2>1 DEF CatalogIInv, TablesInv, SyncInv
  <2>3. KeysInv'
    BY <1>1, <1>2, <2>1 DEF CatalogIInv, KeysInv, At
  <2> QED BY <1>1, <2>1, <2>2, <2>3, SyncAside DEF CatalogIInv, At
<1>3. CASE Fails /\ UNCHANGED base
  BY <1>1, <1>3, FailingKeeps DEF At
<1> QED BY <1>2, <1>3 DEF LoadBase

LEMMA SyncListKeeps == ASSUME CatalogIInv, SyncList PROVE CatalogIInv'
<1>1. /\ UNCHANGED <<meta, rows, overrides, models, base, custom, admin, up, ops, stale>>
      /\ At("custom") /\ customMu = Nobody
  BY DEF SyncList, tables, MutexFree
<1>2. CASE customMu' = "sync" /\ Goto([pc |-> "store", list |-> overrides]) /\ UNCHANGED faults
  <2>1. sync' = [pc |-> "store", list |-> overrides]
    BY <1>2 DEF Goto
  <2>2. TablesInv'
    BY <1>1, <1>2 DEF CatalogIInv, TablesInv
  <2>3. SyncInv'
    BY <2>1, <1>1 DEF CatalogIInv, SyncInv, TablesInv
  <2>4. HandlersInv' /\ KeysInv'
    BY <1>1, <2>1 DEF CatalogIInv, HandlersInv, KeysInv
  <2>5. LockInv'
    BY <1>1, <1>2, <2>1, CatalogAssumption DEF CatalogIInv, LockInv
  <2>6. LiveInv'
    BY <1>1, <1>2, <2>1, CatalogAssumption DEF LiveInv, Listed
  <2> QED BY <2>2, <2>3, <2>4, <2>5, <2>6 DEF CatalogIInv
<1>3. CASE Fails /\ UNCHANGED customMu
  BY <1>1, <1>3, FailingKeeps DEF At
<1> QED BY <1>2, <1>3 DEF SyncList

(* Whoever holds customMu stores what was listed under it. *)
LEMMA StoreIsLive ==
    ASSUME CatalogIInv, customMu # Nobody, StoreCustom(Listed), UNCHANGED overrides,
           \A a \in Admins : admin[a].pc = "load" => admin'[a].pc = "load"
    PROVE  LiveInv' /\ stale' \in BOOLEAN
<1>1. custom' = Listed /\ customMu' = Nobody /\ stale' = (stale /\ Listed # overrides)
  BY DEF StoreCustom
<1>2. stale' \in BOOLEAN
  BY <1>1
<1>3. CASE Listed = overrides
  BY <1>1, <1>3 DEF LiveInv, Listed
<1>4. CASE Listed # overrides
  <2>1. stale \/ \E a \in Admins : admin[a].pc = "load"
    BY <1>4 DEF CatalogIInv, LiveInv
  <2>2. stale => stale'
    BY <1>1, <1>4
  <2>3. stale' \/ \E a \in Admins : admin'[a].pc = "load"
    BY <2>1, <2>2, Zenon
  <2> QED BY <1>2, <2>3, Zenon DEF LiveInv
<1> QED BY <1>2, <1>3, <1>4

LEMMA SyncStoreKeeps == ASSUME CatalogIInv, SyncStore PROVE CatalogIInv'
<1>1. /\ UNCHANGED <<meta, rows, overrides, models, base, admin, faults, ops>>
      /\ sync.pc = "store" /\ sync' = Idle
      /\ custom' = sync.list /\ customMu' = Nobody
  BY DEF SyncStore, tables, StoreCustom, Goto, At
<1>2. customMu = "sync" /\ IsOverrides(sync.list) /\ Listed = sync.list
  BY <1>1, CatalogAssumption DEF CatalogIInv, LockInv, SyncInv, Listed
<1>3. StoreCustom(Listed)
  BY <1>2 DEF SyncStore
<1>4. LiveInv' /\ stale' \in BOOLEAN
  BY <1>1, <1>2, <1>3, StoreIsLive, CatalogAssumption
<1>5. TablesInv'
  BY <1>1, <1>2, <1>4 DEF CatalogIInv, TablesInv
<1>6. SyncInv' /\ HandlersInv' /\ KeysInv'
  BY <1>1 DEF CatalogIInv, SyncInv, HandlersInv, KeysInv, Idle
<1>7. LockInv'
  BY <1>1, <1>2, CatalogAssumption DEF CatalogIInv, LockInv, Idle
<1> QED BY <1>4, <1>5, <1>6, <1>7 DEF CatalogIInv

-----------------------------------------------------------------------------
(* The steps of the catalog's handlers. *)

(* A handler that becomes state, which is no store, when it was none.      *)
LEMMA HandlerMoves ==
    ASSUME CatalogIInv, NEW a \in Admins, NEW state, Becomes(a, state),
           admin[a].pc # "store", state.pc \in {"idle", "create", "load"},
           state.pc = "create" => state.slot \in Slots /\ state.price \in Overrides,
           UNCHANGED <<customMu, sync>>
    PROVE  /\ HandlersInv' /\ LockInv' /\ SyncInv'
           /\ admin'[a] = state /\ \A b \in Admins \ {a} : admin'[b] = admin[b]
<1>1. admin = [b \in Admins |-> admin[b]]
  BY DEF CatalogIInv, HandlersInv
<1>2. admin' = [b \in Admins |-> IF b = a THEN state ELSE admin[b]]
  BY <1>1 DEF Becomes
<1>3. admin'[a] = state /\ \A b \in Admins \ {a} : admin'[b] = admin[b]
  BY <1>2
<1>4. HandlersInv'
  <2>1. admin' = [b \in Admins |-> admin'[b]]
    BY <1>2
  <2> QED BY <2>1, <1>3 DEF CatalogIInv, HandlersInv
<1>5. LockInv' /\ SyncInv'
  BY <1>3 DEF CatalogIInv, LockInv, SyncInv
<1> QED BY <1>3, <1>4, <1>5

LEMMA CreateCheckKeeps == ASSUME CatalogIInv, NEW a \in Admins, CreateCheck(a) PROVE CatalogIInv'
<1>1. /\ UNCHANGED <<meta, rows, overrides, models, base, custom, customMu, sync, up, faults, stale>>
      /\ admin[a].pc = "idle" /\ ops < MaxOps /\ ops' = ops + 1
  BY DEF CreateCheck, Begin, tables
<1>2. PICK slot \in Slots, offer \in Overrides :
          Becomes(a, [pc |-> "create", slot |-> slot, price |-> offer])
  BY DEF CreateCheck
<1> DEFINE state == [pc |-> "create", slot |-> slot, price |-> offer]
<1>3. /\ HandlersInv' /\ LockInv' /\ SyncInv'
      /\ admin'[a] = state /\ \A b \in Admins \ {a} : admin'[b] = admin[b]
  BY <1>1, <1>2, HandlerMoves
<1>4. TablesInv'
  <2>1. ops' \in 0 .. MaxOps
    BY <1>1, CatalogAssumption DEF CatalogIInv, TablesInv
  <2> QED BY <1>1, <2>1 DEF CatalogIInv, TablesInv
<1>5. KeysInv'
  BY <1>1 DEF CatalogIInv, KeysInv, Fetched
<1>6. Listed' = Listed
  BY <1>1, <1>3 DEF CatalogIInv, LockInv, Listed
<1>7. LiveInv'
  BY <1>1, <1>3, <1>6 DEF CatalogIInv, LiveInv
<1> QED BY <1>3, <1>4, <1>5, <1>7 DEF CatalogIInv

LEMMA CreateInsertKeeps == ASSUME CatalogIInv, NEW a \in Admins, CreateInsert(a) PROVE CatalogIInv'
<1> DEFINE slot == admin[a].slot
<1>1. /\ UNCHANGED <<meta, rows, models, base, custom, customMu, sync, up, ops>>
      /\ admin[a].pc = "create" /\ slot \in Slots /\ admin[a].price \in Overrides
  BY DEF CreateInsert, CatalogIInv, HandlersInv
<1>2. KeysInv'
  BY <1>1 DEF CatalogIInv, KeysInv, Fetched
<1>3. CASE slot \notin DOMAIN overrides
  <2>1. overrides' = [s \in DOMAIN overrides \union {slot} |->
                        IF s = slot THEN admin[a].price ELSE overrides[s]]
    BY <1>3 DEF CreateInsert
  <2>2. IsOverrides(overrides')
    BY <1>1, <2>1, CatalogAssumption DEF CatalogIInv, TablesInv, IsOverrides
  <2>3. CASE Becomes(a, Loading) /\ UNCHANGED <<faults, stale>>
    <3>1. HandlersInv' /\ LockInv' /\ SyncInv' /\ admin'[a].pc = "load"
      BY <1>1, <2>3, HandlerMoves DEF Loading
    <3>2. TablesInv'
      BY <1>1, <2>2, <2>3 DEF CatalogIInv, TablesInv
    <3>3. LiveInv'
      BY <3>1 DEF LiveInv
    <3> QED BY <1>2, <3>1, <3>2, <3>3 DEF CatalogIInv
  <2>4. CASE Becomes(a, Idle) /\ Fault /\ stale' = TRUE
    <3>1. HandlersInv' /\ LockInv' /\ SyncInv'
      BY <1>1, <2>4, HandlerMoves DEF Idle
    <3>2. faults' \in 0 .. MaxFaults
      BY <2>4, CatalogAssumption DEF Fault, CatalogIInv, TablesInv
    <3>3. TablesInv'
      BY <1>1, <2>2, <2>4, <3>2 DEF CatalogIInv, TablesInv
    <3>4. LiveInv'
      BY <2>4 DEF LiveInv
    <3> QED BY <1>2, <3>1, <3>3, <3>4 DEF CatalogIInv
  <2> QED BY <1>3, <2>3, <2>4 DEF CreateInsert
<1>4. CASE slot \in DOMAIN overrides
  <2>1. Becomes(a, Idle) /\ UNCHANGED <<overrides, faults, stale>>
    BY <1>4 DEF CreateInsert
  <2>2. /\ HandlersInv' /\ LockInv' /\ SyncInv'
        /\ admin'[a] = Idle /\ \A b \in Admins \ {a} : admin'[b] = admin[b]
    BY <1>1, <2>1, HandlerMoves DEF Idle
  <2>3. TablesInv'
    BY <1>1, <2>1 DEF CatalogIInv, TablesInv
  <2>4. Listed' = Listed
    BY <1>1, <2>2 DEF CatalogIInv, LockInv, Listed
  <2>5. LiveInv'
    BY <1>1, <2>1, <2>2, <2>4 DEF CatalogIInv, LiveInv
  <2> QED BY <1>2, <2>2, <2>3, <2>5 DEF CatalogIInv
<1> QED BY <1>3, <1>4

(* UpdateCustomPricing and DeleteCustomPricing: the handler is yet to load *)
(* what it wrote.                                                          *)
LEMMA WriteKeeps ==
    ASSUME CatalogIInv, NEW a \in Admins, Begin(a), IsOverrides(overrides'), Becomes(a, Loading),
           UNCHANGED <<meta, rows, models, base, custom, customMu, sync, up, faults, stale>>
    PROVE  CatalogIInv'
<1>1. admin[a].pc = "idle" /\ ops < MaxOps /\ ops' = ops + 1
  BY DEF Begin
<1>2. HandlersInv' /\ LockInv' /\ SyncInv' /\ admin'[a].pc = "load"
  BY <1>1, HandlerMoves DEF Loading
<1>3. ops' \in 0 .. MaxOps
  BY <1>1, CatalogAssumption DEF CatalogIInv, TablesInv
<1>4. TablesInv' /\ KeysInv'
  BY <1>3 DEF CatalogIInv, TablesInv, KeysInv, Fetched
<1>5. LiveInv'
  BY <1>2 DEF LiveInv
<1> QED BY <1>2, <1>4, <1>5 DEF CatalogIInv

LEMMA UpdateKeeps == ASSUME CatalogIInv, NEW a \in Admins, Update(a) PROVE CatalogIInv'
<1>1. PICK slot \in DOMAIN overrides, offer \in Overrides :
          overrides' = [overrides EXCEPT ![slot] = MergePricing(@, offer)]
  BY DEF Update
<1>2. IsPrice(MergePricing(overrides[slot], offer))
  BY MergedIsPrice, CatalogAssumption DEF CatalogIInv, TablesInv, IsOverrides
<1>3. IsOverrides(overrides')
  BY <1>1, <1>2 DEF CatalogIInv, TablesInv, IsOverrides
<1> QED BY <1>3, WriteKeeps DEF Update

LEMMA DeleteKeeps == ASSUME CatalogIInv, NEW a \in Admins, Delete(a) PROVE CatalogIInv'
<1>1. PICK slot \in DOMAIN overrides :
          overrides' = [s \in DOMAIN overrides \ {slot} |-> overrides[s]]
  BY DEF Delete
<1>2. IsOverrides(overrides')
  BY <1>1 DEF CatalogIInv, TablesInv, IsOverrides
<1> QED BY <1>2, WriteKeeps DEF Delete

LEMMA AdminListKeeps == ASSUME CatalogIInv, NEW a \in Admins, AdminList(a) PROVE CatalogIInv'
<1>1. /\ UNCHANGED <<meta, rows, overrides, models, base, custom, sync, up, ops>>
      /\ admin[a].pc = "load" /\ customMu = Nobody
  BY DEF AdminList, tables, MutexFree
<1>2. KeysInv'
  BY <1>1 DEF CatalogIInv, KeysInv, Fetched
<1>3. CASE /\ customMu' = a /\ Becomes(a, [pc |-> "store", list |-> overrides])
           /\ UNCHANGED <<faults, stale>>
  <2>1. admin = [b \in Admins |-> admin[b]]
    BY DEF CatalogIInv, HandlersInv
  <2>2. admin' = [b \in Admins |-> IF b = a THEN [pc |-> "store", list |-> overrides] ELSE admin[b]]
    BY <1>3, <2>1 DEF Becomes
  <2>3. /\ admin'[a] = [pc |-> "store", list |-> overrides]
        /\ \A b \in Admins \ {a} : admin'[b] = admin[b]
        /\ admin' = [b \in Admins |-> admin'[b]]
    BY <2>2
  <2>4. IsOverrides(overrides)
    BY DEF CatalogIInv, TablesInv
  <2>5. HandlersInv'
    BY <2>3, <2>4 DEF CatalogIInv, HandlersInv
  <2>6. TablesInv' /\ SyncInv'
    BY <1>1, <1>3 DEF CatalogIInv, TablesInv, SyncInv
  <2>7. LockInv'
    BY <1>1, <1>3, <2>3, CatalogAssumption DEF CatalogIInv, LockInv
  <2>8. Listed' = overrides'
    BY <1>1, <1>3, <2>3, CatalogAssumption DEF Listed
  <2>9. LiveInv'
    BY <2>8 DEF LiveInv
  <2> QED BY <1>2, <2>5, <2>6, <2>7, <2>9 DEF CatalogIInv
<1>4. CASE Fault /\ stale' = TRUE /\ Becomes(a, Idle) /\ UNCHANGED customMu
  <2>1. HandlersInv' /\ LockInv' /\ SyncInv'
    BY <1>1, <1>4, HandlerMoves DEF Idle
  <2>2. faults' \in 0 .. MaxFaults
    BY <1>4, CatalogAssumption DEF Fault, CatalogIInv, TablesInv
  <2>3. TablesInv'
    BY <1>1, <1>4, <2>2 DEF CatalogIInv, TablesInv
  <2>4. LiveInv'
    BY <1>4 DEF LiveInv
  <2> QED BY <1>2, <2>1, <2>3, <2>4 DEF CatalogIInv
<1> QED BY <1>3, <1>4 DEF AdminList

LEMMA AdminStoreKeeps == ASSUME CatalogIInv, NEW a \in Admins, AdminStore(a) PROVE CatalogIInv'
<1>1. /\ UNCHANGED <<meta, rows, overrides, models, base, sync, up, faults, ops>>
      /\ admin[a].pc = "store" /\ Becomes(a, Idle)
      /\ custom' = admin[a].list /\ customMu' = Nobody
  BY DEF AdminStore, tables, StoreCustom
<1>2. customMu = a /\ IsOverrides(admin[a].list) /\ Listed = admin[a].list
  BY <1>1, CatalogAssumption DEF CatalogIInv, LockInv, HandlersInv, Listed
<1>3. /\ admin' = [b \in Admins |-> IF b = a THEN Idle ELSE admin[b]]
      /\ admin' = [b \in Admins |-> admin'[b]]
      /\ admin'[a] = Idle /\ \A b \in Admins \ {a} : admin'[b] = admin[b]
  <2>1. admin = [b \in Admins |-> admin[b]]
    BY DEF CatalogIInv, HandlersInv
  <2>2. admin' = [b \in Admins |-> IF b = a THEN Idle ELSE admin[b]]
    BY <1>1, <2>1 DEF Becomes
  <2> QED BY <2>2
<1>4. StoreCustom(Listed)
  BY <1>2 DEF AdminStore
<1>5. LiveInv' /\ stale' \in BOOLEAN
  BY <1>1, <1>2, <1>3, <1>4, StoreIsLive, CatalogAssumption
<1>6. TablesInv'
  BY <1>1, <1>2, <1>5 DEF CatalogIInv, TablesInv
<1>7. HandlersInv'
  BY <1>3 DEF CatalogIInv, HandlersInv, Idle
<1>8. SyncInv' /\ KeysInv'
  BY <1>1 DEF CatalogIInv, SyncInv, KeysInv, Fetched
<1>9. LockInv'
  BY <1>1, <1>2, <1>3, CatalogAssumption DEF CatalogIInv, LockInv, Idle
<1> QED BY <1>5, <1>6, <1>7, <1>8, <1>9 DEF CatalogIInv

-----------------------------------------------------------------------------
(* Every step of the catalog. *)

LEMMA RestartKeeps == ASSUME CatalogIInv, Restart PROVE CatalogIInv'
<1>1. /\ models' = meta /\ base' = rows /\ custom' = overrides
      /\ sync' = Idle /\ admin' = [a \in Admins |-> Idle] /\ customMu' = Nobody
      /\ UNCHANGED <<meta, rows, overrides, faults, ops>>
  BY DEF Restart, tables
<1>2. stale' \in BOOLEAN
  BY DEF Restart
<1>3. TablesInv'
  BY <1>1, <1>2 DEF CatalogIInv, TablesInv
<1>4. SyncInv' /\ HandlersInv'
  BY <1>1 DEF SyncInv, HandlersInv, Idle
<1>5. KeysInv'
  BY <1>1 DEF CatalogIInv, KeysInv, Idle
<1>6. LockInv' /\ LiveInv'
  BY <1>1, CatalogAssumption DEF LockInv, LiveInv, Listed, Idle
<1> QED BY <1>3, <1>4, <1>5, <1>6 DEF CatalogIInv

LEMMA CatalogStep == CatalogIInv /\ [Next]_vars => CatalogIInv'
<1> SUFFICES ASSUME CatalogIInv, [Next]_vars PROVE CatalogIInv'
  OBVIOUS
<1>1. CASE SyncCatalog
  BY <1>1, FetchKeeps, SyncMetaKeeps, SyncPricingKeeps, LoadModelsKeeps, LoadBaseKeeps,
     SyncListKeeps, SyncStoreKeeps DEF SyncCatalog
<1>2. ASSUME NEW a \in Admins, Admin(a) PROVE CatalogIInv'
  BY <1>2, CreateCheckKeeps, CreateInsertKeeps, UpdateKeeps, DeleteKeeps,
     AdminListKeeps, AdminStoreKeeps DEF Admin
<1>3. CASE UNCHANGED vars
  <2>1. /\ UNCHANGED <<meta, rows, overrides, models, base, custom, customMu, sync, admin>>
        /\ UNCHANGED <<up, faults, ops, stale>>
    BY <1>3 DEF vars, tables
  <2>2. TablesInv' /\ SyncInv' /\ HandlersInv'
    BY <2>1 DEF CatalogIInv, TablesInv, SyncInv, HandlersInv
  <2>3. KeysInv' /\ LockInv'
    BY <2>1 DEF CatalogIInv, KeysInv, LockInv, Fetched
  <2>4. LiveInv'
    BY <2>1 DEF CatalogIInv, LiveInv, Listed
  <2> QED BY <2>2, <2>3, <2>4 DEF CatalogIInv
<1> QED BY <1>1, <1>2, <1>3, RestartKeeps DEF Next

LEMMA CatalogInductive == Spec => []CatalogIInv
BY CatalogInit, CatalogStep, PTL DEF Spec

(* Through every order of failing writes, loads and restarts, for any feed *)
(* and any handlers: the tables and snapshots are what they should be, and *)
(* a key with a price in the snapshot is in the snapshot of models.        *)
THEOREM CatalogIsSound == Spec => []CatalogInv
<1>1. CatalogIInv => CatalogInv
  <2> SUFFICES ASSUME CatalogIInv PROVE CatalogInv
    OBVIOUS
  <2>1. Keys \subseteq models
    BY DEF CatalogIInv, KeysInv, KeysOf, Keys
  <2> QED BY <2>1 DEF CatalogIInv, TablesInv, IsTable, IsOverrides, CatalogInv
<1> QED BY <1>1, CatalogInductive, PTL

(* Once nothing is between its write and its store and no load failed, any *)
(* request of any key, model and selector is priced with the override of   *)
(* the table that is the most specific for it.                             *)
THEOREM OverridesAreLive == Spec => []OverridesLive
<1>1. CatalogIInv => OverridesLive
  <2> SUFFICES ASSUME CatalogIInv,
                      \A a \in Admins : admin[a].pc \notin {"load", "store"},
                      sync.pc # "store", ~ stale
               PROVE  /\ custom = overrides
                      /\ \A v \in VirtualKeys, key \in Keys, sel \in Selectors, slot \in DOMAIN overrides :
                          Binding(slot, v, key) =>
                              \A f \in DOMAIN overrides[slot] :
                                  ResolvePrice(v, key, sel)[f] = overrides[slot][f]
    BY DEF OverridesLive
  <2>1. custom = overrides
    <3>1. customMu = Nobody
      BY DEF CatalogIInv, LockInv
    <3> QED BY <3>1 DEF CatalogIInv, LiveInv, Listed
  <2>2. ASSUME NEW v \in VirtualKeys, NEW key \in Keys, NEW sel \in Selectors,
               NEW slot \in DOMAIN overrides, Binding(slot, v, key),
               NEW f \in DOMAIN overrides[slot]
        PROVE  ResolvePrice(v, key, sel)[f] = overrides[slot][f]
    <3> DEFINE slots == [k \in 1 .. 3 |-> <<key[2], Scopes(v, key[1])[k]>>]
               found == {k \in 1 .. 3 : slots[k] \in DOMAIN custom}
    <3>1. PICK k \in 1 .. 3 :
              /\ slot[2] = Scopes(v, key[1])[k]
              /\ \A j \in 1 .. k - 1 : <<key[2], Scopes(v, key[1])[j]>> \notin DOMAIN overrides
      BY <2>2 DEF Binding
    <3>2. slot = <<slot[1], slot[2]>> /\ slot[1] = key[2]
      BY <2>2 DEF CatalogIInv, TablesInv, IsOverrides, Slots, Binding
    <3>3. slots[k] = slot
      BY <3>1, <3>2
    <3>4. k \in found
      BY <2>1, <3>3
    <3>5. ASSUME NEW j \in found PROVE k <= j
      <4>1. j \in 1 .. 3 /\ <<key[2], Scopes(v, key[1])[j]>> \in DOMAIN overrides
        BY <2>1
      <4>2. j \notin 1 .. k - 1
        BY <3>1, <4>1
      <4> QED BY <4>1, <4>2
    <3>6. Min(found) = k
      <4>1. found \in SUBSET Int
        OBVIOUS
      <4> QED BY <3>4, <3>5, <4>1, MinIs
    <3>7. ResolvePrice(v, key, sel) = MergePricing(Find(base, key, sel).price, overrides[slot])
      BY <2>1, <3>3, <3>4, <3>6 DEF ResolvePrice
    <3> QED BY <3>7 DEF MergePricing
  <2> QED BY <2>1, <2>2
<1> QED BY <1>1, CatalogInductive, PTL

-----------------------------------------------------------------------------
(* Rates and bills. *)

LEMMA ChainIs == DOMAIN Chain = 1 .. 15 /\ Places = {Chain[k] : k \in 1 .. 15}
BY DEF Chain, Places, ToSet

(* The field that a rate is taken from: the first in the chain that the    *)
(* request may use.                                                        *)
Hit(p, item, total, tier) == Min({j \in DOMAIN Chain : Usable(p, item, total, tier, Chain[j])})
LEMMA RateIsFirst ==
    ASSUME NEW p, NEW item, NEW total, NEW tier, NEW k \in 1 .. 15,
           Usable(p, item, total, tier, Chain[k])
    PROVE  LET m == Hit(p, item, total, tier) IN
           /\ m \in 1 .. 15 /\ m <= k /\ Usable(p, item, total, tier, Chain[m])
           /\ Rate(p, item, total, tier) = p[<<item, Chain[m][1], Chain[m][2]>>]
<1> DEFINE hits == {j \in DOMAIN Chain : Usable(p, item, total, tier, Chain[j])}
           m == Hit(p, item, total, tier)
<1>1. hits \subseteq 1 .. 15 /\ k \in hits
  BY ChainIs
<1>2. m \in hits /\ \A j \in hits : m <= j
  <2>1. hits \in SUBSET Nat /\ hits # {}
    BY <1>1
  <2> QED BY <2>1, NatMin DEF Hit
<1>3. Rate(p, item, total, tier) = p[<<item, Chain[m][1], Chain[m][2]>>]
  BY <1>1 DEF Rate, Hit
<1> QED BY <1>1, <1>2, <1>3

LEMMA RateIsNone ==
    ASSUME NEW p, NEW item, NEW total, NEW tier,
           \A k \in 1 .. 15 : ~ Usable(p, item, total, tier, Chain[k])
    PROVE  Rate(p, item, total, tier) = 0
BY ChainIs DEF Rate

LEMMA RateIsNat ==
    ASSUME NEW p, IsPrice(p), NEW item, NEW total, NEW tier
    PROVE  Rate(p, item, total, tier) \in Nat
<1>1. CASE \A k \in 1 .. 15 : ~ Usable(p, item, total, tier, Chain[k])
  BY <1>1, RateIsNone
<1>2. CASE \E k \in 1 .. 15 : Usable(p, item, total, tier, Chain[k])
  <2>0. PICK k \in 1 .. 15 : Usable(p, item, total, tier, Chain[k])
    BY <1>2
  <2> DEFINE m == Hit(p, item, total, tier)
  <2>1. /\ m \in 1 .. 15 /\ Usable(p, item, total, tier, Chain[m])
        /\ Rate(p, item, total, tier) = p[<<item, Chain[m][1], Chain[m][2]>>]
    BY <2>0, RateIsFirst
  <2>2. <<item, Chain[m][1], Chain[m][2]>> \in DOMAIN p
    BY <2>1 DEF Usable
  <2> QED BY <2>1, <2>2 DEF IsPrice
<1> QED BY <1>1, <1>2

(* A field that stands later in the chain is not the better one, for any   *)
(* request that may use both.                                              *)
LEMMA ChainDescends ==
    ASSUME NEW tier, NEW j \in 1 .. 15, NEW k \in 1 .. 15, j < k,
           Chain[j][1] \in {tier, "any", "hit"}, Chain[k][1] \in {tier, "any", "hit"}
    PROVE  ~ Better(Chain[k], Chain[j])
<1>b. /\ Above128K \in Nat \ {0} /\ Above200K \in Nat \ {0} /\ Above256K \in Nat \ {0}
      /\ Above272K \in Nat \ {0} /\ Above512K \in Nat \ {0}
      /\ Above128K < Above200K /\ Above200K < Above256K
      /\ Above256K < Above272K /\ Above272K < Above512K
  BY BandsAssumption
<1>1. CASE k <= 5
  BY <1>1, <1>b DEF Chain, Better
<1>2. CASE k > 5 /\ j <= 5
  BY <1>2, <1>b DEF Chain, Better
<1>3. CASE j > 5
  BY <1>3, <1>b DEF Chain, Better
<1> QED BY <1>1, <1>2, <1>3

(* Whatever the price and the request, the best field it may use is billed. *)
LEMMA BestIsFirst == BestFieldBilled
<1> SUFFICES ASSUME NEW item \in {"input", "cacheRead"}, NEW size \in Sizes, NEW tier \in Tiers,
                    NEW f \in {g \in Places : Usable(price, item, size, tier, g)},
                    \A g \in {h \in Places : Usable(price, item, size, tier, h)} \ {f} : Better(f, g)
             PROVE  Rate(price, item, size, tier) = price[<<item, f[1], f[2]>>]
  BY DEF BestFieldBilled
<1>1. PICK k \in 1 .. 15 : f = Chain[k]
  BY ChainIs
<1>u. Usable(price, item, size, tier, Chain[k])
  BY <1>1
<1> DEFINE m == Hit(price, item, size, tier)
<1>2. /\ m \in 1 .. 15 /\ m <= k /\ Usable(price, item, size, tier, Chain[m])
      /\ Rate(price, item, size, tier) = price[<<item, Chain[m][1], Chain[m][2]>>]
  BY <1>u, RateIsFirst
<1> HIDE DEF m
<1>3. CASE Chain[m] = f
  BY <1>2, <1>3
<1>4. CASE Chain[m] # f
  <2>1. Better(f, Chain[m])
    BY <1>2, <1>4, ChainIs
  <2>2. m < k
    BY <1>1, <1>2, <1>4
  <2>3. Chain[m][1] \in {tier, "any", "hit"} /\ Chain[k][1] \in {tier, "any", "hit"}
    BY <1>1, <1>2 DEF Usable
  <2>4. m \in 1 .. 15
    BY <1>2
  <2>5. ~ Better(Chain[k], Chain[m])
    BY <2>2, <2>3, <2>4, ChainDescends
  <2> QED BY <1>1, <2>1, <2>5
<1> QED BY <1>3, <1>4

LEMMA PriceInductive == PriceSpec => []IsPrice(price)
<1>1. PriceInit => IsPrice(price)
  BY OffersAssumption DEF PriceInit
<1>2. IsPrice(price) /\ [Merge]_price => IsPrice(price)'
  <2> SUFFICES ASSUME IsPrice(price), [Merge]_price PROVE IsPrice(price')
    OBVIOUS
  <2>1. CASE Merge
    <3>1. PICK offer \in Offers : price' = MergePricing(price, offer)
      BY <2>1 DEF Merge
    <3> QED BY <3>1, OffersAssumption, MergedIsPrice
  <2>2. CASE UNCHANGED price
    BY <2>2
  <2> QED BY <2>1, <2>2
<1> QED BY <1>1, <1>2, PTL DEF PriceSpec

(* For every price that merging overrides can give, and every request: the *)
(* order of the tests in the rates agrees with the rule that a higher band *)
(* wins, and within a band the request's tier.                             *)
THEOREM BestIsBilled == PriceSpec => []BestFieldBilled
BY BestIsFirst, PTL

(* A field of a rate is one of that rate's fields. *)
LEMMA FieldIsOwn ==
    ASSUME NEW item, NEW f \in Fields, f[1] = item
    PROVE  f \in FieldsOf(item)
<1>1. PICK it \in Items : f \in FieldsOf(it)
  BY DEF Fields
<1>2. f[1] = it
  BY <1>1 DEF FieldsOf
<1> QED BY <1>1, <1>2

(* What is taken out of the input for a part of one token. *)
LEMMA CarvedIs ==
    ASSUME NEW p, IsPrice(p), NEW part \in InputParts
    PROVE  /\ {<<part, "any", 0>>, <<part, "hit", 0>>} \intersect DOMAIN p # {} =>
                Carving(part) \intersect DOMAIN p # {}
           /\ FieldsOf(part) \intersect DOMAIN p = {} =>
                /\ Carving(part) \intersect DOMAIN p = {}
                /\ {<<part, "any", 0>>, <<part, "hit", 0>>} \intersect DOMAIN p = {}
                /\ \A size, tier : Rate(p, part, size, tier) = 0
<1>d. DOMAIN p \subseteq Fields
  BY DEF IsPrice
<1>1. ASSUME NEW a, NEW b, <<part, a, b>> \in DOMAIN p PROVE <<part, a, b>> \in FieldsOf(part)
  BY <1>1, <1>d, FieldIsOwn
<1>2. ASSUME {<<part, "any", 0>>, <<part, "hit", 0>>} \intersect DOMAIN p # {}
      PROVE  Carving(part) \intersect DOMAIN p # {}
  <2>1. PICK w \in {"any", "hit"} : <<part, w, 0>> \in DOMAIN p
    BY <1>2
  <2>2. <<part, w, 0>> \in FieldsOf(part)
    BY <1>1, <2>1
  <2>3. <<part, w, 0>> \in Carving(part)
    BY <2>2 DEF Carving
  <2> QED BY <2>1, <2>3
<1>3. ASSUME FieldsOf(part) \intersect DOMAIN p = {}
      PROVE  /\ {<<part, "any", 0>>, <<part, "hit", 0>>} \intersect DOMAIN p = {}
             /\ Carving(part) \intersect DOMAIN p = {}
             /\ \A size, tier : Rate(p, part, size, tier) = 0
  <2>1. \A a, b : <<part, a, b>> \notin DOMAIN p
    BY <1>1, <1>3
  <2>2. Carving(part) \intersect DOMAIN p = {}
    BY <1>3, <2>1 DEF Carving
  <2>3. ASSUME NEW size, NEW tier PROVE Rate(p, part, size, tier) = 0
    <3>1. \A k \in 1 .. 15 : ~ Usable(p, part, size, tier, Chain[k])
      BY <2>1 DEF Usable
    <3> QED BY <3>1, RateIsNone
  <2> QED BY <2>1, <2>2, <2>3
<1> QED BY <1>2, <1>3

LEMMA MaxOfZero ==
    ASSUME NEW x \in Nat
    PROVE  Max({0, x}) = x
<1>1. Max({0, x}) \in {0, x} /\ \A y \in {0, x} : Max({0, x}) >= y
  <2>1. x \in {0, x} /\ \A y \in {0, x} : x >= y
    OBVIOUS
  <2> QED BY <2>1 DEF Max
<1> QED BY <1>1

LEMMA Distributes ==
    ASSUME NEW a \in Int, NEW r \in Int
    PROVE  a * r = (a - 1) * r + r
OBVIOUS

LEMMA SizesAre == \A size \in Sizes : size \in Nat /\ size >= 1
BY BandsAssumption DEF Sizes, Bands

(* The bill of a request of size tokens of which one is of a part: the     *)
(* line of the input and the line of the part.                             *)
LEMMA BillIs ==
    ASSUME NEW p, IsPrice(p), NEW part \in InputParts, NEW size \in Nat, size >= 1, NEW tier,
           NEW n, n = [item \in Items |-> IF item = "input" THEN size ELSE IF item = part THEN 1 ELSE 0]
    PROVE  CalculateCost(p, n, tier) =
              (IF Carving(part) \intersect DOMAIN p # {} THEN size - 1 ELSE size)
                * Rate(p, "input", size, tier) + Rate(p, part, size, tier)
<1> DEFINE carved(q) == IF Carving(q) \intersect DOMAIN p # {} THEN n[q] ELSE 0
           R(item) == Rate(p, item, size, tier)
           rest == IF Carving(part) \intersect DOMAIN p # {} THEN size - 1 ELSE size
<1>1. /\ n["input"] = size /\ n[part] = 1
      /\ \A item \in Items \ {"input", part} : n[item] = 0
  BY DEF Items, InputParts
<1>2. /\ \A item : R(item) \in Nat
      /\ rest \in Nat
  BY RateIsNat
<1>3. Quantity(p, n, "input") = rest
  <2>1. size - (carved("cacheRead") + carved("audio") + carved("image")) = rest
    BY <1>1 DEF InputParts, Items
  <2>2. Quantity(p, n, "input") = Max({0, rest})
    BY <1>1, <2>1 DEF Quantity, Plain
  <2> QED BY <1>2, <2>2, MaxOfZero
<1>4. Quantity(p, n, "output") = 0
  <2>1. n["output"] - (carved("reasoning") + carved("outputAudio") + carved("outputImage")) = 0
    BY <1>1 DEF InputParts, Items
  <2>2. Quantity(p, n, "output") = Max({0, 0})
    BY <2>1 DEF Quantity, Plain
  <2> QED BY <2>2, MaxOfZero
<1>5. \A item \in Items \ {"input", "output"} : Quantity(p, n, item) = n[item]
  BY DEF Quantity
<1>6. CalculateCost(p, n, tier) =
         rest * R("input") + n["cacheRead"] * R("cacheRead") + n["cacheWrite"] * R("cacheWrite")
           + n["audio"] * R("audio") + n["image"] * R("image") + 0 * R("output")
           + n["reasoning"] * R("reasoning") + n["outputAudio"] * R("outputAudio")
           + n["outputImage"] * R("outputImage") + n["citation"] * R("citation")
  BY <1>1, <1>3, <1>4, <1>5 DEF CalculateCost, Items
<1> HIDE DEF R, rest
<1>7. rest * R("input") \in Nat
  BY <1>2
<1>8. CASE part = "cacheRead"
  <2>1. /\ n["cacheRead"] = 1 /\ n["cacheWrite"] = 0 /\ n["audio"] = 0 /\ n["image"] = 0
        /\ n["reasoning"] = 0 /\ n["outputAudio"] = 0 /\ n["outputImage"] = 0 /\ n["citation"] = 0
    BY <1>1, <1>8 DEF Items
  <2>2. CalculateCost(p, n, tier) = rest * R("input") + R("cacheRead")
    BY <1>2, <1>6, <1>7, <2>1
  <2> QED BY <1>8, <2>2 DEF R, rest
<1>9. CASE part = "audio"
  <2>1. /\ n["cacheRead"] = 0 /\ n["cacheWrite"] = 0 /\ n["audio"] = 1 /\ n["image"] = 0
        /\ n["reasoning"] = 0 /\ n["outputAudio"] = 0 /\ n["outputImage"] = 0 /\ n["citation"] = 0
    BY <1>1, <1>9 DEF Items
  <2>2. CalculateCost(p, n, tier) = rest * R("input") + R("audio")
    BY <1>2, <1>6, <1>7, <2>1
  <2> QED BY <1>9, <2>2 DEF R, rest
<1>10. CASE part = "image"
  <2>1. /\ n["cacheRead"] = 0 /\ n["cacheWrite"] = 0 /\ n["audio"] = 0 /\ n["image"] = 1
        /\ n["reasoning"] = 0 /\ n["outputAudio"] = 0 /\ n["outputImage"] = 0 /\ n["citation"] = 0
    BY <1>1, <1>10 DEF Items
  <2>2. CalculateCost(p, n, tier) = rest * R("input") + R("image")
    BY <1>2, <1>6, <1>7, <2>1
  <2> QED BY <1>10, <2>2 DEF R, rest
<1> QED BY <1>8, <1>9, <1>10 DEF InputParts

LEMMA PriceBillsOnce == IsPrice(price) => TokensBilledOnce
<1> SUFFICES ASSUME IsPrice(price), NEW part \in InputParts, NEW size \in Sizes, NEW tier \in Tiers
             PROVE  LET n == [item \in Items |->
                                 IF item = "input" THEN size ELSE IF item = part THEN 1 ELSE 0]
                        priced == {<<part, "any", 0>>, <<part, "hit", 0>>} \intersect DOMAIN price # {}
                    IN priced \/ FieldsOf(part) \intersect DOMAIN price = {} =>
                        CalculateCost(price, n, tier) = (size - 1) * Rate(price, "input", size, tier)
                            + Rate(price, IF priced THEN part ELSE "input", size, tier)
  BY DEF TokensBilledOnce
<1> DEFINE n == [item \in Items |-> IF item = "input" THEN size ELSE IF item = part THEN 1 ELSE 0]
           priced == {<<part, "any", 0>>, <<part, "hit", 0>>} \intersect DOMAIN price # {}
           in == Rate(price, "input", size, tier)
<1>1. size \in Nat /\ size >= 1
  BY SizesAre
<1>2. CalculateCost(price, n, tier) =
         (IF Carving(part) \intersect DOMAIN price # {} THEN size - 1 ELSE size) * in
           + Rate(price, part, size, tier)
  BY <1>1, BillIs
<1>3. in \in Nat
  BY RateIsNat
<1>4. CASE priced
  BY <1>2, <1>4, CarvedIs
<1>5. CASE FieldsOf(part) \intersect DOMAIN price = {}
  <2>1. /\ ~ priced /\ Carving(part) \intersect DOMAIN price = {}
        /\ Rate(price, part, size, tier) = 0
    BY <1>5, CarvedIs
  <2> HIDE DEF n, priced, in
  <2>2. size * in \in Nat
    BY <1>1, <1>3
  <2>3. CalculateCost(price, n, tier) = size * in
    BY <1>2, <2>1, <2>2
  <2>4. size * in = (size - 1) * in + in
    BY <1>1, <1>3, Distributes
  <2>5. CalculateCost(price, n, tier) = (size - 1) * in + in
    BY <2>3, <2>4
  <2> QED BY <2>1, <2>5 DEF n, priced, in
<1> QED BY <1>4, <1>5

(* For every price that merging overrides can give: a token of the input   *)
(* that is of a part is billed once, at the part's rate when the part has  *)
(* a price for every tier and at the input's when it has none.             *)
THEOREM EachTokenOnce == PriceSpec => []TokensBilledOnce
BY PriceInductive, PriceBillsOnce, PTL
=============================================================================
