-------------------------- MODULE SelectionProofs --------------------------
(***************************************************************************)
(* Proofs about ProviderPlane and Selection, for every number of           *)
(* providers, credentials, admin handlers, requests and policies.          *)
(***************************************************************************)
EXTENDS Selection, FiniteSetTheorems, TLAPS

-----------------------------------------------------------------------------
(* Numbers and sequences. *)

(* A set of numbers has a least one, which Min takes. *)
LEMMA NatMin ==
    ASSUME NEW S \in SUBSET Nat, S # {}
    PROVE  Min(S) \in S /\ \A y \in S : Min(S) <= y
  <1>1. PICK x \in S : \A y \in S : ~ (<<y, x>> \in OpToRel(<, Nat))
    BY WFMin, NatLessThanWellFounded
  <1>2. ASSUME NEW y \in S PROVE x <= y
    <2>1. x \in Nat /\ y \in Nat
      OBVIOUS
    <2>2. ~ (y < x)
      BY <1>1, <2>1 DEF OpToRel
    <2> QED
      BY <2>1, <2>2
  <1> QED
    BY <1>2 DEF Min

(* Ascending lists each number of a finite set once. *)
LEMMA AscendingLists ==
    ASSUME NEW T \in SUBSET Nat, IsFiniteSet(T)
    PROVE  /\ Cardinality(T) \in Nat /\ DOMAIN Ascending(T) = 1 .. Cardinality(T)
           /\ \A k \in DOMAIN Ascending(T) : Ascending(T)[k] \in T
           /\ \A i \in T : \E k \in DOMAIN Ascending(T) : Ascending(T)[k] = i
           /\ \A j, k \in DOMAIN Ascending(T) : Ascending(T)[j] = Ascending(T)[k] => j = k
  <1> DEFINE C == Cardinality(T)
             upto(i) == {j \in T : j <= i}
             rank == [i \in T |-> Cardinality(upto(i))]
  <1>1. C \in Nat /\ IsFiniteSet(1 .. C) /\ Cardinality(1 .. C) = C
    BY FS_CardinalityType, FS_Interval
  <1>2. ASSUME NEW i \in T PROVE IsFiniteSet(upto(i)) /\ rank[i] \in 1 .. C
    <2>1. upto(i) \in SUBSET T /\ i \in upto(i)
      OBVIOUS
    <2>2. IsFiniteSet(upto(i)) /\ Cardinality(upto(i)) <= C
      BY <2>1, FS_Subset
    <2>3. Cardinality(upto(i)) \in Nat /\ Cardinality(upto(i)) # 0
      BY <2>1, <2>2, FS_CardinalityType, FS_EmptySet
    <2> QED
      BY <1>1, <2>2, <2>3
  <1>3. ASSUME NEW i \in T, NEW n \in T, rank[i] = rank[n] PROVE i = n
    <2>1. ASSUME NEW a \in T, NEW b \in T, a < b, rank[a] = rank[b] PROVE FALSE
      <3>1. upto(a) \in SUBSET upto(b) /\ b \in upto(b) /\ b \notin upto(a)
        <4>1. a \in Nat /\ b \in Nat /\ a < b /\ \A y \in T : y \in Nat
          BY <2>1
        <4>2. \A y \in T : y <= a => y <= b
          BY <4>1
        <4>3. b <= b /\ ~ (b <= a)
          BY <4>1
        <4> QED
          BY <2>1, <4>2, <4>3
      <3>2. IsFiniteSet(upto(b)) /\ Cardinality(upto(a)) = Cardinality(upto(b))
        BY <1>2, <2>1
      <3>3. upto(b) = upto(a)
        BY <3>1, <3>2, FS_Subset
      <3> QED
        BY <3>1, <3>3
    <2>2. i < n \/ n < i \/ i = n
      OBVIOUS
    <2> QED
      BY <1>3, <2>1, <2>2
  <1>4. rank \in Injection(T, 1 .. C)
    BY <1>2, <1>3 DEF Injection, IsInjective
  <1>5. rank \in Surjection(T, 1 .. C)
    BY <1>1, <1>4, FS_Injection
  <1>6. \A k \in 1 .. C : \E i \in T : rank[i] = k
    BY <1>5 DEF Surjection
  <1>7. ASSUME NEW k \in 1 .. C PROVE Ascending(T)[k] \in T /\ rank[Ascending(T)[k]] = k
    <2>1. PICK i \in T : Cardinality({j \in T : j <= i}) = k
      BY <1>6
    <2> DEFINE c == CHOOSE x \in T : Cardinality({j \in T : j <= x}) = k
    <2>2. c \in T /\ Cardinality({j \in T : j <= c}) = k
      BY <2>1
    <2>3. Ascending(T)[k] = c
      BY DEF Ascending
    <2> QED
      BY <2>2, <2>3
  <1>8. DOMAIN Ascending(T) = 1 .. C
    BY DEF Ascending
  <1> HIDE DEF rank, C
  <1>9. \A i \in T : \E k \in 1 .. C : Ascending(T)[k] = i
    BY <1>3, <1>4, <1>7 DEF Injection
  <1> QED
    BY <1>1, <1>7, <1>8, <1>9 DEF C

(* Kept has the elements at the places it is given, each once. *)
LEMMA KeptHas ==
    ASSUME NEW S, NEW s \in Seq(S), NEW places \in SUBSET DOMAIN s
    PROVE  /\ Kept(s, places) \in Seq(S)
           /\ \E at \in [DOMAIN Kept(s, places) -> places] :
                /\ \A k \in DOMAIN Kept(s, places) : Kept(s, places)[k] = s[at[k]]
                /\ \A i \in places : \E k \in DOMAIN Kept(s, places) : at[k] = i
                /\ \A j, k \in DOMAIN Kept(s, places) : at[j] = at[k] => j = k
  <1>1. DOMAIN s = 1 .. Len(s) /\ Len(s) \in Nat
    OBVIOUS
  <1>2. places \in SUBSET Nat /\ IsFiniteSet(places)
    <2>1. IsFiniteSet(1 .. Len(s)) /\ places \in SUBSET (1 .. Len(s))
      BY <1>1, FS_Interval
    <2> QED
      BY <2>1, FS_Subset
  <1> DEFINE at == Ascending(places)
             t == Kept(s, places)
  <1>3. /\ Cardinality(places) \in Nat /\ DOMAIN at = 1 .. Cardinality(places)
        /\ \A k \in DOMAIN at : at[k] \in places
        /\ \A i \in places : \E k \in DOMAIN at : at[k] = i
        /\ \A j, k \in DOMAIN at : at[j] = at[k] => j = k
    BY <1>2, AscendingLists
  <1>4. DOMAIN t = DOMAIN at /\ \A k \in DOMAIN t : t[k] = s[at[k]]
    BY DEF Kept
  <1>5. at \in [DOMAIN t -> places]
    BY <1>3, <1>4 DEF Ascending
  <1>6. t = [k \in DOMAIN at |-> s[at[k]]]
    BY DEF Kept
  <1>7. t \in [1 .. Cardinality(places) -> S]
    BY <1>1, <1>3, <1>6
  <1> HIDE DEF at, t
  <1>8. t \in Seq(S)
    BY <1>3, <1>7
  <1>9. /\ \A k \in DOMAIN t : t[k] = s[at[k]]
        /\ \A i \in places : \E k \in DOMAIN t : at[k] = i
        /\ \A j, k \in DOMAIN t : at[j] = at[k] => j = k
    BY <1>3, <1>4
  <1>10. \E a \in [DOMAIN t -> places] :
        /\ \A k \in DOMAIN t : t[k] = s[a[k]]
        /\ \A i \in places : \E k \in DOMAIN t : a[k] = i
        /\ \A j, k \in DOMAIN t : a[j] = a[k] => j = k
    BY <1>5, <1>9
  <1> QED
    BY <1>8, <1>10 DEF t

-----------------------------------------------------------------------------
(* Snapshots: an id has one entry at most, in the bucket of its provider.  *)

IsBucket(b, p) ==
    /\ b \in Seq(Entry)
    /\ \A k \in DOMAIN b : Home[b[k].id] = p
    /\ \A j, k \in DOMAIN b : b[j].id = b[k].id => j = k
IsSnapshot(snap) ==
    /\ DOMAIN snap = Providers
    /\ \A p \in Providers : IsBucket(snap[p], p)

(* The entries of an id. *)
EntriesOf(snap, id) == {e \in ToSet(snap[Home[id]]) : e.id = id}

LEMMA HomeIs == \A id \in CredIDs : Home[id] \in Providers
  BY PlaneAssumption

(* Of a bucket, Kept is a bucket with the entries at those places. *)
LEMMA KeptBucket ==
    ASSUME NEW p, NEW b, IsBucket(b, p), NEW places \in SUBSET DOMAIN b
    PROVE  IsBucket(Kept(b, places), p) /\ ToSet(Kept(b, places)) = {b[k] : k \in places}
  <1> DEFINE t == Kept(b, places)
  <1>1. b \in Seq(Entry)
    BY DEF IsBucket
  <1>2. t \in Seq(Entry)
    BY <1>1, KeptHas
  <1>3. PICK at \in [DOMAIN t -> places] :
            /\ \A k \in DOMAIN t : t[k] = b[at[k]]
            /\ \A i \in places : \E k \in DOMAIN t : at[k] = i
            /\ \A j, k \in DOMAIN t : at[j] = at[k] => j = k
    BY <1>1, KeptHas
  <1> HIDE DEF t
  <1>4. IsBucket(t, p)
    BY <1>2, <1>3 DEF IsBucket
  <1>5. ToSet(t) = {b[k] : k \in places}
    BY <1>3 DEF ToSet
  <1> QED
    BY <1>4, <1>5 DEF t

(* UpsertCredential leaves one entry for the id, the new one, and those of *)
(* the others.                                                             *)
LEMMA UpsertedHas ==
    ASSUME NEW snap, IsSnapshot(snap), NEW e \in Entry
    PROVE  /\ IsSnapshot(Upserted(snap, e))
           /\ \A id \in CredIDs : EntriesOf(Upserted(snap, e), id) =
                                    IF id = e.id THEN {e} ELSE EntriesOf(snap, id)
  <1> DEFINE h == Home[e.id]
             b == snap[h]
             same == {k \in DOMAIN b : b[k].id = e.id}
             c == IF same = {} THEN Append(b, e) ELSE [k \in DOMAIN b |-> IF k \in same THEN e ELSE b[k]]
  <1>1. e.id \in CredIDs /\ h \in Providers /\ IsBucket(b, h) /\ b \in Seq(Entry)
    BY HomeIs DEF Entry, IsSnapshot, IsBucket
  <1>2. IsBucket(c, h) /\ \A x : x \in ToSet(c) <=> x = e \/ (x \in ToSet(b) /\ x.id # e.id)
    <2>1. CASE same = {}
      <3>1. c = Append(b, e)
        BY <2>1
      <3>2. /\ Append(b, e) \in Seq(Entry) /\ Len(b) \in Nat /\ DOMAIN b = 1 .. Len(b)
            /\ DOMAIN Append(b, e) = 1 .. Len(b) + 1
            /\ Append(b, e)[Len(b) + 1] = e
            /\ \A k \in 1 .. Len(b) : Append(b, e)[k] = b[k]
        BY <1>1
      <3>3. \A k \in DOMAIN b : b[k].id # e.id
        BY <2>1
      <3> HIDE DEF c, same, b, h
      <3>4. /\ \A k \in DOMAIN c : (k \in DOMAIN b /\ c[k] = b[k]) \/ (k = Len(b) + 1 /\ c[k] = e)
            /\ \A k \in DOMAIN b : k \in DOMAIN c /\ c[k] = b[k]
            /\ Len(b) + 1 \in DOMAIN c /\ c[Len(b) + 1] = e
        BY <3>1, <3>2
      <3>5. IsBucket(c, h)
        BY <1>1, <3>1, <3>2, <3>3, <3>4 DEF IsBucket, h
      <3>6. \A x : x \in ToSet(c) <=> x = e \/ (x \in ToSet(b) /\ x.id # e.id)
        BY <3>3, <3>4 DEF ToSet
      <3> QED
        BY <3>5, <3>6
    <2>2. CASE same # {}
      <3>1. c = [k \in DOMAIN b |-> IF k \in same THEN e ELSE b[k]]
        BY <2>2
      <3>2. DOMAIN b = 1 .. Len(b) /\ Len(b) \in Nat /\ \A k \in DOMAIN b : b[k] \in Entry
        BY <1>1
      <3>3. PICK n \in DOMAIN b : b[n].id = e.id
        BY <2>2
      <3>4. \A k \in DOMAIN b : k \in same <=> b[k].id = e.id
        OBVIOUS
      <3> HIDE DEF c, same, b, h
      <3>5. \A k \in DOMAIN b : b[k].id = e.id <=> k = n
        BY <1>1, <3>3 DEF IsBucket
      <3>6. DOMAIN c = DOMAIN b /\ c[n] = e /\ \A k \in DOMAIN b : k # n => c[k] = b[k] /\ b[k].id # e.id
        BY <3>1, <3>3, <3>4, <3>5
      <3>7. c \in Seq(Entry)
        <4>1. c \in [1 .. Len(b) -> Entry]
          BY <3>1, <3>2
        <4> QED
          BY <3>2, <4>1
      <3>8. IsBucket(c, h)
        BY <1>1, <3>3, <3>6, <3>7 DEF IsBucket, h
      <3>9. \A x : x \in ToSet(c) <=> x = e \/ (x \in ToSet(b) /\ x.id # e.id)
        BY <3>3, <3>5, <3>6 DEF ToSet
      <3> QED
        BY <3>8, <3>9
    <2> QED
      BY <2>1, <2>2
  <1>3. Upserted(snap, e) = [snap EXCEPT ![h] = c]
    BY DEF Upserted
  <1> HIDE DEF c, same
  <1>4. /\ DOMAIN Upserted(snap, e) = Providers /\ Upserted(snap, e)[h] = c
        /\ \A p \in Providers : p # h => Upserted(snap, e)[p] = snap[p]
    BY <1>1, <1>3 DEF IsSnapshot
  <1>5. IsSnapshot(Upserted(snap, e))
    BY <1>1, <1>2, <1>4 DEF IsSnapshot
  <1>6. ASSUME NEW id \in CredIDs
        PROVE  EntriesOf(Upserted(snap, e), id) = IF id = e.id THEN {e} ELSE EntriesOf(snap, id)
    <2>1. CASE id = e.id
      BY <1>2, <1>4, <2>1 DEF EntriesOf
    <2>2. CASE id # e.id /\ Home[id] # h
      BY <1>4, <2>2, HomeIs DEF EntriesOf
    <2>3. CASE id # e.id /\ Home[id] = h
      BY <1>2, <1>4, <2>3 DEF EntriesOf
    <2> QED
      BY <2>1, <2>2, <2>3
  <1> QED
    BY <1>5, <1>6

(* RemoveCredential leaves no entry for the id, and those of the others. *)
LEMMA RemovedHas ==
    ASSUME NEW snap, IsSnapshot(snap), NEW i \in CredIDs
    PROVE  /\ IsSnapshot(Removed(snap, i))
           /\ \A id \in CredIDs : EntriesOf(Removed(snap, i), id) =
                                    IF id = i THEN {} ELSE EntriesOf(snap, id)
  <1> DEFINE h == Home[i]
             b == snap[h]
             places == {k \in DOMAIN b : b[k].id # i}
             c == Kept(b, places)
  <1>1. h \in Providers /\ IsBucket(b, h)
    BY HomeIs DEF IsSnapshot
  <1>2. IsBucket(c, h) /\ ToSet(c) = {b[k] : k \in places}
    BY <1>1, KeptBucket
  <1>3. \A x : x \in ToSet(c) <=> x \in ToSet(b) /\ x.id # i
    <2>1. \A x : x \in {b[k] : k \in places} <=> x \in ToSet(b) /\ x.id # i
      BY DEF ToSet
    <2> QED
      BY <1>2, <2>1
  <1>4. Removed(snap, i) = [snap EXCEPT ![h] = c]
    BY DEF Removed
  <1> HIDE DEF c, places
  <1>5. /\ DOMAIN Removed(snap, i) = Providers /\ Removed(snap, i)[h] = c
        /\ \A p \in Providers : p # h => Removed(snap, i)[p] = snap[p]
    BY <1>1, <1>4 DEF IsSnapshot
  <1>6. IsSnapshot(Removed(snap, i))
    BY <1>1, <1>2, <1>5 DEF IsSnapshot
  <1>7. ASSUME NEW id \in CredIDs
        PROVE  EntriesOf(Removed(snap, i), id) = IF id = i THEN {} ELSE EntriesOf(snap, id)
    <2>1. CASE id = i
      BY <1>3, <1>5, <2>1 DEF EntriesOf
    <2>2. CASE id # i /\ Home[id] # h
      BY <1>5, <2>2, HomeIs DEF EntriesOf
    <2>3. CASE id # i /\ Home[id] = h
      BY <1>3, <1>5, <2>3 DEF EntriesOf
    <2> QED
      BY <2>1, <2>2, <2>3
  <1> QED
    BY <1>6, <1>7

(* buildCredSnapshot has one entry for each row, and no other. *)
IsTable(rows) ==
    /\ DOMAIN rows \subseteq CredIDs /\ IsFiniteSet(DOMAIN rows)
    /\ \A id \in DOMAIN rows : rows[id] \in Credential
RowOf(rows, id) == IF id \in DOMAIN rows THEN {[id |-> id, cred |-> rows[id]]} ELSE {}

LEMMA BuiltHas ==
    ASSUME NEW rows, IsTable(rows)
    PROVE  /\ IsSnapshot(BuildCredSnapshot(rows))
           /\ \A id \in CredIDs : EntriesOf(BuildCredSnapshot(rows), id) = RowOf(rows, id)
  <1> DEFINE mine(p) == {i \in DOMAIN rows : Home[i] = p}
             ids(p) == Ascending(mine(p))
             entry(i) == [id |-> i, cred |-> rows[i]]
             built == BuildCredSnapshot(rows)
  <1>1. ASSUME NEW p \in Providers
        PROVE  /\ Cardinality(mine(p)) \in Nat /\ DOMAIN ids(p) = 1 .. Cardinality(mine(p))
               /\ \A k \in DOMAIN ids(p) : ids(p)[k] \in mine(p)
               /\ \A i \in mine(p) : \E k \in DOMAIN ids(p) : ids(p)[k] = i
               /\ \A j, k \in DOMAIN ids(p) : ids(p)[j] = ids(p)[k] => j = k
    <2>1. mine(p) \in SUBSET Nat /\ mine(p) \in SUBSET DOMAIN rows
      BY PlaneAssumption DEF IsTable
    <2>2. IsFiniteSet(mine(p))
      BY <2>1, FS_Subset DEF IsTable
    <2> QED
      BY <2>1, <2>2, AscendingLists
  <1>2. DOMAIN built = Providers /\ \A p \in Providers : built[p] = [k \in DOMAIN ids(p) |-> entry(ids(p)[k])]
    BY DEF BuildCredSnapshot
  <1>3. \A i \in DOMAIN rows : entry(i) \in Entry /\ entry(i).id = i
    BY DEF IsTable, Entry
  <1> HIDE DEF ids, built, entry
  <1>4. ASSUME NEW p \in Providers
        PROVE  IsBucket(built[p], p) /\ \A x : x \in ToSet(built[p]) <=> \E i \in mine(p) : x = entry(i)
    <2>1. DOMAIN built[p] = DOMAIN ids(p) /\ \A k \in DOMAIN ids(p) : built[p][k] = entry(ids(p)[k])
      BY <1>2
    <2>2. built[p] \in Seq(Entry)
      <3>1. built[p] \in [1 .. Cardinality(mine(p)) -> Entry]
        BY <1>1, <1>2, <1>3
      <3> HIDE DEF mine
      <3> QED
        BY <1>1, <3>1
    <2> DEFINE c == built[p]
               at == ids(p)
               M == mine(p)
    <2>3. /\ \A k \in DOMAIN c : at[k] \in M /\ c[k] = entry(at[k])
          /\ \A i \in M : \E k \in DOMAIN c : at[k] = i
          /\ \A j, k \in DOMAIN c : at[j] = at[k] => j = k
      <3>1. /\ \A k \in DOMAIN at : at[k] \in M
            /\ \A i \in M : \E k \in DOMAIN at : at[k] = i
            /\ \A j, k \in DOMAIN at : at[j] = at[k] => j = k
        BY <1>1
      <3>2. DOMAIN c = DOMAIN at /\ \A k \in DOMAIN at : c[k] = entry(at[k])
        BY <2>1
      <3> HIDE DEF c, at, M
      <3> QED
        BY <3>1, <3>2
    <2>4. \A i \in M : entry(i).id = i /\ Home[i] = p
      BY <1>3
    <2> HIDE DEF c, at, M
    <2>5. IsBucket(c, p)
      <3>1. c \in Seq(Entry)
        BY <2>2 DEF c
      <3>2. \A k \in DOMAIN c : c[k].id = at[k] /\ Home[at[k]] = p
        BY <2>3, <2>4
      <3> QED
        BY <2>3, <3>1, <3>2 DEF IsBucket
    <2>6. \A x : x \in ToSet(c) <=> \E i \in M : x = entry(i)
      BY <2>3 DEF ToSet
    <2> QED
      BY <2>5, <2>6 DEF c, M
  <1>5. ASSUME NEW id \in CredIDs PROVE EntriesOf(built, id) = RowOf(rows, id)
    <2>1. \A x : x \in ToSet(built[Home[id]]) <=> \E i \in mine(Home[id]) : x = entry(i)
      BY <1>4, HomeIs
    <2>2. \A x : x \in EntriesOf(built, id) <=> id \in DOMAIN rows /\ x = entry(id)
      BY <1>3, <2>1 DEF EntriesOf
    <2> QED
      BY <2>2 DEF RowOf, entry
  <1> QED
    BY <1>2, <1>4, <1>5 DEF IsSnapshot, built

-----------------------------------------------------------------------------
(* The inductive invariant. *)

(* The variables have their types; ids are given in finite number. *)
TypesInv ==
    /\ given \subseteq CredIDs /\ IsFiniteSet(given)
    /\ table \in UNION {[D -> Credential] : D \in SUBSET given}
    /\ late \in BOOLEAN /\ unlisted \in BOOLEAN
    /\ faults \in 0 .. MaxFaults /\ changes \in 0 .. MaxChanges
    /\ settings \in [Providers -> Settings]
    /\ clients \in [Providers -> Buildable \union {Nobody}]
    /\ planeMu \in Admins \union {Nobody} /\ writeMu \in Admins \union {Nobody}
    /\ DOMAIN admin = Admins

(* What a handler holds. *)
HandlersInv ==
    \A a \in Admins :
        /\ admin[a].pc \in {"reread", "delete", "publish", "remove", "locked"} => admin[a].id \in given
        /\ admin[a].pc = "publish" => admin[a].cred \in Credential
        /\ admin[a].pc = "locked" =>
            /\ admin[a].do.pc \in {"publish", "remove"}
            /\ admin[a].do.pc = "publish" => admin[a].do.cred \in Credential

(* plane.mu: the clone is of the snapshot as it is. *)
PlaneLockInv ==
    \A a \in Admins :
        /\ admin[a].pc = "locked" <=> planeMu = a
        /\ admin[a].pc = "locked" => admin[a].next = snapshot

(* providerWriteMu: the rows are the settings as they are. *)
SettingsLockInv ==
    \A a \in Admins :
        /\ admin[a].pc \in {"list", "replace"} <=> writeMu = a
        /\ admin[a].pc = "replace" => admin[a].rows = settings

(* A handler that is to publish a row, that has the row to publish, and    *)
(* one that is to take it out.                                             *)
Removing(s) == s.pc = "remove" \/ (s.pc = "locked" /\ s.do.pc = "remove")
Holds(s, cred) ==
    \/ s.pc = "publish" /\ s.cred = cred
    \/ s.pc = "locked" /\ s.do.pc = "publish" /\ s.do.cred = cred
Upserting(s) == s.pc \in {"reread", "publish"} \/ (s.pc = "locked" /\ s.do.pc = "publish")

(* Ids are given once, so that a row taken out stays out; and unless       *)
(* changes of an id overlap, one handler has it, with the row as it is.    *)
ChangesInv ==
    /\ \A a \in Admins : Removing(admin[a]) => admin[a].id \notin DOMAIN table
    /\ \A a \in Admins : (Upserting(admin[a]) /\ admin[a].id \notin raced) =>
            /\ admin[a].id \in DOMAIN table
            /\ admin[a].pc # "reread" => Holds(admin[a], table[admin[a].id])
    /\ \A a, b \in Admins, id \in CredIDs :
            Publishing(a, id) /\ Publishing(b, id) /\ id \notin raced => a = b

(* What the plane has of an id, while handlers are on their way: a row     *)
(* that nobody is to publish has an entry.                                 *)
EntriesInv ==
    \A id \in given \ unread :
        /\ (id \in DOMAIN table /\ \A a \in Admins : ~ (Upserting(admin[a]) /\ admin[a].id = id)) =>
                EntriesOf(snapshot, id) # {}
        /\ (id \notin raced /\ \A a \in Admins : ~ Publishing(a, id)) =>
                EntriesOf(snapshot, id) = RowOf(table, id)

PlaneIInv ==
    /\ TypesInv
    /\ HandlersInv
    /\ PlaneLockInv
    /\ SettingsLockInv
    /\ IsSnapshot(snapshot)
    /\ ChangesInv
    /\ EntriesInv
    /\ ClientsLive

(* A viable provider of a policy, and the running total of their weights. *)
Viables == [provider : Providers, weight : Nat, creds : Seq(Entry), upto : Nat]
ViableOf(policy, v) ==
    /\ v.provider \in Providers /\ Config(policy, v.provider) # {}
    /\ IsBucket(v.creds, v.provider) /\ v.creds # <<>>
Running(viable) ==
    /\ \A k \in DOMAIN viable : viable[k].weight \in Nat /\ viable[k].upto \in Nat
    /\ \A k \in DOMAIN viable :
            viable[k].upto = viable[k].weight + (IF k = 1 THEN 0 ELSE viable[k - 1].upto)
    /\ \A j, k \in DOMAIN viable : j <= k => viable[j].upto <= viable[k].upto

(* What a request holds: parts of its policy, and entries of buckets as    *)
(* they were when it loaded them.                                          *)
RequestInv(c) ==
    c.pc # "idle" =>
        /\ DOMAIN c = {"pc", "policy", "model", "named", "left", "viable", "from", "entry"}
        /\ c.pc \in {"collect", "pick", "chosen"}
        /\ c.policy \in Policies /\ c.model \in Models /\ c.named \in Providers \union {Nobody}
        /\ c.named # Nobody => /\ Config(c.policy, c.named) # {}
                               /\ Config(c.policy, c.named) \subseteq Allowing(c.policy, c.model)
        /\ c.left \in Seq(ProviderConfig)
        /\ \A k \in DOMAIN c.left : Config(c.policy, c.left[k].provider) # {}
        /\ c.viable \in Seq(Viables)
        /\ \A k \in DOMAIN c.viable : ViableOf(c.policy, c.viable[k])
        /\ Running(c.viable)
        /\ c.pc \in {"pick", "chosen"} =>
            /\ ViableOf(c.policy, c.from)
            /\ c.named # Nobody => c.from.provider = c.named
            /\ (c.named = Nobody /\ c.from.weight = 0) => \A k \in DOMAIN c.viable : c.viable[k].weight = 0
        /\ c.pc = "chosen" => Home[c.entry.id] = c.from.provider

(* The last picks of a cursor are those of the turns up to it. *)
Turns(rot, cursor) ==
    /\ rot.creds \in Seq(Entry) /\ rot.picked \in Seq(CredIDs)
    /\ \A j, k \in DOMAIN rot.creds : rot.creds[j].id = rot.creds[k].id => j = k
    /\ Len(rot.picked) <= Len(rot.creds) /\ Len(rot.picked) <= cursor
    /\ \A j \in DOMAIN rot.picked :
            rot.picked[j] = rot.creds[1 + ((cursor - Len(rot.picked) + j) % Len(rot.creds))].id

IInv ==
    /\ PlaneIInv
    /\ DOMAIN req = Requests /\ \A r \in Requests : RequestInv(req[r])
    /\ DOMAIN cursors = Keys /\ \A key \in Keys : cursors[key] \in 0 .. MaxPicks
    /\ DOMAIN rotation = Keys /\ \A key \in Keys : Turns(rotation[key], cursors[key])

-----------------------------------------------------------------------------
(* The plane. *)

LEMMA TableIs == TypesInv => IsTable(table)
  <1> SUFFICES ASSUME TypesInv PROVE IsTable(table)
    OBVIOUS
  <1>1. PICK D \in SUBSET given : table \in [D -> Credential]
    BY DEF TypesInv
  <1>2. IsFiniteSet(D)
    BY FS_Subset DEF TypesInv
  <1> QED
    BY <1>1, <1>2 DEF TypesInv, IsTable

LEMMA Moved ==
    ASSUME TypesInv, NEW a \in Admins, NEW s, Goto(a, s)
    PROVE  DOMAIN admin' = Admins /\ admin'[a] = s /\ \A b \in Admins : b # a => admin'[b] = admin[b]
  BY DEF Goto, TypesInv

LEMMA PlaneStarts == PlaneInit => PlaneIInv
  <1> SUFFICES ASSUME PlaneInit PROVE PlaneIInv
    OBVIOUS
  <1>1. \A a \in Admins : admin[a].pc = "idle"
    BY DEF PlaneInit, Idle
  <1>2. TypesInv
    <2>1. table \in UNION {[D -> Credential] : D \in SUBSET given} /\ given \subseteq CredIDs
      BY PlaneAssumption DEF PlaneInit
    <2>2. clients \in [Providers -> Buildable \union {Nobody}]
      BY DEF PlaneInit, Built
    <2>3. late \in BOOLEAN /\ unlisted \in BOOLEAN
      BY Zenon DEF PlaneInit
    <2> QED
      BY <2>1, <2>2, <2>3, PlaneAssumption DEF PlaneInit, TypesInv
  <1>3. HandlersInv
    BY <1>1 DEF HandlersInv
  <1>4. PlaneLockInv /\ SettingsLockInv
    BY <1>1, PlaneAssumption DEF PlaneLockInv, SettingsLockInv, PlaneInit
  <1>5. IsSnapshot(snapshot) /\ \A id \in CredIDs : EntriesOf(snapshot, id) = RowOf(table, id)
    BY <1>2, TableIs, BuiltHas DEF PlaneInit
  <1>6. ChangesInv
    BY <1>1 DEF ChangesInv, Removing, Upserting, Publishing
  <1>7. EntriesInv
    BY <1>2, <1>5 DEF EntriesInv, TypesInv, RowOf
  <1>8. ClientsLive
    BY DEF PlaneInit, ClientsLive, Built
  <1> QED
    BY <1>2, <1>3, <1>4, <1>5, <1>6, <1>7, <1>8 DEF PlaneIInv

(* A handler on its way to a change of the settings, or to none, leaves    *)
(* the credentials as they are; the others leave the settings.             *)
LEMMA CredentialsStay ==
    ASSUME PlaneIInv, UNCHANGED credentials,
           \A b \in Admins : \/ admin'[b] = admin[b]
                             \/ /\ admin[b].pc \in {"idle", "list", "replace", "delete"}
                                /\ admin'[b].pc \in {"idle", "list", "replace", "delete"}
    PROVE  PlaneLockInv' /\ IsSnapshot(snapshot)' /\ ChangesInv' /\ EntriesInv'
  <1>1. UNCHANGED <<table, given, snapshot, planeMu, unread, raced>>
    BY DEF credentials
  <1>2. PlaneLockInv'
    BY <1>1 DEF PlaneIInv, PlaneLockInv
  <1>3. IsSnapshot(snapshot)'
    BY <1>1 DEF PlaneIInv
  <1>4. \A b \in Admins : /\ Removing(admin'[b]) => admin'[b] = admin[b]
                          /\ Upserting(admin'[b]) => admin'[b] = admin[b]
                          /\ Upserting(admin[b]) => admin'[b] = admin[b]
                          /\ \A id : Publishing(b, id)' <=> Publishing(b, id)
    BY DEF Removing, Upserting, Publishing
  <1>5. ChangesInv'
    BY <1>1, <1>4 DEF PlaneIInv, ChangesInv, Holds
  <1>6. EntriesInv'
    BY <1>1, <1>4 DEF PlaneIInv, EntriesInv, EntriesOf, RowOf
  <1> QED
    BY <1>2, <1>3, <1>5, <1>6

LEMMA SettingsStay ==
    ASSUME PlaneIInv, UNCHANGED transport,
           \A b \in Admins : \/ admin'[b] = admin[b]
                             \/ admin[b].pc \notin {"list", "replace"} /\ admin'[b].pc \notin {"list", "replace"}
    PROVE  SettingsLockInv' /\ ClientsLive'
  <1>1. UNCHANGED <<settings, clients, writeMu, unlisted>>
    BY DEF transport
  <1>2. SettingsLockInv'
    BY <1>1 DEF PlaneIInv, SettingsLockInv
  <1>3. ClientsLive'
    BY <1>1 DEF PlaneIInv, ClientsLive
  <1> QED
    BY <1>2, <1>3

(* A handler commits a change of the row of an id: the row is there, or    *)
(* it is gone and the handler is to take the entry out.                    *)
LEMMA Committed ==
    ASSUME PlaneIInv, TypesInv', NEW a \in Admins, NEW id \in given', NEW pc \in {"reread", "remove"},
           admin[a].pc \in {"idle", "delete"}, Commits(a, id, pc), given' \subseteq given \union {id},
           \A i : i # id => /\ i \in DOMAIN table' <=> i \in DOMAIN table
                            /\ i \in DOMAIN table => table'[i] = table[i],
           id \in DOMAIN table' <=> pc = "reread",
           pc = "reread" => \A b \in Admins : Removing(admin[b]) => admin[b].id # id,
           given \subseteq given'
    PROVE  PlaneIInv'
  <1>1. /\ admin'[a] = [pc |-> pc, id |-> id] /\ \A b \in Admins : b # a => admin'[b] = admin[b]
        /\ UNCHANGED <<snapshot, planeMu, unread, settings, clients, writeMu, unlisted>>
        /\ raced' = IF \E b \in Admins \ {a} : Publishing(b, id) THEN raced \union {id} ELSE raced
    BY Moved DEF PlaneIInv, Commits, transport
  <1>2. admin'[a].pc = pc /\ admin'[a].id = id
    BY <1>1
  <1>3. HandlersInv'
    BY <1>1, <1>2 DEF PlaneIInv, HandlersInv
  <1>4. PlaneLockInv'
    BY <1>1, <1>2 DEF PlaneIInv, PlaneLockInv
  <1>5. SettingsLockInv' /\ ClientsLive'
    BY <1>1, <1>2, SettingsStay DEF transport
  <1>6. IsSnapshot(snapshot)'
    BY <1>1 DEF PlaneIInv
  <1>7. /\ \A b \in Admins : \A i : b # a => (Publishing(b, i)' <=> Publishing(b, i))
        /\ \A i : Publishing(a, i)' <=> i = id
    BY <1>1, <1>2 DEF Publishing
  <1>8. ChangesInv'
    <2>1. ASSUME NEW b \in Admins, Removing(admin'[b]) PROVE admin'[b].id \notin DOMAIN table'
      <3>1. CASE b = a
        BY <1>2, <2>1, <3>1 DEF Removing
      <3>2. CASE b # a /\ admin[b].id = id
        BY <1>1, <2>1, <3>2
      <3>3. CASE b # a /\ admin[b].id # id
        BY <1>1, <2>1, <3>3 DEF PlaneIInv, ChangesInv
      <3> QED
        BY <3>1, <3>2, <3>3
    <2>2. ASSUME NEW b \in Admins, Upserting(admin'[b]), admin'[b].id \notin raced'
          PROVE  /\ admin'[b].id \in DOMAIN table'
                 /\ admin'[b].pc # "reread" => Holds(admin'[b], table'[admin'[b].id])
      <3>1. CASE b = a
        BY <1>2, <2>2, <3>1 DEF Upserting
      <3>2. CASE b # a
        <4>1. Upserting(admin[b]) /\ admin'[b] = admin[b] /\ Publishing(b, admin[b].id)
          BY <1>1, <2>2, <3>2 DEF Upserting, Publishing
        <4>2. admin[b].id # id /\ admin[b].id \notin raced
          BY <1>1, <2>2, <3>2, <4>1
        <4> QED
          BY <4>1, <4>2 DEF PlaneIInv, ChangesInv
      <3> QED
        BY <3>1, <3>2
    <2>3. ASSUME NEW b \in Admins, NEW c \in Admins, NEW i \in CredIDs,
                 Publishing(b, i)', Publishing(c, i)', i \notin raced'
          PROVE  b = c
      <3>1. i \notin raced
        BY <1>1, <2>3
      <3>2. CASE i = id
        BY <1>1, <1>7, <2>3, <3>2
      <3>3. CASE i # id
        BY <1>7, <2>3, <3>1, <3>3 DEF PlaneIInv, ChangesInv
      <3> QED
        BY <3>2, <3>3
    <2> QED
      BY <2>1, <2>2, <2>3 DEF ChangesInv
  <1>9. EntriesInv'
    <2> SUFFICES ASSUME NEW i \in given' \ unread'
                 PROVE  /\ (i \in DOMAIN table' /\ \A b \in Admins : ~ (Upserting(admin'[b]) /\ admin'[b].id = i)) =>
                                EntriesOf(snapshot', i) # {}
                        /\ (i \notin raced' /\ \A b \in Admins : ~ Publishing(b, i)') =>
                                EntriesOf(snapshot', i) = RowOf(table', i)
      BY DEF EntriesInv
    <2>1. CASE i = id
      BY <1>2, <1>7, <2>1 DEF Upserting
    <2>2. CASE i # id
      <3>1. i \in given \ unread /\ snapshot' = snapshot /\ RowOf(table', i) = RowOf(table, i)
        BY <1>1, <2>2 DEF RowOf
      <3>2. \A b \in Admins : (Upserting(admin[b]) /\ admin[b].id = i) => (Upserting(admin'[b]) /\ admin'[b].id = i)
        <4>1. ~ Upserting(admin[a])
          BY DEF Upserting
        <4> QED
          BY <1>1, <4>1
      <3>3. \A b \in Admins : Publishing(b, i) => Publishing(b, i)'
        <4>1. ~ Publishing(a, i)
          BY DEF Publishing
        <4> QED
          BY <1>7, <4>1
      <3>4. raced \subseteq raced'
        BY <1>1
      <3> QED
        BY <2>2, <3>1, <3>2, <3>3, <3>4 DEF PlaneIInv, EntriesInv
    <2> QED
      BY <2>1, <2>2
  <1> QED
    BY <1>3, <1>4, <1>5, <1>6, <1>8, <1>9 DEF PlaneIInv

LEMMA BeginBounds ==
    ASSUME TypesInv, NEW a, Begin(a) PROVE changes' \in 0 .. MaxChanges /\ admin[a].pc = "idle"
  BY PlaneAssumption DEF TypesInv, Begin

LEMMA FaultBounds ==
    ASSUME TypesInv, Fault PROVE faults' \in 0 .. MaxFaults
  BY PlaneAssumption DEF TypesInv, Fault

LEMMA CreateStep ==
    ASSUME PlaneIInv, NEW a \in Admins, CreateCredential(a) PROVE PlaneIInv'
  <1>1. PICK id \in CredIDs \ given, body \in Bodies :
            /\ table' = [i \in DOMAIN table \union {id} |-> IF i = id THEN [body EXCEPT !.enabled = TRUE] ELSE table[i]]
            /\ given' = given \union {id}
            /\ Commits(a, id, "reread")
    BY DEF CreateCredential
  <1>2. PICK D \in SUBSET given : table \in [D -> Credential]
    BY DEF PlaneIInv, TypesInv
  <1>3. TypesInv'
    <2>0. [body EXCEPT !.enabled = TRUE] \in Credential
      <3>1. body \in [enabled : BOOLEAN, expires : BOOLEAN, serves : SUBSET Models]
        BY PlaneAssumption DEF Credential
      <3> QED
        BY <3>1, Zenon DEF Credential
    <2>1. table' \in [D \union {id} -> Credential] /\ D \union {id} \in SUBSET given'
      BY <1>1, <1>2, <2>0
    <2>2. IsFiniteSet(given')
      BY <1>1, FS_AddElement DEF PlaneIInv, TypesInv
    <2>3. UNCHANGED <<planeMu, settings, clients, writeMu, unlisted, late, faults>> /\ DOMAIN admin' = Admins
      BY <1>1, Moved DEF PlaneIInv, Commits, transport
    <2>4. changes' \in 0 .. MaxChanges
      BY BeginBounds DEF CreateCredential, PlaneIInv
    <2> QED
      BY <1>1, <2>1, <2>2, <2>3, <2>4 DEF PlaneIInv, TypesInv
  <1>4. \A b \in Admins : Removing(admin[b]) => admin[b].id # id
    BY DEF PlaneIInv, HandlersInv, Removing
  <1>5. admin[a].pc \in {"idle", "delete"}
    BY BeginBounds DEF CreateCredential, PlaneIInv
  <1> QED
    BY <1>1, <1>2, <1>3, <1>4, <1>5, Committed

LEMMA UpdateStep ==
    ASSUME PlaneIInv, NEW a \in Admins, UpdateCredential(a) PROVE PlaneIInv'
  <1>1. PICK id \in DOMAIN table, patch \in Patches :
            table' = [table EXCEPT ![id] = patch @@ @] /\ given' = given /\ Commits(a, id, "reread")
    BY DEF UpdateCredential
  <1>2. PICK D \in SUBSET given : table \in [D -> Credential]
    BY DEF PlaneIInv, TypesInv
  <1>3. TypesInv'
    <2>1. table' \in [D -> Credential]
      <3>1. patch @@ table[id] \in Credential
        BY <1>2, PlaneAssumption
      <3> QED
        BY <1>1, <1>2, <3>1
    <2>2. UNCHANGED <<planeMu, settings, clients, writeMu, unlisted, late, faults>> /\ DOMAIN admin' = Admins
      BY <1>1, Moved DEF PlaneIInv, Commits, transport
    <2>3. changes' \in 0 .. MaxChanges
      BY BeginBounds DEF UpdateCredential, PlaneIInv
    <2> QED
      BY <1>1, <2>1, <2>2, <2>3 DEF PlaneIInv, TypesInv
  <1>4. \A b \in Admins : Removing(admin[b]) => admin[b].id # id
    BY DEF PlaneIInv, ChangesInv
  <1>5. admin[a].pc \in {"idle", "delete"}
    BY BeginBounds DEF UpdateCredential, PlaneIInv
  <1>6. DOMAIN table' = DOMAIN table /\ \A i \in DOMAIN table : i # id => table'[i] = table[i]
    BY <1>1
  <1>7. id \in given'
    BY <1>1, <1>2
  <1> QED
    BY <1>1, <1>3, <1>4, <1>5, <1>6, <1>7, Committed

LEMMA DeleteStep ==
    ASSUME PlaneIInv, NEW a \in Admins, DeleteCredential(a) PROVE PlaneIInv'
  <1> DEFINE id == admin[a].id
  <1>1. admin[a].pc = "delete"
    BY DEF DeleteCredential
  <1>2. CASE /\ id \in DOMAIN table /\ table' = [i \in DOMAIN table \ {id} |-> table[i]]
             /\ given' = given /\ changes' = changes /\ Commits(a, id, "remove")
    <2>1. PICK D \in SUBSET given : table \in [D -> Credential]
      BY DEF PlaneIInv, TypesInv
    <2>2. TypesInv'
      <3>1. table' \in [D \ {id} -> Credential] /\ D \ {id} \in SUBSET given
        BY <1>2, <2>1
      <3>2. UNCHANGED <<planeMu, settings, clients, writeMu, unlisted, late, faults>> /\ DOMAIN admin' = Admins
        BY <1>2, Moved DEF PlaneIInv, Commits, transport
      <3> QED
        BY <1>2, <3>1, <3>2 DEF PlaneIInv, TypesInv
    <2>3. id \in given'
      BY <1>2, <2>1
    <2>4. \A i : i # id => /\ i \in DOMAIN table' <=> i \in DOMAIN table
                           /\ i \in DOMAIN table => table'[i] = table[i]
      BY <1>2
    <2>5. id \notin DOMAIN table'
      BY <1>2
    <2> HIDE DEF id
    <2> QED
      BY <1>1, <1>2, <2>2, <2>3, <2>4, <2>5, Committed
  <1>3. CASE Goto(a, Idle) /\ UNCHANGED <<credentials, transport, late, faults, changes>>
    <2>1. DOMAIN admin' = Admins /\ admin'[a].pc = "idle" /\ \A b \in Admins : b # a => admin'[b] = admin[b]
      BY <1>3, Moved DEF PlaneIInv, Idle
    <2>2. PlaneLockInv' /\ IsSnapshot(snapshot)' /\ ChangesInv' /\ EntriesInv'
      BY <1>1, <1>3, <2>1, CredentialsStay
    <2>3. SettingsLockInv' /\ ClientsLive'
      BY <1>1, <1>3, <2>1, SettingsStay
    <2>4. TypesInv' /\ HandlersInv'
      BY <1>3, <2>1 DEF PlaneIInv, TypesInv, HandlersInv, credentials, transport
    <2> QED
      BY <2>2, <2>3, <2>4 DEF PlaneIInv
  <1> QED
    BY <1>2, <1>3 DEF DeleteCredential

LEMMA DeleteGetStep ==
    ASSUME PlaneIInv, NEW a \in Admins, DeleteGet(a) PROVE PlaneIInv'
  <1>1. PICK id \in DOMAIN table : Goto(a, [pc |-> "delete", id |-> id])
    BY DEF DeleteGet
  <1>2. /\ admin[a].pc = "idle" /\ changes' \in 0 .. MaxChanges
        /\ UNCHANGED <<credentials, transport, late, faults>>
    BY BeginBounds DEF PlaneIInv, DeleteGet
  <1>3. id \in given
    BY DEF PlaneIInv, TypesInv
  <1>4. /\ DOMAIN admin' = Admins /\ admin'[a].pc = "delete" /\ admin'[a].id = id
        /\ \A b \in Admins : b # a => admin'[b] = admin[b]
    BY <1>1, Moved DEF PlaneIInv
  <1>5. PlaneLockInv' /\ IsSnapshot(snapshot)' /\ ChangesInv' /\ EntriesInv'
    BY <1>2, <1>4, CredentialsStay
  <1>6. SettingsLockInv' /\ ClientsLive'
    BY <1>2, <1>4, SettingsStay
  <1>7. TypesInv' /\ HandlersInv'
    BY <1>2, <1>3, <1>4 DEF PlaneIInv, TypesInv, HandlersInv, credentials, transport
  <1> QED
    BY <1>5, <1>6, <1>7 DEF PlaneIInv

LEMMA RereadStep ==
    ASSUME PlaneIInv, NEW a \in Admins, Reread(a) PROVE PlaneIInv'
  <1> DEFINE id == admin[a].id
  <1>1. /\ admin[a].pc = "reread"
        /\ UNCHANGED <<table, given, snapshot, planeMu, raced, settings, clients, writeMu, unlisted, late, changes>>
    BY DEF Reread, transport
  <1>2. id \in given /\ id \in CredIDs
    BY <1>1 DEF PlaneIInv, HandlersInv, TypesInv
  <1>3. \/ /\ id \in DOMAIN table /\ unread' = unread /\ faults' = faults
           /\ Goto(a, [pc |-> "publish", id |-> id, cred |-> table[id]])
        \/ id \notin DOMAIN table /\ unread' = unread /\ faults' = faults /\ Goto(a, Idle)
        \/ unread' = unread \union {id} /\ Fault /\ Goto(a, Idle)
    BY DEF Reread
  <1>4. /\ DOMAIN admin' = Admins /\ \A b \in Admins : b # a => admin'[b] = admin[b]
        /\ unread \subseteq unread' /\ faults' \in 0 .. MaxFaults
        /\ \/ /\ admin'[a].pc = "publish" /\ admin'[a].id = id /\ admin'[a].cred = table[id]
              /\ id \in DOMAIN table
           \/ admin'[a].pc = "idle" /\ (id \notin DOMAIN table \/ id \in unread')
    <2>1. faults \in 0 .. MaxFaults /\ TypesInv
      BY DEF PlaneIInv, TypesInv
    <2>2. CASE /\ id \in DOMAIN table /\ unread' = unread /\ faults' = faults
               /\ Goto(a, [pc |-> "publish", id |-> id, cred |-> table[id]])
      BY <2>1, <2>2, Moved
    <2>3. CASE id \notin DOMAIN table /\ unread' = unread /\ faults' = faults /\ Goto(a, Idle)
      BY <2>1, <2>3, Moved DEF Idle
    <2>4. CASE unread' = unread \union {id} /\ Fault /\ Goto(a, Idle)
      BY <2>1, <2>4, Moved, FaultBounds DEF Idle
    <2> QED
      BY <1>3, <2>2, <2>3, <2>4
  <1>5. \A i \in DOMAIN table : table[i] \in Credential
    BY TableIs DEF PlaneIInv, IsTable
  <1>6. TypesInv' /\ HandlersInv'
    BY <1>1, <1>2, <1>4, <1>5 DEF PlaneIInv, TypesInv, HandlersInv
  <1>7. PlaneLockInv' /\ IsSnapshot(snapshot)'
    BY <1>1, <1>4 DEF PlaneIInv, PlaneLockInv
  <1>8. SettingsLockInv' /\ ClientsLive'
    BY <1>1, <1>4, SettingsStay DEF transport
  <1>9. /\ \A b \in Admins : \A i : b # a => (Publishing(b, i)' <=> Publishing(b, i))
        /\ \A i : Publishing(a, i)' => i = id
        /\ \A i : Publishing(a, i) <=> i = id
    BY <1>1, <1>4 DEF Publishing
  <1> HIDE DEF id
  <1>10. ChangesInv'
    <2>1. ASSUME NEW b \in Admins, Removing(admin'[b]) PROVE admin'[b].id \notin DOMAIN table'
      <3>1. b # a
        BY <1>4, <2>1 DEF Removing
      <3> QED
        BY <1>1, <1>4, <2>1, <3>1 DEF PlaneIInv, ChangesInv
    <2>2. ASSUME NEW b \in Admins, Upserting(admin'[b]), admin'[b].id \notin raced'
          PROVE  /\ admin'[b].id \in DOMAIN table'
                 /\ admin'[b].pc # "reread" => Holds(admin'[b], table'[admin'[b].id])
      <3>1. CASE b = a
        <4>1. admin'[a].pc = "publish" /\ admin'[a].id = id /\ admin'[a].cred = table[id] /\ id \in DOMAIN table
          BY <1>4, <2>2, <3>1 DEF Upserting
        <4> QED
          BY <1>1, <3>1, <4>1 DEF Holds
      <3>2. CASE b # a
        BY <1>1, <1>4, <2>2, <3>2 DEF PlaneIInv, ChangesInv
      <3> QED
        BY <3>1, <3>2
    <2>3. ASSUME NEW b \in Admins, NEW c \in Admins, NEW i \in CredIDs,
                 Publishing(b, i)', Publishing(c, i)', i \notin raced'
          PROVE  b = c
      <3>1. Publishing(b, i) /\ Publishing(c, i) /\ i \notin raced
        BY <1>1, <1>9, <2>3
      <3> QED
        BY <3>1 DEF PlaneIInv, ChangesInv
    <2> QED
      BY <2>1, <2>2, <2>3 DEF ChangesInv
  <1>11. EntriesInv'
    <2> SUFFICES ASSUME NEW i \in given' \ unread'
                 PROVE  /\ (i \in DOMAIN table' /\ \A b \in Admins : ~ (Upserting(admin'[b]) /\ admin'[b].id = i)) =>
                                EntriesOf(snapshot', i) # {}
                        /\ (i \notin raced' /\ \A b \in Admins : ~ Publishing(b, i)') =>
                                EntriesOf(snapshot', i) = RowOf(table', i)
      BY DEF EntriesInv
    <2>1. CASE i = id /\ admin'[a].pc = "publish"
      BY <1>4, <2>1 DEF Upserting, Publishing
    <2>2. CASE i = id /\ admin'[a].pc = "idle"
      <3>1. id \notin DOMAIN table
        BY <1>4, <2>2
      <3>2. id \in raced
        <4>1. Upserting(admin[a]) /\ admin[a].id = id
          BY <1>1 DEF Upserting, id
        <4> QED
          BY <3>1, <4>1 DEF PlaneIInv, ChangesInv
      <3> QED
        BY <1>1, <2>2, <3>1, <3>2
    <2>3. CASE i # id
      <3>1. i \in given \ unread
        BY <1>1, <1>4
      <3>2. \A b \in Admins : (Upserting(admin[b]) /\ admin[b].id = i) => (Upserting(admin'[b]) /\ admin'[b].id = i)
        BY <1>4, <2>3 DEF id
      <3>3. \A b \in Admins : Publishing(b, i) => Publishing(b, i)'
        BY <1>9, <2>3
      <3> QED
        BY <1>1, <3>1, <3>2, <3>3 DEF PlaneIInv, EntriesInv
    <2> QED
      BY <1>4, <2>1, <2>2, <2>3
  <1> QED
    BY <1>6, <1>7, <1>8, <1>10, <1>11 DEF PlaneIInv

(* The clone is of the snapshot, since nobody else holds plane.mu. *)
LEMMA CloneStep ==
    ASSUME PlaneIInv, NEW a \in Admins, Clone(a) PROVE PlaneIInv'
  <1>1. /\ admin[a].pc \in {"publish", "remove"} /\ planeMu = Nobody /\ planeMu' = a
        /\ UNCHANGED <<table, given, snapshot, unread, raced, settings, clients, writeMu, unlisted, late, faults, changes>>
    BY DEF Clone, PlaneUnlocked, transport
  <1>2. /\ DOMAIN admin' = Admins /\ \A b \in Admins : b # a => admin'[b] = admin[b]
        /\ admin'[a].pc = "locked" /\ admin'[a].id = admin[a].id
        /\ admin'[a].do = admin[a] /\ admin'[a].next = snapshot
    BY Moved DEF PlaneIInv, Clone
  <1>3. TypesInv' /\ HandlersInv'
    BY <1>1, <1>2 DEF PlaneIInv, TypesInv, HandlersInv
  <1>4. PlaneLockInv'
    BY <1>1, <1>2, PlaneAssumption DEF PlaneIInv, PlaneLockInv
  <1>5. IsSnapshot(snapshot)'
    BY <1>1 DEF PlaneIInv
  <1>6. SettingsLockInv' /\ ClientsLive'
    BY <1>1, <1>2, SettingsStay DEF transport
  <1>7. \A b \in Admins : \A i : Publishing(b, i)' <=> Publishing(b, i)
    BY <1>1, <1>2 DEF Publishing
  <1>8. /\ Upserting(admin'[a]) <=> Upserting(admin[a])
        /\ Removing(admin'[a]) <=> Removing(admin[a])
        /\ \A c : Holds(admin'[a], c) <=> Holds(admin[a], c)
        /\ admin[a].pc # "reread"
    BY <1>1, <1>2 DEF Upserting, Removing, Holds
  <1>9. ChangesInv'
    <2>1. ASSUME NEW b \in Admins, Removing(admin'[b]) PROVE admin'[b].id \notin DOMAIN table'
      BY <1>1, <1>2, <1>8, <2>1 DEF PlaneIInv, ChangesInv
    <2>2. ASSUME NEW b \in Admins, Upserting(admin'[b]), admin'[b].id \notin raced'
          PROVE  /\ admin'[b].id \in DOMAIN table'
                 /\ admin'[b].pc # "reread" => Holds(admin'[b], table'[admin'[b].id])
      BY <1>1, <1>2, <1>8, <2>2 DEF PlaneIInv, ChangesInv
    <2>3. ASSUME NEW b \in Admins, NEW c \in Admins, NEW i \in CredIDs,
                 Publishing(b, i)', Publishing(c, i)', i \notin raced'
          PROVE  b = c
      BY <1>1, <1>7, <2>3 DEF PlaneIInv, ChangesInv
    <2> QED
      BY <2>1, <2>2, <2>3 DEF ChangesInv
  <1>10. EntriesInv'
    <2>1. \A b \in Admins : \A i : (Upserting(admin'[b]) /\ admin'[b].id = i) <=> (Upserting(admin[b]) /\ admin[b].id = i)
      BY <1>2, <1>8
    <2> QED
      BY <1>1, <1>7, <2>1 DEF PlaneIInv, EntriesInv, RowOf, EntriesOf
  <1> QED
    BY <1>3, <1>4, <1>5, <1>6, <1>9, <1>10 DEF PlaneIInv

(* What is stored is the snapshot as it is, with the change. *)
LEMMA StoreStep ==
    ASSUME PlaneIInv, NEW a \in Admins, StoreClone(a) PROVE PlaneIInv'
  <1> DEFINE id == admin[a].id
             do == admin[a].do
  <1>1. /\ admin[a].pc = "locked" /\ planeMu' = Nobody /\ unread' = unread \ {id}
        /\ UNCHANGED <<table, given, raced, settings, clients, writeMu, unlisted, late, faults, changes>>
        /\ snapshot' = IF do.pc = "publish" THEN Upserted(admin[a].next, [id |-> id, cred |-> do.cred])
                       ELSE Removed(admin[a].next, id)
    BY DEF StoreClone, transport
  <1>2. /\ DOMAIN admin' = Admins /\ admin'[a].pc = "idle"
        /\ \A b \in Admins : b # a => admin'[b] = admin[b]
    BY Moved DEF PlaneIInv, StoreClone, Idle
  <1>3. /\ id \in given /\ id \in CredIDs /\ admin[a].next = snapshot /\ do.pc \in {"publish", "remove"}
        /\ do.pc = "publish" => [id |-> id, cred |-> do.cred] \in Entry
    BY <1>1 DEF PlaneIInv, TypesInv, HandlersInv, PlaneLockInv, Entry
  <1>4. /\ IsSnapshot(snapshot')
        /\ \A i \in CredIDs : i # id => EntriesOf(snapshot', i) = EntriesOf(snapshot, i)
        /\ do.pc = "publish" => EntriesOf(snapshot', id) = {[id |-> id, cred |-> do.cred]}
        /\ do.pc = "remove" => EntriesOf(snapshot', id) = {}
    <2>1. IsSnapshot(snapshot)
      BY DEF PlaneIInv
    <2>2. CASE do.pc = "publish"
      <3> DEFINE e == [id |-> id, cred |-> do.cred]
      <3>1. snapshot' = Upserted(snapshot, e) /\ e \in Entry /\ e.id = id
        BY <1>1, <1>3, <2>2
      <3> HIDE DEF e, id
      <3>2. /\ IsSnapshot(snapshot')
            /\ \A i \in CredIDs : EntriesOf(snapshot', i) = IF i = id THEN {e} ELSE EntriesOf(snapshot, i)
        BY <2>1, <3>1, UpsertedHas
      <3> QED
        BY <1>3, <2>2, <3>2 DEF e
    <2>3. CASE do.pc = "remove"
      <3>1. snapshot' = Removed(snapshot, id)
        BY <1>1, <1>3, <2>3
      <3> HIDE DEF id
      <3>2. /\ IsSnapshot(snapshot')
            /\ \A i \in CredIDs : EntriesOf(snapshot', i) = IF i = id THEN {} ELSE EntriesOf(snapshot, i)
        BY <1>3, <2>1, <3>1, RemovedHas
      <3> QED
        BY <1>3, <2>3, <3>2
    <2> QED
      BY <1>3, <2>2, <2>3
  <1>5. TypesInv' /\ HandlersInv'
    BY <1>1, <1>2 DEF PlaneIInv, TypesInv, HandlersInv
  <1>6. PlaneLockInv'
    BY <1>1, <1>2, PlaneAssumption DEF PlaneIInv, PlaneLockInv
  <1>7. SettingsLockInv' /\ ClientsLive'
    BY <1>1, <1>2, SettingsStay DEF transport
  <1>8. /\ \A b \in Admins : \A i : b # a => (Publishing(b, i)' <=> Publishing(b, i))
        /\ \A i : ~ Publishing(a, i)'
        /\ \A i : Publishing(a, i) <=> i = id
        /\ ~ Removing(admin'[a]) /\ ~ Upserting(admin'[a])
    BY <1>1, <1>2 DEF Publishing, Removing, Upserting
  <1>9. ChangesInv'
    <2>1. ASSUME NEW b \in Admins, Removing(admin'[b]) PROVE admin'[b].id \notin DOMAIN table'
      BY <1>1, <1>2, <1>8, <2>1 DEF PlaneIInv, ChangesInv
    <2>2. ASSUME NEW b \in Admins, Upserting(admin'[b]), admin'[b].id \notin raced'
          PROVE  /\ admin'[b].id \in DOMAIN table'
                 /\ admin'[b].pc # "reread" => Holds(admin'[b], table'[admin'[b].id])
      BY <1>1, <1>2, <1>8, <2>2 DEF PlaneIInv, ChangesInv
    <2>3. ASSUME NEW b \in Admins, NEW c \in Admins, NEW i \in CredIDs,
                 Publishing(b, i)', Publishing(c, i)', i \notin raced'
          PROVE  b = c
      BY <1>1, <1>8, <2>3 DEF PlaneIInv, ChangesInv
    <2> QED
      BY <2>1, <2>2, <2>3 DEF ChangesInv
  <1>10. /\ do.pc = "remove" => id \notin DOMAIN table
         /\ (do.pc = "publish" /\ id \notin raced) => id \in DOMAIN table /\ do.cred = table[id]
    <2>1. CASE do.pc = "remove"
      <3>1. Removing(admin[a])
        BY <1>1, <2>1 DEF Removing
      <3> QED
        BY <2>1, <3>1 DEF PlaneIInv, ChangesInv
    <2>2. CASE do.pc = "publish"
      <3>1. Upserting(admin[a])
        BY <1>1, <2>2 DEF Upserting
      <3>2. id \notin raced => id \in DOMAIN table /\ Holds(admin[a], table[id])
        BY <1>1, <3>1 DEF PlaneIInv, ChangesInv
      <3> QED
        BY <1>1, <2>2, <3>2 DEF Holds
    <2> QED
      BY <1>3, <2>1, <2>2
  <1> HIDE DEF id, do
  <1>11. EntriesInv'
    <2> SUFFICES ASSUME NEW i \in given' \ unread'
                 PROVE  /\ (i \in DOMAIN table' /\ \A b \in Admins : ~ (Upserting(admin'[b]) /\ admin'[b].id = i)) =>
                                EntriesOf(snapshot', i) # {}
                        /\ (i \notin raced' /\ \A b \in Admins : ~ Publishing(b, i)') =>
                                EntriesOf(snapshot', i) = RowOf(table', i)
      BY DEF EntriesInv
    <2>1. CASE i = id /\ do.pc = "publish"
      BY <1>1, <1>4, <1>10, <2>1 DEF RowOf
    <2>2. CASE i = id /\ do.pc = "remove"
      BY <1>1, <1>4, <1>10, <2>2 DEF RowOf
    <2>3. CASE i # id
      <3>1. i \in given \ unread /\ i \in CredIDs /\ EntriesOf(snapshot', i) = EntriesOf(snapshot, i)
        BY <1>1, <1>4, <2>3 DEF PlaneIInv, TypesInv
      <3>2. \A b \in Admins : (Upserting(admin[b]) /\ admin[b].id = i) => (Upserting(admin'[b]) /\ admin'[b].id = i)
        BY <1>2, <2>3 DEF id
      <3>3. \A b \in Admins : Publishing(b, i) => Publishing(b, i)'
        BY <1>8, <2>3
      <3> QED
        BY <1>1, <3>1, <3>2, <3>3 DEF PlaneIInv, EntriesInv
    <2> QED
      BY <1>3, <2>1, <2>2, <2>3
  <1> QED
    BY <1>4, <1>5, <1>6, <1>7, <1>9, <1>11 DEF PlaneIInv

LEMMA PutStep ==
    ASSUME PlaneIInv, NEW a \in Admins, PutSettings(a) PROVE PlaneIInv'
  <1>1. /\ admin[a].pc = "idle" /\ changes' \in 0 .. MaxChanges /\ writeMu = Nobody /\ writeMu' = a
        /\ UNCHANGED <<credentials, clients, unlisted, late, faults>>
    BY BeginBounds DEF PlaneIInv, PutSettings, SettingsUnlocked
  <1>2. DOMAIN admin' = Admins /\ admin'[a].pc = "list" /\ \A b \in Admins : b # a => admin'[b] = admin[b]
    BY Moved DEF PlaneIInv, PutSettings
  <1>3. settings' \in [Providers -> Settings]
    <2>1. PICK p \in Providers, s \in Accepted : settings' = [settings EXCEPT ![p] = s]
      BY DEF PutSettings
    <2> QED
      BY <2>1, PlaneAssumption DEF PlaneIInv, TypesInv
  <1>4. PlaneLockInv' /\ IsSnapshot(snapshot)' /\ ChangesInv' /\ EntriesInv'
    BY <1>1, <1>2, CredentialsStay
  <1>5. TypesInv' /\ HandlersInv'
    BY <1>1, <1>2, <1>3 DEF PlaneIInv, TypesInv, HandlersInv, credentials
  <1>6. SettingsLockInv'
    BY <1>1, <1>2, PlaneAssumption DEF PlaneIInv, SettingsLockInv
  <1>7. ClientsLive'
    BY <1>1, PlaneAssumption DEF ClientsLive
  <1> QED
    BY <1>4, <1>5, <1>6, <1>7 DEF PlaneIInv

LEMMA ListStep ==
    ASSUME PlaneIInv, NEW a \in Admins, ListSettings(a) PROVE PlaneIInv'
  <1>1. admin[a].pc = "list" /\ UNCHANGED <<credentials, settings, clients, late, changes>>
    BY DEF ListSettings
  <1>2. CASE Goto(a, [pc |-> "replace", rows |-> settings]) /\ UNCHANGED <<writeMu, unlisted, faults>>
    <2>1. /\ DOMAIN admin' = Admins /\ admin'[a].pc = "replace" /\ admin'[a].rows = settings
          /\ \A b \in Admins : b # a => admin'[b] = admin[b]
      BY <1>2, Moved DEF PlaneIInv
    <2>2. PlaneLockInv' /\ IsSnapshot(snapshot)' /\ ChangesInv' /\ EntriesInv'
      BY <1>1, <2>1, CredentialsStay
    <2>3. TypesInv' /\ HandlersInv'
      BY <1>1, <1>2, <2>1 DEF PlaneIInv, TypesInv, HandlersInv, credentials
    <2>4. SettingsLockInv' /\ ClientsLive'
      BY <1>1, <1>2, <2>1 DEF PlaneIInv, SettingsLockInv, ClientsLive
    <2> QED
      BY <2>2, <2>3, <2>4 DEF PlaneIInv
  <1>3. CASE Fault /\ writeMu' = Nobody /\ unlisted' = TRUE /\ Goto(a, Idle)
    <2>1. DOMAIN admin' = Admins /\ admin'[a].pc = "idle" /\ \A b \in Admins : b # a => admin'[b] = admin[b]
      BY <1>3, Moved DEF PlaneIInv, Idle
    <2>2. PlaneLockInv' /\ IsSnapshot(snapshot)' /\ ChangesInv' /\ EntriesInv'
      BY <1>1, <2>1, CredentialsStay
    <2>3. faults' \in 0 .. MaxFaults
      BY <1>3, FaultBounds DEF PlaneIInv
    <2>4. unlisted' \in BOOLEAN /\ unlisted'
      BY <1>3, Zenon
    <2>5. writeMu' = Nobody
      BY <1>3
    <2>6. TypesInv' /\ HandlersInv'
      BY <1>1, <2>1, <2>3, <2>4, <2>5 DEF PlaneIInv, TypesInv, HandlersInv, credentials
    <2>7. SettingsLockInv' /\ ClientsLive'
      BY <1>1, <2>1, <2>4, <2>5, PlaneAssumption DEF PlaneIInv, SettingsLockInv, ClientsLive
    <2> QED
      BY <2>2, <2>6, <2>7 DEF PlaneIInv
  <1> QED
    BY <1>2, <1>3 DEF ListSettings

(* The clients are replaced by the rows as they are, since nobody else     *)
(* holds providerWriteMu.                                                  *)
LEMMA ReplaceStep ==
    ASSUME PlaneIInv, NEW a \in Admins, ReplaceClients(a) PROVE PlaneIInv'
  <1>1. /\ admin[a].pc = "replace" /\ writeMu' = Nobody /\ UNCHANGED <<credentials, settings, late, faults, changes>>
        /\ clients' = Replaced(clients, admin[a].rows)
    BY DEF ReplaceClients
  <1>2. DOMAIN admin' = Admins /\ admin'[a].pc = "idle" /\ \A b \in Admins : b # a => admin'[b] = admin[b]
    BY Moved DEF PlaneIInv, ReplaceClients, Idle
  <1>3. PlaneLockInv' /\ IsSnapshot(snapshot)' /\ ChangesInv' /\ EntriesInv'
    BY <1>1, <1>2, CredentialsStay
  <1>4. clients' = Replaced(clients, settings)
    BY <1>1 DEF PlaneIInv, SettingsLockInv
  <1>5. unlisted' \in BOOLEAN
    BY Zenon DEF ReplaceClients
  <1>6. clients' \in [Providers -> Buildable \union {Nobody}]
    BY <1>4, PlaneAssumption DEF PlaneIInv, TypesInv, Replaced, Built
  <1>7. TypesInv' /\ HandlersInv'
    BY <1>1, <1>2, <1>5, <1>6 DEF PlaneIInv, TypesInv, HandlersInv, credentials
  <1>8. SettingsLockInv'
    BY <1>1, <1>2, PlaneAssumption DEF PlaneIInv, SettingsLockInv
  <1>9. ClientsLive'
    <2>1. \A p \in Providers : settings[p] \in Buildable => clients'[p] = settings[p]
      BY <1>4, PlaneAssumption DEF Replaced, Built
    <2> QED
      BY <1>1, <2>1 DEF ClientsLive
  <1> QED
    BY <1>3, <1>7, <1>8, <1>9 DEF PlaneIInv

LEMMA LoadStep == PlaneIInv /\ LoadTables => PlaneIInv'
  <1> SUFFICES ASSUME PlaneIInv, LoadTables PROVE PlaneIInv'
    OBVIOUS
  <1>1. DOMAIN admin' = Admins /\ \A a \in Admins : admin'[a].pc = "idle"
    BY DEF LoadTables, Idle
  <1>2. UNCHANGED <<table, given, settings, late, faults, changes>> /\ planeMu' = Nobody /\ writeMu' = Nobody
    BY DEF LoadTables
  <1>3. TypesInv'
    <2>1. unlisted' \in BOOLEAN
      BY Zenon DEF LoadTables
    <2>2. clients' \in [Providers -> Buildable \union {Nobody}]
      BY DEF LoadTables, Built
    <2> QED
      BY <1>1, <1>2, <2>1, <2>2 DEF PlaneIInv, TypesInv
  <1>4. HandlersInv'
    BY <1>1 DEF HandlersInv
  <1>5. PlaneLockInv' /\ SettingsLockInv'
    BY <1>1, <1>2, PlaneAssumption DEF PlaneLockInv, SettingsLockInv
  <1>6. IsSnapshot(snapshot') /\ \A id \in CredIDs : EntriesOf(snapshot', id) = RowOf(table, id)
    BY TableIs, BuiltHas DEF PlaneIInv, LoadTables
  <1>7. ChangesInv'
    BY <1>1 DEF ChangesInv, Removing, Upserting, Publishing
  <1>8. EntriesInv'
    BY <1>2, <1>3, <1>6 DEF EntriesInv, TypesInv, RowOf
  <1>9. ClientsLive'
    <2>1. \A p \in Providers : settings[p] \in Buildable => clients'[p] = settings[p]
      BY DEF LoadTables, Built
    <2> QED
      BY <1>2, <2>1 DEF ClientsLive
  <1> QED
    BY <1>3, <1>4, <1>5, <1>6, <1>7, <1>8, <1>9 DEF PlaneIInv

LEMMA ExpireStep == PlaneIInv /\ Expire => PlaneIInv'
  <1> SUFFICES ASSUME PlaneIInv, Expire PROVE PlaneIInv'
    OBVIOUS
  <1>1. UNCHANGED <<credentials, transport, admin, faults, changes>>
    BY DEF Expire
  <1>2. late' \in BOOLEAN
    BY Zenon DEF Expire
  <1>3. TypesInv' /\ HandlersInv'
    BY <1>1, <1>2 DEF PlaneIInv, TypesInv, HandlersInv, credentials, transport
  <1> QED
    BY <1>1, <1>3, CredentialsStay, SettingsStay DEF PlaneIInv

LEMMA PlaneIdles == PlaneIInv /\ UNCHANGED planeVars => PlaneIInv'
  <1> SUFFICES ASSUME PlaneIInv, UNCHANGED planeVars PROVE PlaneIInv'
    OBVIOUS
  <1>1. UNCHANGED <<credentials, transport, late, admin, faults, changes>>
    BY DEF planeVars
  <1>2. TypesInv' /\ HandlersInv'
    BY <1>1 DEF PlaneIInv, TypesInv, HandlersInv, credentials, transport
  <1> QED
    BY <1>1, <1>2, CredentialsStay, SettingsStay DEF PlaneIInv

LEMMA PlaneSteps == PlaneIInv /\ PlaneNext => PlaneIInv'
  <1> SUFFICES ASSUME PlaneIInv, PlaneNext PROVE PlaneIInv'
    OBVIOUS
  <1>1. ASSUME NEW a \in Admins, CredentialHandler(a) PROVE PlaneIInv'
    BY <1>1, CreateStep, UpdateStep, RereadStep, DeleteGetStep, DeleteStep, CloneStep, StoreStep
       DEF CredentialHandler
  <1>2. ASSUME NEW a \in Admins, SettingsHandler(a) PROVE PlaneIInv'
    BY <1>2, PutStep, ListStep, ReplaceStep DEF SettingsHandler
  <1> QED
    BY <1>1, <1>2, ExpireStep DEF PlaneNext

-----------------------------------------------------------------------------
(* Requests. *)

(* A named provider that allows the model has one config, so that every    *)
(* config of it does.                                                      *)
LEMMA NamedAllows ==
    ASSUME NEW policy \in Policies, NEW named, NEW m,
           Config(policy, named) \intersect Allowing(policy, m) # {}
    PROVE  Config(policy, named) # {} /\ Config(policy, named) \subseteq Allowing(policy, m)
  BY SelectionAssumption DEF Config, Allowing

(* Candidates are entries of the provider's bucket. *)
LEMMA CandidatesAre ==
    ASSUME PlaneIInv, NEW p \in Providers, NEW m
    PROVE  IsBucket(Candidates(p, m), p)
  <1> DEFINE bucket == snapshot[p]
             places == {k \in DOMAIN bucket : CheckValidity(bucket[k].cred) /\ CheckModel(bucket[k].cred, m)}
  <1>1. IsBucket(bucket, p)
    BY DEF PlaneIInv, IsSnapshot
  <1>2. Candidates(p, m) = Kept(bucket, places) /\ places \in SUBSET DOMAIN bucket
    BY DEF Candidates
  <1> HIDE DEF bucket, places
  <1> QED
    BY <1>1, <1>2, KeptBucket

(* Every provider of a policy is one of Providers. *)
LEMMA PolicyIs ==
    ASSUME NEW policy \in Policies
    PROVE  /\ policy \in Seq(ProviderConfig)
           /\ \A k \in DOMAIN policy : policy[k] \in ProviderConfig /\ Config(policy, policy[k].provider) # {}
           /\ \A p : Config(policy, p) # {} => p \in Providers
  <1>1. policy \in Seq(ProviderConfig) /\ \A k \in DOMAIN policy : policy[k] \in ProviderConfig
    BY SelectionAssumption
  <1> QED
    BY <1>1 DEF Config, ProviderConfig

LEMMA ReqMoved ==
    ASSUME DOMAIN req = Requests, NEW r \in Requests, NEW c, Step(r, c),
           \A q \in Requests : RequestInv(req[q]), RequestInv(c)
    PROVE  DOMAIN req' = Requests /\ \A q \in Requests : RequestInv(req'[q])
  BY DEF Step

LEMMA IdleHolds == RequestInv(NoRequest)
  BY DEF RequestInv, NoRequest

LEMMA AccessStep ==
    ASSUME NEW r \in Requests, Access(r), DOMAIN req = Requests, \A q \in Requests : RequestInv(req[q])
    PROVE  DOMAIN req' = Requests /\ \A q \in Requests : RequestInv(req'[q])
  <1>1. PICK policy \in Policies, m \in Models, named \in Providers \union {Nobody} :
            /\ Allowed(policy, named, m)
            /\ Step(r, [pc |-> "collect", policy |-> policy, model |-> m, named |-> named,
                        left |-> policy, viable |-> <<>>, from |-> Nobody, entry |-> Nobody])
    BY DEF Access
  <1> DEFINE c == [pc |-> "collect", policy |-> policy, model |-> m, named |-> named,
                   left |-> policy, viable |-> <<>>, from |-> Nobody, entry |-> Nobody]
  <1>2. named # Nobody => Config(policy, named) # {} /\ Config(policy, named) \subseteq Allowing(policy, m)
    BY <1>1, NamedAllows DEF Allowed
  <1>3. /\ policy \in Seq(ProviderConfig)
        /\ \A k \in DOMAIN policy : Config(policy, policy[k].provider) # {}
    BY PolicyIs
  <1>4. <<>> \in Seq(Viables) /\ DOMAIN <<>> = {}
    OBVIOUS
  <1>5. RequestInv(c)
    BY <1>2, <1>3, <1>4 DEF RequestInv, Running
  <1> QED
    BY <1>1, <1>5, ReqMoved

LEMMA ExplicitStep ==
    ASSUME PlaneIInv, NEW r \in Requests, CollectExplicit(r), DOMAIN req = Requests,
           \A q \in Requests : RequestInv(req[q])
    PROVE  DOMAIN req' = Requests /\ \A q \in Requests : RequestInv(req'[q])
  <1> DEFINE c == req[r]
             creds == Candidates(c.named, c.model)
             from == Viable(c.named, 1, creds, 0)
             d == [c EXCEPT !.pc = "pick", !.from = from]
  <1>1. c.pc = "collect" /\ c.named # Nobody /\ RequestInv(c)
    BY DEF CollectExplicit
  <1>2. CASE creds = <<>>
    <2>1. Step(r, NoRequest)
      BY <1>2 DEF CollectExplicit
    <2> QED
      BY <2>1, IdleHolds, ReqMoved
  <1>3. CASE creds # <<>>
    <2>1. Step(r, d)
      BY <1>3 DEF CollectExplicit
    <2>2. c.named \in Providers /\ Config(c.policy, c.named) # {}
      BY <1>1 DEF RequestInv
    <2>3. IsBucket(creds, c.named)
      BY <2>2, CandidatesAre
    <2>4. from.provider = c.named /\ from.creds = creds
      BY DEF Viable
    <2>5. ViableOf(c.policy, from)
      BY <1>3, <2>2, <2>3, <2>4 DEF ViableOf
    <2> HIDE DEF creds, from
    <2>6. RequestInv(d)
      BY <1>1, <2>4, <2>5 DEF RequestInv
    <2> QED
      BY <2>1, <2>6, ReqMoved
  <1> QED
    BY <1>2, <1>3

(* One more viable provider: the running total goes on. *)
LEMMA RunningGrows ==
    ASSUME NEW viable \in Seq(Viables), Running(viable), NEW p, NEW w \in Nat, NEW creds
    PROVE  Running(Append(viable, Viable(p, w, creds, Total(viable))))
  <1> DEFINE n == Len(viable)
             t == Total(viable)
             v == Viable(p, w, creds, t)
             next == Append(viable, v)
             upto(k) == next[k].upto
  <1>1. n \in Nat /\ DOMAIN viable = 1 .. n /\ DOMAIN next = 1 .. n + 1
    OBVIOUS
  <1>2. next[n + 1] = v /\ \A k \in 1 .. n : next[k] = viable[k]
    OBVIOUS
  <1>3. t \in Nat /\ t = IF n = 0 THEN 0 ELSE viable[n].upto
    <2>1. CASE n = 0
      <3>1. viable = <<>>
        BY <2>1
      <3> QED
        BY <2>1, <3>1 DEF Total
    <2>2. CASE n # 0
      <3>1. viable # <<>> /\ n \in DOMAIN viable
        BY <1>1, <2>2
      <3>2. t = viable[n].upto
        BY <3>1 DEF Total, Last
      <3> QED
        BY <2>2, <3>1, <3>2 DEF Running
    <2> QED
      BY <2>1, <2>2
  <1>4. v.weight = w /\ v.upto = t + w
    BY DEF Viable
  <1>5. \A k \in 1 .. n : /\ viable[k].weight \in Nat /\ viable[k].upto \in Nat
                          /\ viable[k].upto = viable[k].weight + (IF k = 1 THEN 0 ELSE viable[k - 1].upto)
                          /\ viable[k].upto <= t
    <2>1. \A k \in 1 .. n : /\ viable[k].weight \in Nat /\ viable[k].upto \in Nat
                            /\ viable[k].upto = viable[k].weight + (IF k = 1 THEN 0 ELSE viable[k - 1].upto)
      BY <1>1 DEF Running
    <2>2. ASSUME NEW k \in 1 .. n PROVE viable[k].upto <= t
      <3>1. n \in DOMAIN viable /\ k \in DOMAIN viable /\ k <= n /\ n # 0
        BY <1>1
      <3> QED
        BY <1>3, <3>1 DEF Running
    <2> QED
      BY <2>1, <2>2
  <1>6. \A j, k \in 1 .. n : j <= k => viable[j].upto <= viable[k].upto
    BY <1>1 DEF Running
  <1> HIDE DEF v, next, t, n
  <1>7. \A k \in DOMAIN next : next[k].weight \in Nat /\ next[k].upto \in Nat
    <2> SUFFICES ASSUME NEW k \in 1 .. n + 1 PROVE next[k].weight \in Nat /\ next[k].upto \in Nat
      BY <1>1
    <2>1. CASE k = n + 1
      BY <1>2, <1>3, <1>4, <2>1
    <2>2. CASE k # n + 1
      BY <1>1, <1>2, <1>5, <2>2
    <2> QED
      BY <2>1, <2>2
  <1>8. \A k \in DOMAIN next : next[k].upto = next[k].weight + (IF k = 1 THEN 0 ELSE next[k - 1].upto)
    <2> SUFFICES ASSUME NEW k \in 1 .. n + 1
                 PROVE  next[k].upto = next[k].weight + (IF k = 1 THEN 0 ELSE next[k - 1].upto)
      BY <1>1
    <2>1. CASE k = n + 1 /\ n = 0
      BY <1>2, <1>3, <1>4, <2>1
    <2>2. CASE k = n + 1 /\ n # 0
      <3>1. n \in 1 .. n /\ k # 1 /\ k - 1 = n
        BY <1>1, <2>2
      <3>2. next[k - 1].upto = t
        BY <1>2, <1>3, <2>2, <3>1
      <3>3. next[k].upto = t + w /\ next[k].weight = w
        BY <1>2, <1>4, <2>2
      <3> QED
        BY <1>3, <3>1, <3>2, <3>3
    <2>3. CASE k # n + 1
      <3>1. k \in 1 .. n /\ (k # 1 => k - 1 \in 1 .. n)
        BY <1>1, <2>3
      <3> QED
        BY <1>2, <1>5, <3>1
    <2> QED
      BY <2>1, <2>2, <2>3
  <1>9. ASSUME NEW j \in DOMAIN next, NEW k \in DOMAIN next, j <= k PROVE next[j].upto <= next[k].upto
    <2>1. j \in 1 .. n + 1 /\ k \in 1 .. n + 1
      BY <1>1
    <2>2. CASE k # n + 1
      <3>1. j \in 1 .. n /\ k \in 1 .. n
        BY <1>1, <1>9, <2>1, <2>2
      <3> QED
        BY <1>2, <1>6, <1>9, <3>1
    <2>3. CASE k = n + 1 /\ j # n + 1
      <3>1. j \in 1 .. n
        BY <1>1, <2>1, <2>3
      <3>2. next[j].upto \in Nat /\ next[j].upto <= t
        BY <1>2, <1>5, <3>1
      <3>3. next[k].upto = t + w
        BY <1>2, <1>4, <2>3
      <3> QED
        BY <1>3, <3>2, <3>3
    <2>4. CASE k = n + 1 /\ j = n + 1
      <3>1. next[k].upto \in Nat
        BY <1>7
      <3> QED
        BY <2>4, <3>1
    <2> QED
      BY <2>2, <2>3, <2>4
  <1> QED
    BY <1>7, <1>8, <1>9 DEF Running, next, v, t

LEMMA WeightedStep ==
    ASSUME PlaneIInv, NEW r \in Requests, CollectWeighted(r), DOMAIN req = Requests,
           \A q \in Requests : RequestInv(req[q])
    PROVE  DOMAIN req' = Requests /\ \A q \in Requests : RequestInv(req'[q])
  <1> DEFINE c == req[r]
             cfg == Head(c.left)
             creds == Candidates(cfg.provider, c.model)
             v == Viable(cfg.provider, cfg.weight, creds, Total(c.viable))
             more == IF creds = <<>> THEN c.viable ELSE Append(c.viable, v)
             d == [c EXCEPT !.left = Tail(@), !.viable = more]
  <1>1. c.pc = "collect" /\ c.named = Nobody /\ c.left # <<>> /\ RequestInv(c)
    BY DEF CollectWeighted
  <1>2. Step(r, d)
    BY DEF CollectWeighted
  <1>3. /\ c.left \in Seq(ProviderConfig) /\ c.viable \in Seq(Viables) /\ Running(c.viable)
        /\ \A k \in DOMAIN c.left : Config(c.policy, c.left[k].provider) # {}
        /\ \A k \in DOMAIN c.viable : ViableOf(c.policy, c.viable[k])
        /\ "left" \in DOMAIN c /\ "viable" \in DOMAIN c
    BY <1>1 DEF RequestInv
  <1>4. cfg \in ProviderConfig /\ Config(c.policy, cfg.provider) # {}
    <2>1. 1 \in DOMAIN c.left /\ cfg = c.left[1]
      BY <1>1, <1>3
    <2> QED
      BY <1>3, <2>1
  <1>5. IsBucket(creds, cfg.provider) /\ cfg.provider \in Providers /\ cfg.weight \in Nat
    BY <1>4, CandidatesAre DEF ProviderConfig
  <1>6. /\ Tail(c.left) \in Seq(ProviderConfig)
        /\ \A k \in DOMAIN Tail(c.left) : Config(c.policy, Tail(c.left)[k].provider) # {}
    <2>1. /\ Tail(c.left) \in Seq(ProviderConfig)
          /\ \A k \in DOMAIN Tail(c.left) : k + 1 \in DOMAIN c.left /\ Tail(c.left)[k] = c.left[k + 1]
      BY <1>1, <1>3
    <2> QED
      BY <1>3, <2>1
  <1>7. more \in Seq(Viables) /\ Running(more) /\ \A k \in DOMAIN more : ViableOf(c.policy, more[k])
    <2>1. CASE creds = <<>>
      BY <1>3, <2>1
    <2>2. CASE creds # <<>>
      <3>1. Total(c.viable) \in Nat
        <4>1. CASE c.viable = <<>>
          BY <4>1 DEF Total
        <4>2. CASE c.viable # <<>>
          <5>1. Len(c.viable) \in DOMAIN c.viable
            BY <1>3, <4>2
          <5> QED
            BY <1>3, <4>2, <5>1 DEF Total, Last, Running
        <4> QED
          BY <4>1, <4>2
      <3>2. v \in Viables
        <4>1. creds \in Seq(Entry) /\ Total(c.viable) + cfg.weight \in Nat
          BY <1>5, <3>1 DEF IsBucket
        <4> HIDE DEF creds
        <4> QED
          BY <1>5, <4>1 DEF Viable, Viables
      <3>3. ViableOf(c.policy, v)
        <4>1. v.provider = cfg.provider /\ v.creds = creds
          BY DEF Viable
        <4> HIDE DEF v, creds
        <4> QED
          BY <1>4, <1>5, <2>2, <4>1 DEF ViableOf
      <3>4. Running(Append(c.viable, v))
        BY <1>3, <1>5, RunningGrows
      <3> HIDE DEF v
      <3>5. more = Append(c.viable, v)
        BY <2>2
      <3>6. /\ Append(c.viable, v) \in Seq(Viables)
            /\ \A k \in DOMAIN Append(c.viable, v) :
                    Append(c.viable, v)[k] = v \/ (k \in DOMAIN c.viable /\ Append(c.viable, v)[k] = c.viable[k])
        BY <1>3, <3>2
      <3> QED
        BY <1>3, <3>3, <3>4, <3>5, <3>6
    <2> QED
      BY <2>1, <2>2
  <1> HIDE DEF more, c
  <1>8. /\ DOMAIN d = DOMAIN c /\ d.pc = c.pc /\ d.policy = c.policy /\ d.model = c.model /\ d.named = c.named
        /\ d.left = Tail(c.left) /\ d.viable = more /\ d.from = c.from /\ d.entry = c.entry
    BY <1>1, <1>3 DEF RequestInv
  <1> HIDE DEF d
  <1>9. RequestInv(d)
    BY <1>1, <1>6, <1>7, <1>8 DEF RequestInv
  <1> QED
    BY <1>2, <1>9, ReqMoved DEF c

(* pickProvider draws one of the viable providers, and one of weight zero  *)
(* only when all have weight zero: the total up to it is that before it,   *)
(* so that the one before it would have been drawn.                        *)
LEMMA DrawRespects ==
    ASSUME NEW viable \in Seq(Viables), viable # <<>>, Running(viable), NEW target \in Targets(viable)
    PROVE  /\ PickProvider(viable, target) \in DOMAIN viable
           /\ viable[PickProvider(viable, target)].weight = 0 => \A k \in DOMAIN viable : viable[k].weight = 0
  <1> DEFINE n == Len(viable)
             t == Total(viable)
             hit == {k \in DOMAIN viable : target - viable[k].upto < 0}
             w(k) == viable[k].weight
             u(k) == viable[k].upto
  <1>1. n \in Nat \ {0} /\ DOMAIN viable = 1 .. n
    OBVIOUS
  <1>2. t = u(n)
    BY DEF Total, Last
  <1>3. /\ \A k \in 1 .. n : w(k) \in Nat /\ u(k) \in Nat
        /\ \A k \in 1 .. n : u(k) = w(k) + (IF k = 1 THEN 0 ELSE u(k - 1))
        /\ \A j, k \in 1 .. n : j <= k => u(j) <= u(k)
    BY <1>1 DEF Running
  <1>4. t \in Nat /\ target = IF t = 0 THEN 0 ELSE target
    BY <1>1, <1>2, <1>3 DEF Targets
  <1>5. t # 0 => target \in 0 .. t - 1
    BY DEF Targets
  <1>6. PickProvider(viable, target) = IF hit = {} THEN n ELSE Min(hit)
    BY DEF PickProvider
  <1>7. \A k : k \in hit <=> k \in 1 .. n /\ target < u(k)
    <2>1. target \in Nat
      BY <1>4, <1>5
    <2> QED
      BY <1>1, <1>3, <2>1
  <1>8. hit # {} => Min(hit) \in hit /\ \A y \in hit : Min(hit) <= y
    <2>1. hit \in SUBSET Nat
      BY <1>1
    <2> QED
      BY <2>1, NatMin
  <1> HIDE DEF hit, t, n, u, w
  <1>9. CASE t = 0
    <2>1. ASSUME NEW k \in 1 .. n PROVE w(k) = 0
      <3>1. k <= n /\ n \in 1 .. n
        BY <1>1
      <3>2. u(k) \in Nat /\ u(k) <= 0
        BY <1>2, <1>3, <1>9, <3>1
      <3>3. w(k) \in Nat /\ u(k) = w(k) + (IF k = 1 THEN 0 ELSE u(k - 1))
        BY <1>3
      <3>4. k # 1 => u(k - 1) \in Nat
        BY <1>1, <1>3
      <3> QED
        BY <3>2, <3>3, <3>4
    <2>2. hit = {}
      <3> SUFFICES ASSUME NEW k \in hit PROVE FALSE
        OBVIOUS
      <3>1. k \in 1 .. n /\ target < u(k) /\ target = 0
        BY <1>4, <1>7, <1>9
      <3>2. k <= n /\ n \in 1 .. n /\ u(k) \in Nat
        BY <1>1, <1>3, <3>1
      <3>3. u(k) <= 0
        BY <1>2, <1>3, <1>9, <3>1, <3>2
      <3> QED
        BY <3>1, <3>2, <3>3
    <2> QED
      BY <1>1, <1>6, <2>1, <2>2 DEF w
  <1>10. CASE t # 0
    <2>1. n \in hit
      BY <1>1, <1>2, <1>4, <1>5, <1>7, <1>10
    <2> DEFINE m == Min(hit)
    <2>2. m \in 1 .. n /\ target < u(m) /\ \A y \in hit : m <= y
      BY <1>7, <1>8, <2>1
    <2> HIDE DEF m
    <2>3. w(m) # 0
      <3> SUFFICES ASSUME w(m) = 0 PROVE FALSE
        OBVIOUS
      <3>1. target \in Nat
        BY <1>4, <1>5, <1>10
      <3>2. CASE m = 1
        <4>1. u(m) = 0
          BY <1>3, <2>2, <3>2
        <4> QED
          BY <2>2, <3>1, <4>1
      <3>3. CASE m # 1
        <4>1. m - 1 \in 1 .. n /\ ~ (m <= m - 1)
          BY <1>1, <2>2, <3>3
        <4>2. u(m) = w(m) + u(m - 1) /\ u(m - 1) \in Nat
          BY <1>3, <2>2, <3>3, <4>1
        <4>3. u(m) = u(m - 1)
          BY <4>2
        <4>4. m - 1 \in hit
          BY <1>7, <2>2, <4>1, <4>3
        <4> QED
          BY <2>2, <4>1, <4>4
      <3> QED
        BY <3>2, <3>3
    <2>4. PickProvider(viable, target) = m
      BY <1>6, <2>1 DEF m
    <2> QED
      BY <1>1, <2>2, <2>3, <2>4 DEF w
  <1> QED
    BY <1>9, <1>10

LEMMA DrawStep ==
    ASSUME NEW r \in Requests, DrawProvider(r), DOMAIN req = Requests, \A q \in Requests : RequestInv(req[q])
    PROVE  DOMAIN req' = Requests /\ \A q \in Requests : RequestInv(req'[q])
  <1> DEFINE c == req[r]
  <1>1. c.pc = "collect" /\ c.named = Nobody /\ c.viable # <<>> /\ RequestInv(c)
    BY DEF DrawProvider, Collected
  <1>2. PICK target \in Targets(c.viable) :
            Step(r, [c EXCEPT !.pc = "pick", !.from = c.viable[PickProvider(c.viable, target)]])
    BY DEF DrawProvider
  <1> DEFINE from == c.viable[PickProvider(c.viable, target)]
             d == [c EXCEPT !.pc = "pick", !.from = from]
  <1>3. /\ c.viable \in Seq(Viables) /\ Running(c.viable)
        /\ \A k \in DOMAIN c.viable : ViableOf(c.policy, c.viable[k])
        /\ "pc" \in DOMAIN c /\ "from" \in DOMAIN c
    BY <1>1 DEF RequestInv
  <1>4. ViableOf(c.policy, from) /\ (from.weight = 0 => \A k \in DOMAIN c.viable : c.viable[k].weight = 0)
    BY <1>1, <1>3, DrawRespects
  <1> HIDE DEF from, c
  <1>5. /\ DOMAIN d = DOMAIN c /\ d.pc = "pick" /\ d.policy = c.policy /\ d.model = c.model /\ d.named = c.named
        /\ d.left = c.left /\ d.viable = c.viable /\ d.from = from /\ d.entry = c.entry
    BY <1>1, <1>3 DEF RequestInv
  <1>6. Step(r, d)
    BY <1>2 DEF c, from
  <1> HIDE DEF d
  <1>7. RequestInv(d)
    BY <1>1, <1>4, <1>5 DEF RequestInv
  <1> QED
    BY <1>6, <1>7, ReqMoved

-----------------------------------------------------------------------------
(* The round robin. *)

LEMMA Quotient ==
    ASSUME NEW x \in Nat, NEW n \in Nat \ {0}
    PROVE  x % n \in 0 .. n - 1 /\ x \div n \in Nat /\ x = n * (x \div n) + (x % n)
  OBVIOUS

LEMMA Multiple ==
    ASSUME NEW q \in Int, NEW p \in Int, NEW n \in Nat \ {0}, p < q
    PROVE  n * p + n <= n * q
  OBVIOUS

(* Numbers that differ by less than n differ modulo n. *)
LEMMA TurnsDiffer ==
    ASSUME NEW x \in Nat, NEW y \in Nat, NEW n \in Nat \ {0}, x < y, y < x + n
    PROVE  x % n # y % n
  <1> SUFFICES ASSUME x % n = y % n PROVE FALSE
    OBVIOUS
  <1> DEFINE p == x \div n
             q == y \div n
             m == x % n
             np == n * p
             nq == n * q
  <1>1. /\ p \in Nat /\ q \in Nat /\ m \in Nat /\ np \in Int /\ nq \in Int
        /\ x = np + m /\ y = nq + m
    <2>1. x % n \in 0 .. n - 1 /\ x \div n \in Nat /\ x = n * (x \div n) + (x % n)
      BY Quotient
    <2>2. y \div n \in Nat /\ y = n * (y \div n) + (y % n)
      BY Quotient
    <2>3. p \in Nat /\ q \in Nat /\ m \in Nat /\ x = np + m /\ y = nq + m
      BY <2>1, <2>2
    <2> HIDE DEF p, q
    <2>4. np \in Int /\ nq \in Int
      BY <2>3
    <2> QED
      BY <2>3, <2>4
  <1>2. p < q => np + n <= nq
    BY <1>1, Multiple
  <1>3. q < p => nq + n <= np
    BY <1>1, Multiple
  <1>4. p = q => np = nq
    OBVIOUS
  <1>5. p < q \/ q < p \/ p = q
    BY <1>1
  <1> HIDE DEF p, q, m, np, nq
  <1> QED
    BY <1>1, <1>2, <1>3, <1>4, <1>5

(* A pick more: the picks are still those of the last turns. *)
LEMMA TurnsGoOn ==
    ASSUME NEW rot, NEW cursor \in Nat, Turns(rot, cursor), NEW p, NEW creds, IsBucket(creds, p), creds # <<>>,
           NEW id, id = creds[1 + ((cursor + 1) % Len(creds))].id,
           NEW next, next.creds = creds,
           next.picked = IF rot.creds # creds THEN <<id>>
                         ELSE Append(IF Len(rot.picked) < Len(creds) THEN rot.picked ELSE Tail(rot.picked), id)
    PROVE  Turns(next, cursor + 1)
  <1> DEFINE n == Len(creds)
             old == rot.picked
             L == Len(old)
             new == next.picked
             at(x) == creds[1 + (x % n)].id
  <1>1. creds \in Seq(Entry) /\ n \in Nat \ {0} /\ DOMAIN creds = 1 .. n
    BY DEF IsBucket
  <1>2. \A j, k \in DOMAIN creds : creds[j].id = creds[k].id => j = k
    BY DEF IsBucket
  <1>3. id \in CredIDs
    <2> HIDE DEF n
    <2>1. (cursor + 1) % n \in 0 .. n - 1
      <3> DEFINE x == cursor + 1
      <3>1. x \in Nat
        OBVIOUS
      <3> HIDE DEF x
      <3>2. x % n \in 0 .. n - 1
        BY <1>1, <3>1, Quotient
      <3> QED
        BY <3>2 DEF x
    <2>2. 1 + ((cursor + 1) % n) \in DOMAIN creds
      BY <1>1, <2>1
    <2>3. creds[1 + ((cursor + 1) % n)] \in Entry
      BY <1>1, <2>2
    <2> QED
      BY <2>3 DEF Entry, n
  <1>4. /\ old \in Seq(CredIDs) /\ L \in Nat /\ DOMAIN old = 1 .. L /\ L <= cursor
        /\ rot.creds = creds => L <= n /\ \A j \in 1 .. L : old[j] = at(cursor - L + j)
    <2>1. old \in Seq(CredIDs) /\ L <= cursor /\ L <= Len(rot.creds)
      BY DEF Turns
    <2>2. L \in Nat /\ DOMAIN old = 1 .. L
      BY <2>1
    <2>3. \A j \in DOMAIN old : old[j] = rot.creds[1 + ((cursor - L + j) % Len(rot.creds))].id
      BY DEF Turns
    <2> HIDE DEF old, L
    <2> QED
      BY <2>1, <2>2, <2>3
  <1>5. id = at(cursor + 1)
    OBVIOUS
  <1> HIDE DEF at, n, old, L, new
  <1>6. /\ new \in Seq(CredIDs) /\ Len(new) <= n /\ Len(new) <= cursor + 1
        /\ DOMAIN new = 1 .. Len(new)
        /\ \A j \in 1 .. Len(new) : new[j] = at((cursor + 1) - Len(new) + j)
    <2>1. CASE rot.creds # creds
      <3>1. new = <<id>>
        BY <2>1 DEF new
      <3>2. new \in Seq(CredIDs) /\ Len(new) = 1 /\ DOMAIN new = 1 .. Len(new) /\ new[1] = id
        BY <1>3, <3>1
      <3>3. (cursor + 1) - 1 + 1 = cursor + 1 /\ 1 <= n /\ 1 <= cursor + 1
        BY <1>1
      <3>4. ASSUME NEW j \in 1 .. Len(new) PROVE new[j] = at((cursor + 1) - Len(new) + j)
        <4>1. j = 1
          BY <3>2
        <4> QED
          BY <1>5, <3>2, <3>3, <4>1
      <3> QED
        BY <3>2, <3>3, <3>4
    <2>2. CASE rot.creds = creds /\ L < n
      <3>1. new = Append(old, id)
        BY <2>2 DEF new, L, old, n
      <3>2. /\ new \in Seq(CredIDs) /\ Len(new) = L + 1 /\ DOMAIN new = 1 .. Len(new) /\ new[L + 1] = id
            /\ \A j \in 1 .. L : new[j] = old[j]
        BY <1>3, <1>4, <3>1 DEF L
      <3>3. ASSUME NEW j \in 1 .. Len(new) PROVE new[j] = at((cursor + 1) - Len(new) + j)
        <4>1. CASE j = L + 1
          <5>1. (cursor + 1) - Len(new) + j = cursor + 1
            BY <1>4, <3>2, <4>1
          <5> QED
            BY <1>5, <3>2, <4>1, <5>1
        <4>2. CASE j # L + 1
          <5>1. j \in 1 .. L /\ (cursor + 1) - Len(new) + j = cursor - L + j
            <6>1. Len(new) = L + 1 /\ L \in Nat /\ j \in 1 .. L + 1 /\ cursor \in Nat
              BY <1>4, <3>2
            <6> QED
              BY <4>2, <6>1
          <5> QED
            BY <1>4, <2>2, <3>2, <5>1
        <4> QED
          BY <4>1, <4>2
      <3>4. L + 1 <= n /\ L + 1 <= cursor + 1
        BY <1>1, <1>4, <2>2
      <3> QED
        BY <3>2, <3>3, <3>4
    <2>3. CASE rot.creds = creds /\ ~ (L < n)
      <3>1. new = Append(Tail(old), id)
        BY <2>3 DEF new, L, old, n
      <3>2. L = n
        BY <1>1, <1>4, <2>3
      <3>3. old # <<>>
        BY <1>1, <3>2 DEF L
      <3>4. Tail(old) \in Seq(CredIDs) /\ Len(Tail(old)) = L - 1 /\ \A j \in 1 .. L - 1 : Tail(old)[j] = old[j + 1]
        BY <1>4, <3>3 DEF L
      <3>5. /\ new \in Seq(CredIDs) /\ Len(new) = L /\ DOMAIN new = 1 .. Len(new) /\ new[L] = id
            /\ \A j \in 1 .. L - 1 : new[j] = old[j + 1]
        BY <1>1, <1>3, <1>4, <3>1, <3>2, <3>4
      <3>6. ASSUME NEW j \in 1 .. Len(new) PROVE new[j] = at((cursor + 1) - Len(new) + j)
        <4>1. CASE j = L
          <5>1. (cursor + 1) - Len(new) + j = cursor + 1
            BY <1>4, <3>5, <4>1
          <5> QED
            BY <1>5, <3>5, <4>1, <5>1
        <4>2. CASE j # L
          <5>1. j \in 1 .. L - 1 /\ j + 1 \in 1 .. L /\ (cursor + 1) - Len(new) + j = cursor - L + (j + 1)
            <6>1. Len(new) = L /\ L \in Nat /\ j \in 1 .. L /\ cursor \in Nat
              BY <1>4, <3>5
            <6> QED
              BY <4>2, <6>1
          <5> QED
            BY <1>4, <2>3, <3>5, <5>1
        <4> QED
          BY <4>1, <4>2
      <3>7. L <= n /\ L <= cursor + 1
        BY <1>1, <1>4, <3>2
      <3> QED
        BY <3>5, <3>6, <3>7
    <2> QED
      BY <2>1, <2>2, <2>3
  <1> DEFINE t == cursor + 1
  <1>7. \A j \in DOMAIN next.picked :
            next.picked[j] = next.creds[1 + ((t - Len(next.picked) + j) % Len(next.creds))].id
    BY <1>6 DEF at, new, n
  <1>8. /\ next.creds \in Seq(Entry) /\ next.picked \in Seq(CredIDs)
        /\ \A j, k \in DOMAIN next.creds : next.creds[j].id = next.creds[k].id => j = k
        /\ Len(next.picked) <= Len(next.creds) /\ Len(next.picked) <= t
    BY <1>1, <1>2, <1>6 DEF new, n
  <1> HIDE DEF t
  <1>9. Turns(next, t)
    BY <1>7, <1>8 DEF Turns
  <1> QED
    BY <1>9 DEF t

(* The picks of the last n turns at most are of different candidates. *)
LEMMA TurnsInjective ==
    ASSUME NEW rot, NEW cursor \in Nat, Turns(rot, cursor)
    PROVE  IsInjective(rot.picked)
  <1> DEFINE n == Len(rot.creds)
             L == Len(rot.picked)
             turn(j) == cursor - L + j
  <1>1. /\ n \in Nat /\ DOMAIN rot.creds = 1 .. n /\ L \in Nat /\ DOMAIN rot.picked = 1 .. L
        /\ L <= n /\ L <= cursor
    BY DEF Turns
  <1>2. \A j, k \in 1 .. n : rot.creds[j].id = rot.creds[k].id => j = k
    BY <1>1 DEF Turns
  <1>3. \A j \in 1 .. L : rot.picked[j] = rot.creds[1 + (turn(j) % n)].id
    BY <1>1 DEF Turns
  <1> HIDE DEF n, L
  <1>4. ASSUME NEW j \in 1 .. L, NEW k \in 1 .. L, j < k PROVE rot.picked[j] # rot.picked[k]
    <2>1. turn(j) \in Nat /\ turn(k) \in Nat /\ turn(j) < turn(k) /\ turn(k) < turn(j) + n /\ n \in Nat \ {0}
      BY <1>1, <1>4
    <2> HIDE DEF turn
    <2>2. turn(j) % n # turn(k) % n
      BY <2>1, TurnsDiffer
    <2>3. turn(j) % n \in 0 .. n - 1 /\ turn(k) % n \in 0 .. n - 1
      BY <2>1, Quotient
    <2> DEFINE a == turn(j) % n
               b == turn(k) % n
    <2> HIDE DEF a, b
    <2>4. 1 + a \in 1 .. n /\ 1 + b \in 1 .. n /\ 1 + a # 1 + b
      BY <2>1, <2>2, <2>3 DEF a, b
    <2>5. rot.creds[1 + a].id # rot.creds[1 + b].id
      BY <1>2, <2>4
    <2> QED
      BY <1>3, <2>5 DEF a, b
  <1>5. ASSUME NEW j \in 1 .. L, NEW k \in 1 .. L, rot.picked[j] = rot.picked[k] PROVE j = k
    <2>1. j < k \/ k < j \/ j = k
      BY <1>1
    <2> QED
      BY <1>4, <1>5, <2>1
  <1> QED
    BY <1>1, <1>5 DEF IsInjective, L

LEMMA PickStep ==
    ASSUME IInv, NEW r \in Requests, PickCredential(r)
    PROVE  /\ DOMAIN req' = Requests /\ \A q \in Requests : RequestInv(req'[q])
           /\ DOMAIN cursors' = Keys /\ \A k \in Keys : cursors'[k] \in 0 .. MaxPicks
           /\ DOMAIN rotation' = Keys /\ \A k \in Keys : Turns(rotation'[k], cursors'[k])
  <1> DEFINE c == req[r]
             creds == c.from.creds
             n == Len(creds)
             key == <<c.from.provider, c.model>>
             turn == cursors[key] + 1
             place == IF n = 1 THEN 1 ELSE 1 + (turn % n)
             chosen == creds[place]
             d == [c EXCEPT !.pc = "chosen", !.entry = chosen]
  <1>1. c.pc = "pick" /\ RequestInv(c) /\ cursors[key] < MaxPicks /\ Step(r, d)
    BY DEF PickCredential, Advanced, IInv
  <1>2. ViableOf(c.policy, c.from) /\ c.model \in Models /\ "pc" \in DOMAIN c /\ "entry" \in DOMAIN c
    BY <1>1 DEF RequestInv
  <1>3. /\ key \in Keys /\ IsBucket(creds, c.from.provider) /\ creds # <<>>
        /\ creds \in Seq(Entry) /\ DOMAIN creds = 1 .. n /\ n \in Nat \ {0}
    BY <1>2 DEF ViableOf, Keys, IsBucket
  <1>4. cursors[key] \in Nat /\ turn \in 0 .. MaxPicks /\ turn \in Nat
    <2>1. cursors[key] \in 0 .. MaxPicks /\ cursors[key] < MaxPicks /\ MaxPicks \in Nat
      BY <1>1, <1>3, SelectionAssumption DEF IInv
    <2> QED
      BY <2>1
  <1>5. place \in DOMAIN creds
    <2>1. turn % n \in 0 .. n - 1
      BY <1>3, <1>4, Quotient
    <2> QED
      BY <1>3, <2>1
  <1>6. Home[chosen.id] = c.from.provider
    BY <1>3, <1>5 DEF IsBucket
  <1>7. DOMAIN req' = Requests /\ \A q \in Requests : RequestInv(req'[q])
    <2> HIDE DEF c, chosen
    <2>1. /\ DOMAIN d = DOMAIN c /\ d.pc = "chosen" /\ d.policy = c.policy /\ d.model = c.model
          /\ d.named = c.named /\ d.left = c.left /\ d.viable = c.viable /\ d.from = c.from /\ d.entry = chosen
      BY <1>1, <1>2 DEF RequestInv
    <2> HIDE DEF d
    <2>2. RequestInv(d)
      BY <1>1, <1>6, <2>1 DEF RequestInv
    <2> QED
      BY <1>1, <2>2, ReqMoved DEF IInv
  <1>8. /\ DOMAIN cursors = Keys /\ \A k \in Keys : cursors[k] \in 0 .. MaxPicks
        /\ DOMAIN rotation = Keys /\ \A k \in Keys : Turns(rotation[k], cursors[k])
    BY DEF IInv
  <1>9. CASE n = 1
    <2>1. cursors' = cursors /\ rotation' = rotation
      BY <1>9 DEF PickCredential
    <2> QED
      BY <1>7, <1>8, <2>1
  <1>10. CASE n # 1
    <2> DEFINE rot == rotation[key]
               next == [creds |-> creds,
                        picked |-> IF rot.creds # creds THEN <<chosen.id>>
                                   ELSE Append(IF Len(rot.picked) < n THEN rot.picked
                                               ELSE Tail(rot.picked), chosen.id)]
    <2>1. cursors' = [cursors EXCEPT ![key] = turn] /\ rotation' = [rotation EXCEPT ![key] = next]
      BY <1>10 DEF PickCredential, Advanced
    <2>2. Turns(rot, cursors[key])
      BY <1>3, <1>8
    <2>3. /\ next.creds = creds
          /\ next.picked = IF rot.creds # creds THEN <<chosen.id>>
                           ELSE Append(IF Len(rot.picked) < n THEN rot.picked
                                       ELSE Tail(rot.picked), chosen.id)
      OBVIOUS
    <2>4. chosen.id = creds[1 + ((cursors[key] + 1) % n)].id
      BY <1>10
    <2> HIDE DEF next, rot, key, chosen, creds
    <2>5. Turns(next, turn)
      BY <1>3, <1>4, <2>2, <2>3, <2>4, TurnsGoOn
    <2> HIDE DEF turn
    <2>6. /\ DOMAIN cursors' = Keys /\ cursors'[key] = turn /\ \A k \in Keys : k # key => cursors'[k] = cursors[k]
          /\ DOMAIN rotation' = Keys /\ rotation'[key] = next
          /\ \A k \in Keys : k # key => rotation'[k] = rotation[k]
      BY <1>3, <1>8, <2>1
    <2> QED
      BY <1>4, <1>7, <1>8, <2>5, <2>6
  <1> QED
    BY <1>9, <1>10

LEMMA RestHolds == Turns(NoRotation, 0)
  <1>1. /\ NoRotation.creds = <<>> /\ NoRotation.picked = <<>>
        /\ <<>> \in Seq(Entry) /\ <<>> \in Seq(CredIDs) /\ DOMAIN <<>> = {} /\ Len(<<>>) = 0
    BY DEF NoRotation
  <1> QED
    BY <1>1 DEF Turns

-----------------------------------------------------------------------------
(* The invariant holds of every behaviour. *)

LEMMA InitInv == Init => IInv
  <1> SUFFICES ASSUME Init PROVE IInv
    OBVIOUS
  <1>1. PlaneIInv
    BY PlaneStarts DEF Init
  <1>2. DOMAIN req = Requests /\ \A r \in Requests : RequestInv(req[r])
    BY IdleHolds DEF Init
  <1>3. DOMAIN cursors = Keys /\ \A key \in Keys : cursors[key] \in 0 .. MaxPicks
    BY SelectionAssumption DEF Init
  <1>4. DOMAIN rotation = Keys /\ \A key \in Keys : Turns(rotation[key], cursors[key])
    BY RestHolds DEF Init
  <1> QED
    BY <1>1, <1>2, <1>3, <1>4 DEF IInv

LEMMA RequestSteps ==
    ASSUME IInv, NEW r \in Requests, Request(r) PROVE IInv'
  <1>1. UNCHANGED planeVars
    BY DEF Request, Access, CollectExplicit, CollectWeighted, NoneViable, DrawProvider, PickCredential, Dial
  <1>2. PlaneIInv'
    BY <1>1, PlaneIdles DEF IInv
  <1>3. /\ PlaneIInv /\ DOMAIN req = Requests /\ \A q \in Requests : RequestInv(req[q])
        /\ DOMAIN cursors = Keys /\ \A key \in Keys : cursors[key] \in 0 .. MaxPicks
        /\ DOMAIN rotation = Keys /\ \A key \in Keys : Turns(rotation[key], cursors[key])
    BY DEF IInv
  <1>4. ASSUME UNCHANGED <<cursors, rotation>>,
               DOMAIN req' = Requests /\ \A q \in Requests : RequestInv(req'[q])
        PROVE  IInv'
    BY <1>2, <1>3, <1>4 DEF IInv
  <1>5. CASE Access(r)
    BY <1>3, <1>4, <1>5, AccessStep DEF Access
  <1>6. CASE CollectExplicit(r)
    BY <1>3, <1>4, <1>6, ExplicitStep DEF CollectExplicit
  <1>7. CASE CollectWeighted(r)
    BY <1>3, <1>4, <1>7, WeightedStep DEF CollectWeighted
  <1>8. CASE NoneViable(r)
    BY <1>3, <1>4, <1>8, ReqMoved, IdleHolds DEF NoneViable
  <1>9. CASE DrawProvider(r)
    BY <1>3, <1>4, <1>9, DrawStep DEF DrawProvider
  <1>10. CASE PickCredential(r)
    BY <1>2, <1>10, PickStep DEF IInv
  <1>11. CASE Dial(r)
    BY <1>3, <1>4, <1>11, ReqMoved, IdleHolds DEF Dial
  <1> QED
    BY <1>5, <1>6, <1>7, <1>8, <1>9, <1>10, <1>11 DEF Request

LEMMA RestartStep == IInv /\ Restart => IInv'
  <1> SUFFICES ASSUME IInv, Restart PROVE IInv'
    OBVIOUS
  <1>1. PlaneIInv'
    BY LoadStep DEF IInv, Restart
  <1>2. DOMAIN req' = Requests /\ \A r \in Requests : RequestInv(req'[r])
    BY IdleHolds DEF Restart
  <1>3. DOMAIN cursors' = Keys /\ \A key \in Keys : cursors'[key] \in 0 .. MaxPicks
    BY SelectionAssumption DEF Restart
  <1>4. DOMAIN rotation' = Keys /\ \A key \in Keys : Turns(rotation'[key], cursors'[key])
    BY RestHolds DEF Restart
  <1> QED
    BY <1>1, <1>2, <1>3, <1>4 DEF IInv

LEMMA NextInv == IInv /\ [Next]_vars => IInv'
  <1> SUFFICES ASSUME IInv, [Next]_vars PROVE IInv'
    OBVIOUS
  <1>1. CASE PlaneNext /\ UNCHANGED <<req, cursors, rotation>>
    BY <1>1, PlaneSteps DEF IInv
  <1>2. ASSUME NEW r \in Requests, Request(r) PROVE IInv'
    BY <1>2, RequestSteps
  <1>3. CASE Restart
    BY <1>3, RestartStep
  <1>4. CASE UNCHANGED vars
    BY <1>4, PlaneIdles DEF vars, IInv
  <1> QED
    BY <1>1, <1>2, <1>3, <1>4 DEF Next

LEMMA Inductive == Spec => []IInv
  BY InitInv, NextInv, PTL DEF Spec

-----------------------------------------------------------------------------
(* A request is routed to a provider of its key's policy, or to the one    *)
(* the client named, which then allows the model, with a credential of     *)
(* that very provider, whatever the admin handlers change between the      *)
(* loads of the snapshot, the draw and the pick.                           *)
THEOREM RoutingIsSound == Spec => []RoutingInv
  <1>1. ASSUME IInv PROVE PlaneInv
    <2>1. TypesInv /\ IsSnapshot(snapshot)
      BY <1>1 DEF IInv, PlaneIInv
    <2>2. ASSUME NEW p \in Providers
          PROVE  /\ \A k \in DOMAIN snapshot[p] : snapshot[p][k] \in Entry /\ Home[snapshot[p][k].id] = p
                 /\ \A j, k \in DOMAIN snapshot[p] : snapshot[p][j].id = snapshot[p][k].id => j = k
      <3>1. IsBucket(snapshot[p], p)
        BY <2>1 DEF IsSnapshot
      <3> QED
        BY <3>1 DEF IsBucket
    <2> QED
      BY <2>1, <2>2 DEF PlaneInv, TypesInv
  <1>2. ASSUME IInv, NEW r \in Requests, Routed(r)
        PROVE  /\ Config(req[r].policy, req[r].from.provider) # {}
               /\ req[r].named # Nobody =>
                    /\ req[r].from.provider = req[r].named
                    /\ Config(req[r].policy, req[r].named) \subseteq Allowing(req[r].policy, req[r].model)
               /\ req[r].pc = "chosen" => Home[req[r].entry.id] = req[r].from.provider
    <2>1. RequestInv(req[r])
      BY <1>2 DEF IInv
    <2> QED
      BY <1>2, <2>1 DEF Routed, RequestInv, ViableOf
  <1>3. IInv => RoutingInv
    BY <1>1, <1>2 DEF RoutingInv, IInv
  <1> QED
    BY <1>3, Inductive, PTL

(* When no handler has a committed change of a credential left to publish  *)
(* and reading it back did not fail, a credential with a row is in the     *)
(* plane; and unless two changes of it overlapped, the plane has exactly   *)
(* the row, or nothing when the row is gone.                               *)
THEOREM CredentialsAreLive == Spec => []CredentialsLive
  <1>1. IInv => CredentialsLive
    <2> SUFFICES ASSUME IInv, NEW id \in given \ unread, \A a \in Admins : ~ Publishing(a, id)
                 PROVE  /\ id \in DOMAIN table => Live(id) # {}
                        /\ id \notin raced =>
                            Live(id) = IF id \in DOMAIN table THEN {[id |-> id, cred |-> table[id]]} ELSE {}
      BY DEF CredentialsLive
    <2>1. \A a \in Admins : ~ (Upserting(admin[a]) /\ admin[a].id = id)
      BY DEF Upserting, Publishing
    <2>2. Live(id) = EntriesOf(snapshot, id)
      BY DEF Live, EntriesOf
    <2> QED
      BY <2>1, <2>2 DEF IInv, PlaneIInv, EntriesInv, RowOf
  <1> QED
    BY <1>1, Inductive, PTL

(* When nobody holds providerWriteMu and the last list did not fail, every *)
(* provider is called with the settings of its row, if a client can be     *)
(* built from them.                                                        *)
THEOREM ClientsAreLive == Spec => []ClientsLive
  <1>1. IInv => ClientsLive
    BY DEF IInv, PlaneIInv
  <1> QED
    BY <1>1, Inductive, PTL

(* pickProvider draws a provider of weight zero only when no provider that *)
(* has a candidate has weight.                                             *)
THEOREM WeightsAreRespected == Spec => []WeightsRespected
  <1>1. IInv => WeightsRespected
    BY DEF IInv, WeightsRespected, RequestInv, Routed
  <1> QED
    BY <1>1, Inductive, PTL

(* As long as the candidates of a key stay the same, any n picks in a row  *)
(* of n candidates by roundRobin take each of them once.                   *)
THEOREM RotationIsFair == Spec => []RotationFair
  <1>1. IInv => RotationFair
    <2> SUFFICES ASSUME IInv, NEW key \in Keys PROVE IsInjective(rotation[key].picked)
      BY DEF RotationFair
    <2>1. cursors[key] \in Nat /\ Turns(rotation[key], cursors[key])
      BY DEF IInv
    <2> QED
      BY <2>1, TurnsInjective
  <1> QED
    BY <1>1, Inductive, PTL
=============================================================================
