--------------------------- MODULE ProviderPlane ---------------------------
(***************************************************************************)
(* What requests are routed with, and the admin handlers that change it:   *)
(* the table credentials and the ProviderPlane's snapshot of it, and the   *)
(* settings in table providers and the HTTP clients that the transport     *)
(* built from them.  No job reloads either: a handler commits, reads back  *)
(* and publishes, and only a restart reads the tables again.               *)
(*                                                                         *)
(* Transactions are serialised on one connection.  The plane's writers     *)
(* clone the snapshot and store the clone under plane.mu, its readers load *)
(* a pointer; the settings are written under providerWriteMu.              *)
(***************************************************************************)
EXTENDS Integers, Sequences, FiniteSets, SequencesExt

CONSTANTS
    Providers,
    Models,
    CredIDs,     \* ids of credentials in the order they are given; one is given once
    Home,        \* the provider each credential belongs to
    InitTable,   \* rows of table credentials at the first start
    Bodies,      \* credentials that createCredential may be given
    Patches,     \* partial bodies of updateCredential
    Settings,    \* network and proxy settings of a provider
    InitSettings,
    Buildable,   \* settings that newClient accepts
    Accepted,    \* settings that updateProvider's checks accept
    Admins,      \* concurrent admin handlers
    Nobody,      \* no handler; no client
    MaxFaults,   \* bound on failing database reads
    MaxChanges   \* bound on admin requests

Credential == [enabled : BOOLEAN, expires : BOOLEAN, serves : SUBSET Models]

ASSUME PlaneAssumption ==
    /\ CredIDs \subseteq Nat /\ Home \in [CredIDs -> Providers]
    /\ InitTable \in UNION {[D -> Credential] : D \in SUBSET CredIDs}
    /\ IsFiniteSet(DOMAIN InitTable)
    /\ Bodies \subseteq Credential
    /\ \A patch \in Patches, c \in Credential : patch @@ c \in Credential
    /\ InitSettings \in [Providers -> Settings]
    /\ Accepted \subseteq Settings /\ Buildable \subseteq Settings
    /\ Nobody \notin Admins \union Settings
    /\ MaxFaults \in Nat /\ MaxChanges \in Nat

VARIABLES
    table,     \* table credentials: rows by id
    given,     \* ids given so far
    late,      \* the expiry that credentials may carry has passed
    snapshot,  \* plane.credSnapshot: the bucket of each provider
    planeMu,   \* who holds plane.mu
    settings,  \* table providers
    clients,   \* transport.providers
    writeMu,   \* who holds providerWriteMu
    admin,     \* where each admin handler is, and what it holds
    faults, changes,
    unread,    \* ghost: ids whose last change was committed and not read back
    raced,     \* ghost: ids changed while an earlier change was unpublished
    unlisted   \* ghost: settings were committed and not read back

credentials == <<table, given, snapshot, planeMu, unread, raced>>
transport == <<settings, clients, writeMu, unlisted>>
planeVars == <<credentials, transport, late, admin, faults, changes>>

(* An entry of a bucket: the core.Credential that ToCore makes of a row. *)
Entry == [id : CredIDs, cred : Credential]

Idle == [pc |-> "idle"]
Begin(a) == admin[a].pc = "idle" /\ changes < MaxChanges /\ changes' = changes + 1
Goto(a, state) == admin' = [admin EXCEPT ![a] = state]

(* A database read that fails. *)
Fault == faults < MaxFaults /\ faults' = faults + 1

-----------------------------------------------------------------------------
(* The snapshot. *)

(* Credential.CheckValidity and CheckModel: serves holds the models that   *)
(* the credential allows, by name or by "*", and does not block.           *)
CheckValidity(c) == c.enabled /\ ~ (c.expires /\ late)
CheckModel(c, m) == m \in c.serves

(* The numbers of a finite set in ascending order, and the elements of a   *)
(* sequence at the places that a loop over it keeps.                       *)
Ascending(T) == [k \in 1 .. Cardinality(T) |-> CHOOSE i \in T : Cardinality({j \in T : j <= i}) = k]
Kept(s, places) == [k \in DOMAIN Ascending(places) |-> s[Ascending(places)[k]]]

(* ProviderPlane.Candidates *)
Candidates(p, m) ==
    LET bucket == snapshot[p]
    IN Kept(bucket, {k \in DOMAIN bucket : CheckValidity(bucket[k].cred) /\ CheckModel(bucket[k].cred, m)})

(* buildCredSnapshot, over the rows in the order ListCredentials has them. *)
BuildCredSnapshot(rows) ==
    [p \in Providers |->
        LET ids == Ascending({i \in DOMAIN rows : Home[i] = p})
        IN [k \in DOMAIN ids |-> [id |-> ids[k], cred |-> rows[ids[k]]]]]

(* UpsertCredential replaces in place, or appends. *)
UpsertedTwice(snap, e) == [snap EXCEPT ![Home[e.id]] = Append(@, e)]   \* mutant: no replacement
Upserted(snap, e) ==
    LET bucket == snap[Home[e.id]]
        same == {k \in DOMAIN bucket : bucket[k].id = e.id}
    IN [snap EXCEPT ![Home[e.id]] =
            IF same = {} THEN Append(bucket, e)
            ELSE [k \in DOMAIN bucket |-> IF k \in same THEN e ELSE bucket[k]]]

(* RemoveCredential; with no such entry it stores nothing. *)
Removed(snap, id) ==
    LET bucket == snap[Home[id]]
    IN [snap EXCEPT ![Home[id]] = Kept(bucket, {k \in DOMAIN bucket : bucket[k].id # id})]

-----------------------------------------------------------------------------
(* createCredential, updateCredential, deleteCredential. *)

(* A change of this credential is committed and its handler has yet to     *)
(* publish it.                                                             *)
Publishing(a, id) == admin[a].pc \in {"reread", "publish", "remove", "locked"} /\ admin[a].id = id

(* The handler commits a change of a row. *)
Commits(a, id, pc) ==
    /\ Goto(a, [pc |-> pc, id |-> id])
    /\ raced' = IF \E b \in Admins \ {a} : Publishing(b, id) THEN raced \union {id} ELSE raced
    /\ UNCHANGED <<snapshot, planeMu, unread, transport, late, faults>>

(* CreateCredential; a body that Validate refuses changes nothing.  The    *)
(* column "enabled" has a default, for which gorm takes a false in a new   *)
(* row: a credential is stored enabled, whatever the body says.            *)
CreateCredential(a) ==
    /\ Begin(a)
    /\ \E id \in CredIDs \ given, body \in Bodies :
        /\ \A i \in CredIDs \ given : id <= i
        /\ table' = [i \in DOMAIN table \union {id} |-> IF i = id THEN [body EXCEPT !.enabled = TRUE] ELSE table[i]]
        /\ given' = given \union {id}
        /\ Commits(a, id, "reread")

(* UpdateCredential: read, applyTo, write, in one transaction. *)
UpdateCredential(a) ==
    /\ Begin(a)
    /\ \E id \in DOMAIN table, patch \in Patches :
        /\ table' = [table EXCEPT ![id] = patch @@ @]
        /\ UNCHANGED given
        /\ Commits(a, id, "reread")

(* GetCredential after the transaction: the read fails, the row is gone,   *)
(* or the handler holds the row as it is now.                              *)
Reread(a) ==
    LET id == admin[a].id IN
    /\ admin[a].pc = "reread"
    /\ \/ /\ id \in DOMAIN table
          /\ Goto(a, [pc |-> "publish", id |-> id, cred |-> table[id]])
          /\ UNCHANGED <<unread, faults>>
       \/ /\ id \notin DOMAIN table
          /\ Goto(a, Idle)
          /\ UNCHANGED <<unread, faults>>
       \/ /\ Fault
          /\ Goto(a, Idle)
          /\ unread' = unread \union {id}
    /\ UNCHANGED <<table, given, snapshot, planeMu, raced, transport, late, changes>>

(* deleteCredential reads the row to check its provider, *)
DeleteGet(a) ==
    /\ Begin(a)
    /\ \E id \in DOMAIN table : Goto(a, [pc |-> "delete", id |-> id])
    /\ UNCHANGED <<credentials, transport, late, faults>>

(* then deletes it, and goes on when it was still there. *)
DeleteCredential(a) ==
    LET id == admin[a].id IN
    /\ admin[a].pc = "delete"
    /\ \/ /\ id \in DOMAIN table
          /\ table' = [i \in DOMAIN table \ {id} |-> table[i]]
          /\ UNCHANGED given
          /\ Commits(a, id, "remove")
          /\ UNCHANGED changes
       \/ /\ id \notin DOMAIN table
          /\ Goto(a, Idle)
          /\ UNCHANGED <<credentials, transport, late, faults, changes>>

(* UpsertCredential and RemoveCredential: lock and clone, *)
PlaneUnguarded == TRUE     \* mutant: without plane.mu
PlaneUnlocked == planeMu = Nobody

Clone(a) ==
    /\ admin[a].pc \in {"publish", "remove"}
    /\ PlaneUnlocked
    /\ planeMu' = a
    /\ Goto(a, [pc |-> "locked", id |-> admin[a].id, do |-> admin[a], next |-> snapshot])
    /\ UNCHANGED <<table, given, snapshot, unread, raced, transport, late, faults, changes>>

(* then store the clone with the change, and unlock. *)
StoreClone(a) ==
    LET s == admin[a] IN
    /\ s.pc = "locked"
    /\ snapshot' = IF s.do.pc = "publish"
                   THEN Upserted(s.next, [id |-> s.id, cred |-> s.do.cred])
                   ELSE Removed(s.next, s.id)
    /\ unread' = unread \ {s.id}
    /\ planeMu' = Nobody
    /\ Goto(a, Idle)
    /\ UNCHANGED <<table, given, raced, transport, late, faults, changes>>

CredentialHandler(a) ==
    CreateCredential(a) \/ UpdateCredential(a) \/ Reread(a) \/ DeleteGet(a)
        \/ DeleteCredential(a) \/ Clone(a) \/ StoreClone(a)

-----------------------------------------------------------------------------
(* updateProvider. *)

(* UpdateProviderConfig under providerWriteMu. *)
SettingsUnguarded == TRUE  \* mutant: without providerWriteMu
SettingsUnlocked == writeMu = Nobody

PutSettings(a) ==
    /\ Begin(a)
    /\ SettingsUnlocked
    /\ \E p \in Providers, s \in Accepted : settings' = [settings EXCEPT ![p] = s]
    /\ writeMu' = a
    /\ Goto(a, [pc |-> "list"])
    /\ UNCHANGED <<credentials, clients, unlisted, late, faults>>

(* ListProviders: "stored, not yet live" when it fails. *)
ListSettings(a) ==
    /\ admin[a].pc = "list"
    /\ \/ /\ Goto(a, [pc |-> "replace", rows |-> settings])
          /\ UNCHANGED <<writeMu, unlisted, faults>>
       \/ /\ Fault
          /\ writeMu' = Nobody /\ unlisted' = TRUE
          /\ Goto(a, Idle)
    /\ UNCHANGED <<credentials, settings, clients, late, changes>>

(* buildProviders leaves out a provider whose client cannot be built. *)
Built(rows) == [p \in Providers |-> IF rows[p] \in Buildable THEN rows[p] ELSE Nobody]

(* Transport.Replace keeps the client of a provider that did not build. *)
Replaced(old, rows) ==
    [p \in Providers |-> IF Built(rows)[p] = Nobody THEN old[p] ELSE Built(rows)[p]]

ReplaceClients(a) ==
    /\ admin[a].pc = "replace"
    /\ clients' = Replaced(clients, admin[a].rows)
    /\ writeMu' = Nobody /\ unlisted' = FALSE
    /\ Goto(a, Idle)
    /\ UNCHANGED <<credentials, settings, late, faults, changes>>

SettingsHandler(a) == PutSettings(a) \/ ListSettings(a) \/ ReplaceClients(a)

-----------------------------------------------------------------------------
(* The clock passes the expiry of the credentials that have one. *)
Expire == ~ late /\ late' = TRUE /\ UNCHANGED <<credentials, transport, admin, faults, changes>>

(* DBSource.Load at start: the handlers are gone, the snapshot and the     *)
(* clients are what the tables say.                                        *)
LoadTables ==
    /\ snapshot' = BuildCredSnapshot(table)
    /\ clients' = Built(settings)
    /\ admin' = [a \in Admins |-> Idle]
    /\ planeMu' = Nobody /\ writeMu' = Nobody
    /\ unread' = {} /\ raced' = {} /\ unlisted' = FALSE
    /\ UNCHANGED <<table, given, settings, late, faults, changes>>

PlaneInit ==
    /\ table = InitTable /\ given = DOMAIN InitTable
    /\ settings = InitSettings
    /\ snapshot = BuildCredSnapshot(InitTable)
    /\ clients = Built(InitSettings)
    /\ admin = [a \in Admins |-> Idle]
    /\ planeMu = Nobody /\ writeMu = Nobody
    /\ late = FALSE /\ faults = 0 /\ changes = 0
    /\ unread = {} /\ raced = {} /\ unlisted = FALSE

PlaneNext == Expire \/ \E a \in Admins : CredentialHandler(a) \/ SettingsHandler(a)

-----------------------------------------------------------------------------
(* Properties. *)

(* The variables have their types, and an id has one entry at most, in the *)
(* bucket of its provider: RemoveCredential and roundRobin count on it.    *)
PlaneInv ==
    /\ table \in UNION {[D -> Credential] : D \in SUBSET given} /\ given \subseteq CredIDs
    /\ late \in BOOLEAN /\ faults \in 0 .. MaxFaults /\ changes \in 0 .. MaxChanges
    /\ settings \in [Providers -> Settings]
    /\ clients \in [Providers -> Buildable \union {Nobody}]
    /\ \A p \in Providers :
        /\ \A k \in DOMAIN snapshot[p] : snapshot[p][k] \in Entry /\ Home[snapshot[p][k].id] = p
        /\ \A j, k \in DOMAIN snapshot[p] : snapshot[p][j].id = snapshot[p][k].id => j = k
    /\ planeMu \in Admins \union {Nobody} /\ writeMu \in Admins \union {Nobody}

(* The entries of a credential in the snapshot. *)
Live(id) == {e \in ToSet(snapshot[Home[id]]) : e.id = id}

(* When no handler has a committed change of a credential left to publish, *)
(* and reading it back did not fail, a credential with a row is in the     *)
(* plane, whatever raced with its handlers; and unless two changes of that *)
(* very credential overlapped, the plane has exactly the row, or nothing   *)
(* when the row is gone.  plane.mu is there for this: a handler that       *)
(* stores a clone of an older snapshot drops what others published.        *)
CredentialsLive ==
    \A id \in given \ unread :
        (\A a \in Admins : ~ Publishing(a, id)) =>
            /\ id \in DOMAIN table => Live(id) # {}
            /\ id \notin raced =>
                Live(id) = IF id \in DOMAIN table THEN {[id |-> id, cred |-> table[id]]} ELSE {}

(* When nobody holds providerWriteMu and the last list did not fail, every *)
(* provider is called with the settings of its row, if a client can be     *)
(* built from them: updateProvider replaces the clients of all providers   *)
(* with rows it read before, so two of them must not overlap.              *)
ClientsLive ==
    (writeMu = Nobody /\ ~ unlisted) =>
        \A p \in Providers : settings[p] \in Buildable => clients[p] = settings[p]
=============================================================================
