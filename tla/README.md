# A TLA+ model of DiffractLLM

DiffractLLM is a gateway in front of LLM providers. A client authenticates with
a virtual key, the gateway checks that the key may use the model and that the
key's budget is not spent, picks a provider and a credential, forwards the
request (with retries, unary or streamed), prices the usage, charges the
budget, and records a usage row and a metrics event. Budgets, keys and metrics
live in memory while requests run and are moved to and from two databases by
periodic jobs, while admin handlers change the same state.

This directory models the parts of it that are hard to test, checks the models
with TLC and proves theorems about them with TLAPS. Paths below are
relative to `src/internal/` unless they say otherwise.

## Inventory

| Part | State | Operations | Interacts with | What is hard |
|---|---|---|---|---|
| Budgets: `governance/budget.go`, `governance/governance.go`, `dbstore/budget.go` | per budget: config (atomic pointer), window cost and requests (atomics), what was flushed last; the row | admission, settlement, flush, roll of the window, sync, admin create/update/delete, eviction of an entry | requests (hooks), jobs `budget_flush_roll` and `budget_sync`, admin handlers | no lock over the whole; each job is a sequence of loads, statements and stores, every statement can fail, the process can end between two |
| Usage history: `governance/usage.go`, `dbstore/usage.go` | bounded buffer, dropped counter, table | append, drain, insert, put back | settlement hook, job `usage_flush` | a failed insert returns its records to a buffer that requests have filled |
| Metrics engine: `metrics-engine/` | bounded buffer, retry batch, attempts, DuckDB table | add event, wake, flush, retry, give up, shutdown; queries by range | every request's post-call hook, its worker group, the gateway's Stop | wake-up races, batches that grow while writes fail, a store closed under a running write, buckets and ranges that do not line up |
| Worker group: `worker/worker.go` | jobs with ticker, trigger, stats; stop channel; wait group | Start, loop, Trigger, Shutdown | owners of all jobs | start jobs that fail, triggers during runs, select fairness, shutdown timeouts |
| Virtual keys: `governance/virtualkey.go`, `dbstore/virtualkeys.go` | rows and budget status, cached map by secret, entries of budgets | create, activate, revoke, rotate, reroute, authenticate, sync | admin handlers, job `virtual_keys_sync`, request authentication | commit, re-read and cache update are three steps; a sync publishes an old list |
| Request handler and hooks: `server/handlers.go`, `core/hooks.go`, `core/diffractcontext.go` | the pooled request context | eight stages, deferred hooks, release | everything | the context is reused, a goroutine reads it |
| Transport: `dataplane/transport.go` | clients per provider | ServeHTTP (retries, back-off, deadline), Replace | providers, admin handlers | what may be retried, deadlines against body reads, idle timer |
| Providers and streaming: `providers/openai/`, `server/chat.go` | goroutine, bounded channel, scanner | produce, consume, abandon | transport, client | two goroutines, three parties that may stop at any time |
| Provider plane: `providerplane/plane.go`, `dbstore/credentials.go`, `dbstore/provider.go` | table and snapshot of credentials, settings and clients of providers | create, update, delete, candidates, replace the clients | admin handlers, selection, transport | commit, re-read and publication are three steps, and no job repairs what went wrong in them |
| Selection: `dataplane/dataplane.go`, `governance/hook_model_access_auth.go` | round-robin cursors | model access, collection of candidates, weighted draw, pick | provider plane, catalog | snapshot against cursors, weights |
| Model catalog: `modelcatalog/`, `dbstore/pricing.go`, `dbstore/model_metadata.go` | three tables, three snapshots | sync, overrides, resolve a price | admin handlers, job `catalog_sync`, selection | a sync of seven steps that may fail at each, lists stored out of order |
| Pricing: `core/pricing.go` | none | rate, cost, merge | catalog, settlement | tiers, bands and fallbacks written out field by field |
| Gateway and server lifecycle: `gateway/gateway.go`, `server/server.go`, `src/main.go` | components and what has started, the http server, its base context | Initialize, Start, wait for a signal or the server's failure, Stop in five stages | all | failure in the middle, stages with timeouts, requests and jobs that run on behind them |
| Stores, configuration, UI, logging | tables, files | CRUD, parsing | | sequential code, well covered by its tests |

Correctness, part by part: a charge is counted exactly once and a budget is
overspent only by the requests in flight; a record or an event is written at
most once, and every one that is not written is counted, and the reports over
what was written agree; a job runs once at a
time and a clean shutdown leaves nothing behind; the keys that authenticate
become the active keys of the table and a budget has one active key; a client sees a prefix of what the
upstream sent, a request that is reported complete is whole, what it used is
charged, and every request ends; what an admin stored is what requests are
routed and priced with; a request goes to a provider and a credential its key
allows, by the weights; a token is billed once, at the best price there is;
and when the process stops, nothing that the buffers and budgets had taken is
left in memory, unless a last run failed or a stage timed out.

## Modules

- `BudgetWindow` - one budget, with concurrent requests, both jobs, admin
  updates, failing statements and crashes.
- `UsageHistory` and `MetricsEngine` - the two write-behind buffers.
- `Delivery` - the abstract specification both implement: an item is taken or
  refused, stored at most once or given up, and its outcome is final.
- `MetricsReads` extends `MetricsEngine` with what is reported of the events.
- `WorkerGroup` - the jobs' scheduler, on its own.
- `VirtualKeys` - rows, budgets and their binding, both caches, handlers and
  both syncs.
- `ChatRequest` - one request from handler to release, with the transport, the
  stream's two goroutines, the client, the upstream and the timers.
- `ProviderPlane` - credentials and provider settings, from the tables to what
  is published, and the handlers. `Selection` extends it with the requests that
  are routed over it: the composition of both is what is checked.
- `Pricing` - rates and costs as operators. `PriceBook` merges prices and asks
  for the bills; `ModelCatalog` extends `Pricing` with tables, snapshots, sync
  and overrides.
- `Gateway` - the life of the process, composed with requests, jobs and three
  instances of `Delivery` for what requests leave behind.
- `BudgetWindowProofs`, `MetricsEngineProofs`, `VirtualKeysProofs`,
  `WorkerGroupProofs`, `GatewayProofs`, `ChatRequestProofs`, `SelectionProofs` -
  the theorems, each module about the one it is named after;
  `MetricsEngineProofs` is about `MetricsReads` too, and `SelectionProofs` about
  `ProviderPlane`.
- `BillingProofs` - the theorems about what a request is billed and how that is
  recorded: `ModelCatalog`, `PriceBook` and `UsageHistory`, which it extends
  together. The specifications of the last two carry names of their own
  (`PriceSpec`, `UsageSpec`) for that.
- `MC*` - instances for TLC; the `.cfg` files give the constants their values.

### BudgetWindow

State: `row` is the row of table `budgets`; `config`, `windowCost`,
`windowReqs`, `lastFlushed`, `lastReqs` are the fields of the cached `Budget`;
`loaded` says that the first sync has made the entry; `reqPC` and `gate` are
the requests; `job`, `sync` and `admin` hold the program counters and locals of
the two jobs and of the admin handlers. `spent`, `archived` and `lost` are
history: charges made, totals the database held when it closed a window, and
what a crash took. Money is an integer, as `ToNanoUSD` makes it.

One step is one access to shared memory or one statement: `CheckBudgetUsage`
loads the config and then the cost, `RecordUsage` adds twice,
`flushBudgetUsage` loads cost, loads requests, compares, writes;
`trackBudgetWindow` loads config, cost and requests, flushes, resets the row,
stores a config, subtracts twice. A failing statement is the branch `Fault`,
bounded by `MaxFaults`. `Crash` ends the process at any point and clears what
is in memory. `updateBudget` is read, write of the differing columns, re-read,
store in the cache.

### UsageHistory, MetricsEngine, Delivery

Sets stand for batches, since the order of records decides nothing.
`UsageHistory`: `AppendRecord` and `Charge` are `RecordHook`'s, which charges
whatever became of the record, but nobody when the budget has no entry in the
cache; `Drain`, `Insert`,
`Requeue` are the steps of `flushUsageHistory`, the last one record by record.
`MetricsEngine`: `Append` and `Wake` are the two steps of `AddEvent`; the job's
loop takes tick, trigger or stop; `Drain` and `Write` are `flush`; `Stop` and
`Close` are the gateway's shutdown, which closes the store also when waiting
timed out. Both map an item's place to a `status` of `Delivery`.

### MetricsReads

The queries of `duckdb-reads.go` over the table that `MetricsEngine` wrote:
`classify`, the ranges `CheckRange` takes, the widths of `bucketFor`, the tiles,
both series by time, the pages of the log and the top keys. A count or a sum is
represented by the set of events it is taken over, so that two reports agree
when the sets do. The one sum whose size decides, the spend that orders the top
keys, is `Spent`: the nano dollars of a set of events, counted. `Quotient` is Go's division, which rounds towards zero, also
for a range that begins before the epoch. The engine is the writer: what the
reports are asked of is any table that writes, failures and drops can leave.

### WorkerGroup

`Start` runs the RunAtStart jobs one after the other and then launches a loop
per job; a loop selects among ticker, trigger and stop; `Shutdown` closes the
stop channel and waits or times out. `work` and `owed` say that somebody left
something for a job to do.

### VirtualKeys

A row is id, secret, budget, active flag and routing. A handler commits its
transaction, reads the row back and then updates the cache; the re-read may
fail. `Implemented` are the routings whose load balancer exists, which the sync
requires of every row and the handlers do not. A secret is never given twice,
as `GenerateVirtualKey` draws it at random.

`status` is the status of a budget's row, which the transactions on keys change
and which `CreateBudget` and `DeleteBudget` add and remove; `DeleteBudget` reads
and deletes in two statements. `entries` are the budgets that have an entry in
the cache, without which a request of theirs is refused; `bsync` is the job
`budget_sync`, which lists the rows and then replaces the entries. What an entry
counts is `BudgetWindow`'s. `rerevoked` is history: the budgets of keys that
were revoked when they were not active.

### ChatRequest

`pc` walks through the stages of `GenericRequestHandler`, `ServeHTTP`'s
attempts, and the loop of `chatCompletion`; `producer`, `held`, `ch`,
`chClosed` are the goroutine of `HandleChatCompletionStream` and its channel;
`body` is the response body with its idle timer. A write to the client may fail:
a stream's loop ends at it, while the unary handler does not look
(`UnaryReply`). The environment sends frames
(a chunk with or without usage, a malformed frame, `[DONE]`), ends or breaks
the body, leaves, cancels the context. A status is one of four classes: 200,
always retried (408, 429), retried on request (502, 503, 504), other. `runs`
counts how often the upstream ran the model, which the gateway cannot see.
The scanner may still return what it has buffered after the body was closed, so
both outcomes are allowed then. The idle timer needs a long time without a
read, so it fires only where no read can happen: nothing on the wire, or the
producer waiting for room in the channel.

### ProviderPlane, Selection

`table` and `settings` are the two tables, `snapshot` the plane's buckets,
`clients` the transport's map, which holds the settings each client was built
from. A credential is whether it is enabled, whether it carries an expiry (which
`late` says has passed) and the models it serves. A credential is created
enabled, also when the body says otherwise: gorm leaves a false out of the insert
of a column whose default is true (`dbstore/credentials.go:18`). A handler commits
(`CreateCredential`, `UpdateCredential`, `DeleteCredential`), reads back
(`Reread`, which may fail), locks and clones (`Clone`), stores (`StoreClone`).
`unread`, `raced` and `unlisted` are history: they name the changes whose
publication failed or overlapped with another change of the same credential,
about which the code promises nothing before a restart. A request walks through
`Access` (the hook), one `CollectWeighted` per provider config, each with a
load of the snapshot of its own, `DrawProvider`, `PickCredential` and `Dial`.
Weights are whole numbers, and the draw is any target below their sum. The loops
that keep some elements of a bucket, in their order, are `Kept`; each candidate
carries `upto`, the weights up to its own, as the loop that subtracts them from
the target does, and the last one's is their `Total`.

### Pricing, PriceBook, ModelCatalog

A price is a function from the fields that are not nil. A field is what it
prices, its tier and its band; `Chain` is the order in which `inputRate`,
`outputRate`, `cacheReadRate` and `cacheCreationRate` try them, which is the
same for all four but for the fields that one does not have. The two spellings
of a flex price above 272k are one field. `ModelCatalog`: `sync` walks through
fetch, two writes and three loads, `Fails` ends it at any of them; a handler
checks, writes, and loads under `customMu`. `stale` is history: an override was
stored and not loaded. A model name stands for name and type. `rows` are the
rows of the price table by their place, of which only the order counts; the bulk
upsert leaves a row that is there in its place and puts the others behind it.

### Gateway

`main` is where the main goroutine is: in `Initialize`, in one of the steps of
`Start`, in `WaitForSignal`, or in one of the five stages of `Stop` (http,
metrics, governance, catalog, store). `Initialize` and every step of `Start` may
fail, and `main` then calls `Stop` with what there is: `HasStage` is the
condition of each stage. The http stage is `Shutdown` of `server.go`: it ends
when every connection is idle (`HttpDrained`), cancels the base context after
`StreamGrace` (`GraceEnds`) and gives up after `ShutdownTimeout`
(`HttpDeadline`); `Tick` is the time in between. The stage of a group closes its
stop channel (`DrainBegin`) and ends with its loops (`DrainEnd`) or without
(`DrainTimeout`). `Kill` ends the process anywhere: a crash, or a second signal.

A chat request is open, settles (record and charge) and ends (event); each of
the three is an item of a `Delivery`: it is taken, or refused because the buffer
is full or the budget has no entry. A request of the admin API (`Admin`) may
delete a budget with the charges that were not flushed (`DeleteBudget`), and
`budget_sync` may drop an entry that its list does not have. The jobs are the
six that the three groups register, reduced to their loops: `Run` writes
everything that is held, fails, or has nothing to do, and is the last run when
the group is stopped. A run that fails keeps its batch (`FailKeeps`) or part of
it (`FailKeepsPart`): records that no longer fit are dropped, a batch of events
is given up at its last attempt, and the budgets are written one by one.
When a buffer is full and which attempt is the last are `UsageHistory`'s and
`MetricsEngine`'s, and left open here; all these mishaps share the bound
`MaxFaults`. `abandoned` and `failed` are history: the requests that ran on
after `Shutdown` returned, and the jobs with a run, or a last run, that failed
(`budget_flush_roll` logs its errors and returns none; it is among them). The
http server is `net/http` as `server.go` uses it.

## Runs

| Run | Instance | Shows |
|---|---|---|
| `budget` | two requests, one admin, spends 1 and 2, one window boundary, one fault, one crash | `Ledger`, `OvershootBounded`, and that `BudgetInv`, proved inductive, holds |
| `budget_live` | one request, enforced or not, one update, one fault, one crash | `ChargesBecomeDurable`, `ConfigConverges` |
| `budget_stale_sync` | no update, fault or crash | violation: a sync that listed the row before a roll brings the closed window back, and the next tick wipes the new window's spend |
| `usage` | four records, buffer of two, two faults, one crash | `UsageInv` (with `OneHome`, `DropsCounted`), `RecordsSettle`, refinement of `Delivery` |
| `metrics` | three events, buffer of two, two attempts, two faults; six ranges | `MetricsInv` (`OneHome`, `MemoryBounded`), `NoLostWakeup`, `GivenUpOnlyAfterAllAttempts`, `CleanShutdownDrains`, `ReportsAgree`, `EventsSettle`, refinement of `Delivery` |
| `workers` | two jobs, one at start, both at stop | `WorkerInv` (`SingleFlight`, `LoopsOnlyAfterStartJobs`, `TriggerNotLost`), `ShutdownDrains`, `TriggersHonoured`, `LoopsExit` |
| `keys` | two keys, three secrets, one budget, two routings, two handlers, three requests, one restart | `KeysInv` (`BoundBudgetHasKey`), `BudgetIsExclusive`, `CacheConverges`, `EntriesConverge` |
| `chat` | two attempts, channel of one, three frames, usages up to 2 | `ChatInv` (`ContextHeld`, `BodiesClosed`, `ClientSeesPrefix`, `RunsOnce`), `CompleteIsWhole`, `ChargedAsReported`, `RequestEnds` |
| `routing` | two providers, one model, three credentials, one request at a time, two policies (one weighted with a block, one with a weight of zero), two handlers, two changes, one fault | `RoutingInv` (with `PlaneInv`), `CredentialsLive`, `ClientsLive`, `WeightsRespected`, `RotationFair` |
| `catalog` | one model, one provider with a row and one without, two feeds, two overrides, three slots, two handlers, two changes, one fault | `CatalogInv`, `OverridesLive`, `StoredBecomesLive` |
| `pricing` | twelve fields, each with a cost of its own or absent, a free one among them; five tiers, sizes on both sides of five bands | `BestFieldBilled`, `TokensBilledOnce` |
| `gateway` | one chat request, one that deletes its budget, a grace of 1 and a timeout of 2, one failing run, full buffer or missing budget | `GatewayInv` (`ServesWhenReady`, `StoresOutliveJobs`, `CancelledBeforeAbandoned`), `StopKeepsWork`, `StopReturns` |

Why these bounds are enough to meet the cases: two requests are what it takes
to pass the gate together, or to settle on both sides of a load; one tick of
the clock closes a window; one fault and one crash can fall between any two
steps. A buffer of two is full, half full and empty within three or four
items. Two attempts give a first and a last one. A channel of one is full with
one chunk, so the producer waits with another in hand and more on the wire. Three
frames are two chunks whose usages may fall and the terminator. Three admin
requests are a creation, a rotation and a revocation, each racing the sync, or a
budget that is deleted while a key is bound to it; a second revocation that hits
the budget of another key takes four, which the theorem covers and the run does
not. The ranges of the reports have buckets of a minute, ten minutes, an hour and
a day whose multiples their ends miss, one begins before the epoch and two are
refused. Two credentials make a rotation, two changes are what it takes to
overlap, three picks go round a rotation of two and on. Twelve fields hold one of
each tier and of each side of the bands that the order of the tests could
confuse. The gateway's chat request ends in time or is abandoned, and its charge
is flushed before or after its budget is deleted; batches of several items, of
which part is kept, are left to the theorem. A grace below the timeout gives a
moment before, between and after the two, and every failure of a start and every
timeout of a stage is a choice without a bound. One request at a time is routed,
so the concurrent picks of one rotation are the theorem's, too.
Every bound is a constant with a name (`Max...`) and appears in a guard.

Deadlock is not checked where requests, items, admin operations and faults are
bounded, so that the instance comes to rest, and where the process may end. It is
checked in `routing`, `catalog` and `pricing`.

### Fairness

- Budgets and keys: a job's enabled steps are taken (the worker group ticks for
  as long as the process lives; see `workers`), and so are the steps of a
  handler that has started: both syncs of `keys` and the handlers' steps after
  their transaction. Nothing is asked of clients, admins, faults, crashes or the
  clock.
- Usage and metrics: the same for the flush jobs and for a hook that has
  started; `OnStop` is strongly fair, because Go's `select` picks a ready case
  at random, so a closed stop channel is not passed over for ever.
- Workers: runs return, tickers tick, the same strong fairness of `OnStop`.
- Catalog: the ticker keeps starting the sync, and a handler that has begun goes
  on. Nothing is asked of admins, faults and restarts.
- Chat: both goroutines run on, the idle timer of a silent stream fires, `Do`
  returns (the response header timeout). A client must read what is written to
  it or leave: the server sets no write timeout, so the code does not
  guarantee it, and the property says nothing of a client that does neither.
- Gateway: `main` goes on and its timers fire (`Shutdown`), and the error of
  `Serve` is received. Nothing is asked of handlers, which a client that does
  not read may hold for ever, nor of jobs: `StopReturns` does without them.

## Proofs

The theorems hold for every value of the constants that the named assumptions
allow; TLC evaluates the assumptions in the runs.

**`BudgetWindowProofs`** - any number of requests and admins, any spends up to
`SpendCap`, limits up to `LimitCap`, durations, faults and crashes
(`BudgetAssumption`): `TypeCorrect`, `Invariance` (`BudgetInv`), `LedgerHolds`,
`MemoryCovers`, `FlushSkip`, `Overshoot`. None of the safety invariants is
inductive. `Ledger` speaks of what the roll is about to subtract, so it needs to
know how the job's locals relate to the row and the counters. `LagInv` says that
they only lag behind one another, in the order row, locals, counters, and that
between the closing flush and the reset of the row they are equal; `DownInv`
says that before the first sync nothing else runs and that what the sync has
listed is still what the row holds. `DownInv`, `LagInv` and `Ledger` together
(`SafeInv`) are preserved by every step (`SafeStep`). `OvershootBounded` needs
two more: `GateInv`, every config in circulation (in the row, in the cache, in
the locals of both jobs and of the admins, and the limit a request has loaded)
is enforced and within `LimitCap`; and `ExposureInv`, the bound itself stated so
that it carries over a restart. `ExposureStep` rests on the cardinality of the
requests in flight.

**`MetricsEngineProofs`** - any finite set of events, capacity, attempts and
failing writes (`MetricsAssumption`): `MetricsInvariance`, `WakeupsKept`
(`NoLostWakeup`), `ShutdownIsClean` (`CleanShutdownDrains`, of a Shutdown that
returned nil and whose last run did not fail: the first does not imply the
second), `AttemptsHonoured` (the action property `GivenUpOnlyAfterAllAttempts`,
which asks for one event of the batch that was tried as often as promised; one
that joined the batch later was tried less often) and `MetricsDeliver`. They
share one inductive invariant, `IInv`: `Fresh` (an event no run has drained was
never part of a write), `Batches` (flush holds a batch exactly while it writes),
`Attempts` (the counter is the number of failed writes of the oldest event
held, from which the action property follows) and `Draining` (what was taken
before the stop is accounted for, and a batch left for a retry shows in the
job's stats, from which the clean shutdown follows).

The same module proves the reports of `MetricsReads`, for any events and every
range the engine accepts (`ReadsAssumption`): `ReportsAreWhole` - each event of
a range has the point of the series its time lies in, both series add up to the
tiles, the pages of the log hold every row of it once, and a shorter list of top
keys is the beginning of a longer one - and `ReportsDoAgree`, the invariant
`ReportsAgree` of the run. Three lemmas about division carry the rounding, also
of a range that begins before the epoch; `PageUnique` and `PagesTurn` place a
row on its page; `RanksOrder` and `TopKeysAre` say that the ranks of the keys
are a permutation, so that a list of k is the keys of rank up to k; and `SpentIs`
that a spend is a number.

**`VirtualKeysProofs`** - any keys, secrets, budgets, handlers and restarts
(`VirtualKeysAssumption`): `KeysInvariance` and `BudgetsExclusive`. The tables
(`Tables`) are proved by transaction, with the secret of a row added to what
makes it unique; the caches (`Caches`) by step, where a list or a row that a job
or handler holds has one entry per plaintext, which is what keeps the published
map a map.

**`WorkerGroupProofs`** - any number of jobs, whichever of them run at start and
at stop (`WorkerAssumption`): `WorkerInvariance` and `DrainsOnShutdown`.
`WorkerIInv` places the owner and the loops (`Places`), says that `running` and
the number of runs in flight are exactly the places in which `exec` is under way
(`Runs`), that Start has passed the jobs before its position (`StartJobs`) and
that a loop that has seen the stop owes nothing (`Drained`). What is owed is a
run, not its success: a last run that fails counts.

**`GatewayProofs`** - any number of requests and faults, and any grace below the
timeout (`GatewayAssumption`): `GatewayInvariance` and `StopKeeps`. Both say
what they do not cover. `GatewayInvariance` claims of a server that has listened
that no store is closed under a job unless `Stop` reports it; when `Start` failed
and the server never listened, `Stop` closes the stores under the loops and
reports nothing. `StopKeeps` claims that nothing which was taken is left in
memory, except of abandoned requests, of a job whose last run failed, about which
`Stop` says nothing (`worker/worker.go:128`), and of a group that `Stop` reports;
records and events are given up only by runs that failed. What was refused, and
charges of a budget that was deleted, are gone before `Stop` can keep them. What
`Stop` keeps depends on everything before it, and `Parts` says how: `Order` (main, the
server and the stores go together), `Ready` (who has loops), `Quiet` (nothing is
left before the server has listened), `Stops` (a group is stopped in its stage),
`Loops` (a stage is left with a loop only when that is reported), `Timers` (past
the grace the context is cancelled) and `Kept`: behind the http stage only
abandoned requests are busy, and a job that has ended has nothing left of the
others, or its last run failed. It is proved once for main, with a step per operation, once for
requests and once for jobs.

**`ChatRequestProofs`** - any number of attempts, any capacity of the channel,
number of frames and usages (`ChatAssumption`): `ChatIsSound` (`ChatInv`),
`CompletedIsWhole` (`CompleteIsWhole`: the whole answer was read, and of a stream
all of it reached the client) and `ChargeIsReported` (`ChargedAsReported`). `IInv` follows a chunk from the upstream to the client.
`AttemptsInv` relates the attempts made to the runs of the model and says why
another one is due; `ControlInv` says where the two goroutines can be at the
same time, and `BodyInv` when the body is open. `WireInv` says that the wire
holds the end of what was sent, and that `[DONE]` is its last frame;
`PipelineInv` that client, consumer, channel and producer hold the frames of
what was sent one after the other, that an error ends them, and that a producer
which stopped without an error and without being cancelled has seen `[DONE]`;
`ClientInv` that what the client has is therefore the beginning, and all of it
where the terminator is written; `UsageInv` that the usage held is one the
upstream reported, and the largest so far. The invariants speak of positions in
what was sent and not of concatenations, which the provers cannot take apart.

**`SelectionProofs`** - any providers, models, credentials, keys, policies,
handlers, requests and faults (`PlaneAssumption`, `SelectionAssumption`):
`RoutingIsSound` (`RoutingInv`), `CredentialsAreLive`, `ClientsAreLive`,
`WeightsAreRespected` and `RotationIsFair`. For the plane, `IInv` says what a
handler holds while it runs. A clone taken under `plane.mu` is the snapshot as
it is (`PlaneLockInv`), and rows read under `providerWriteMu` are the settings
as they are (`SettingsLockInv`), which is why a store loses nobody's change; ids
are given once, so what was removed stays out of the table; and `ChangesInv` and
`EntriesInv` say that, unless changes of a credential raced, at most one handler
has it in hand, with the row as it is, and that a row nobody is about to publish
is in the snapshot. For requests, the candidates carry running totals of their
weights, which only grow: a draw that stopped at a weight of zero would have
stopped one before. For the rotation, `Turns` ties the last picks of a bucket to
the turns up to its cursor, and numbers less than n apart differ modulo n.

**`BillingProofs`** - three components, each under its own assumptions.

For the usage history, any finite set of records, capacity, failing inserts and
ends of the process (`UsageAssumption`): `UsageInvariance` (`UsageInv` is
inductive as it stands: a record is in one place, a batch exists only while its
insert runs, and what is counted as dropped is what was dropped) and
`UsageDelivers`, the refinement of `Delivery`, which maps each step to a move of
the items it concerns.

For the catalog, any feeds, models, providers, overrides, handlers and faults
(`CatalogAssumption`): `CatalogIsSound` (`CatalogInv`) and `OverridesAreLive`
(`OverridesLive`). `CatalogIInv` has three arguments in it. `UpsertKeeps` says
what a bulk upsert does to the table: one row per raw key, and no key that is
neither in the table nor in the feed. `KeysInv` follows the keys from the feed
through both tables to the snapshots; it holds in every order of failures
because metadata only grows and is written and loaded first. `LockInv` and
`LiveInv` are about `customMu`: what its holder listed, or the snapshot when
nobody holds it, is the table, unless a handler is yet to load or failed to.

For the bills, any bands in ascending order and any offers (`BandsAssumption`,
`OffersAssumption`): `BestIsBilled` and `EachTokenOnce`. `ChainDescends` compares
every two places of the chain that one request may use, and `BillIs` reduces the
ten lines of a bill to the two that are not zero, for a request of any size.

Only model-checked: the liveness properties (`ChargesBecomeDurable`,
`ConfigConverges`, `RecordsSettle`, `EventsSettle`, `TriggersHonoured`,
`LoopsExit`, `CacheConverges`, `EntriesConverge`, `RequestEnds`,
`StoredBecomesLive`, `StopReturns`), since fairness and ENABLED are out of the
prover's reach. Every invariant and every safety property of the passing runs is
proved as well. No module uses a RECURSIVE operator.

## Where the code and its documents disagree

One run is a violation; `PROJECT.json` quotes the lines. The budget sync
publishes a stale window start (`governance/budget.go:110`).

Other behaviours that a reader of the code's comments and tests may not expect.
They are in the models, and the properties are stated around them:

- `RevokeVirtualKey` releases the budget of a key that was revoked before, also
  when a newer key holds it. A third key can then be bound to it, or the budget
  deleted under the active key (`dbstore/virtualkeys.go:198`;
  `virtualkeys_test.go:212` says that "there can never be a second key still
  billing against it"). `BudgetIsExclusive` is stated, and proved, up to this
  (`rerevoked`).
- A budget whose key was deactivated can be deleted, and the key activated again:
  an active key without a budget, whose requests are refused.
- A sync of budgets that listed the rows before a budget was created evicts its
  entry, until the next sync (`EntriesConverge`).
- The context of a unary call is cancelled when `ServeHTTP` returns, before the
  handler reads the body (`dataplane/transport.go:412`,
  `providers/openai/handler.go:40`), so an answer that is not yet buffered is
  lost; `dataplane_test.go:700` reads the body after `ServeHTTP` has returned and
  expects no error. In `ChatRequest` this is `expired`, and `UnaryFails` the
  answer that is lost.
- A unary request is reported complete although its answer could not be written:
  `rctx.JSON` drops the errors (`core/diffractcontext.go:127`) and
  `server/chat.go:120` sets `RequestCompleted` whatever became of it.
  `CompleteIsWhole` claims delivery to the client of streams only.
- A last run that fails is not reported by `Stop`: the loop drops its error
  (`worker/worker.go:128`) and `Group.Shutdown` returns nil
  (`CleanShutdownDrains` and `StopKeepsWork`, `failed`).
- Usage is neither recorded nor charged, and the request does not fail, when the
  buffer is full or the budget has no entry
  (`governance/hook_budget_usage_record.go:28`, `:42`); the charges that were not
  flushed go with the entry of a budget that is deleted
  (`governance/budget.go:114`).
- A credential created with `enabled: false` is stored enabled
  (`dbstore/credentials.go:18`, `default:true`).
- A key with a load balancer that is not implemented is stored and cached, and
  from then on the sync refuses the whole list (`governance/governance.go:139`):
  the premise of `CacheConverges`.
- The idle timer counts a slow client against the upstream, because the producer
  does not read while its channel is full (`dataplane/transport.go:226`;
  `configs/server.yaml:20` says "max gap BETWEEN chunks").
- A record put back after a failed insert is dropped when requests have filled
  the buffer meanwhile (`UsageHistory`, `discarded`).
- An error of `Do` is retried even when the request had reached the upstream,
  whatever the provider says about ambiguous statuses (`ChatRequest`, `broken`).
- A request without a named provider may be drawn to a provider whose config
  blocks its model, when another provider of the key allows it
  (`dataplane/dataplane.go:86`): `RoutingInv` claims the block only for requests
  that name a provider.
- Two changes of one credential that overlap may be published in the other
  order, and a deleted credential may come back until a restart
  (`CredentialsLive`, `raced`).
- A cache price for one tier only does not take the cached tokens out of the
  input, and they are billed in both lines (`core/pricing.go:742`,
  `TokensBilledOnce`); an audio price for the priority tier only makes audio
  tokens free on the others; a flex price of zero above 272k falls through to
  the plain flex price.
- A page of the log past the end reports a total of zero, since the total is a
  column of the rows; a success without a provider is in no point of the series,
  though it is in the tiles (`SeriesMatchesTiles` says so).
- `DuckDBStore.Prune` has no caller: events are kept for ever.
- When `Start` fails after a group has started, `Stop` skips the stages of the
  groups, because the gateway never was running, and closes the stores under
  their loops (`StoresOutliveJobs`, the exception of a server that is down). The
  process exits right after.
- A model whose raw key changes in the feed keeps its old row, which wins
  (`dbstore/pricing.go:168`, `Find`).

## Not modelled

- The detail and the payload of one logged request, and the columns of the event
  schema that only pass data through; formatting and logging.
- Wire formats of the providers, route tables, middleware, configuration and
  UI: sequential conversions.
- Parsing of the price feed (`modelcatalog/pricing-source.go`): the catalog takes
  its rows.
- Lines of a bill that take no tokens out of another line: the token lines for
  cache reads and writes of audio input (`core/pricing.go:778`), output video
  (`:794`) and DBUs (`:807`), whatever is billed by the second, character, image,
  pixel, page, query or request; and the price of the long cache TTL. Weights
  that are not whole numbers, whose rounding may leave a draw to the last
  provider (`dataplane/dataplane.go:132`). Proxies, the address guard and headers of the transport.
- `DeleteVirtualKey`, which no route calls, `DuckDBStore.Prune`, which nothing
  calls, the key's expiry, a comparison with the clock, and
  `core/statemanager.go`, which nothing uses.
- A panic of a handler or of a job's run.

## Plan

Done: every component that keeps state while the process runs, the life of the
process over them, and a proof of every safety property that the runs check.

Left:

1. The merge of a feed into rows, with the fields it refuses.
2. A gateway that is restarted on the tables that `Stop` left, composed with
   `BudgetWindow`.
3. Theorems beyond the runs' properties, such as bills with several parts at
   once, for which `BillIs` would have to sum over all of them.
