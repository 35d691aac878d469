---------------------------- MODULE BudgetWindow ----------------------------
(***************************************************************************)
(* One budget of the governance plane: its row in the database, its entry  *)
(* in the in-memory BudgetCache, the requests that are admitted against it *)
(* and settle their cost on it, and the goroutines that write it: the      *)
(* budget_flush_roll job, the budget_sync job and the admin updates.       *)
(*                                                                         *)
(* The counters are Go atomics, so each load, store and add is a step.     *)
(* Statements on the database are serialised (one connection), so each is  *)
(* a step too.  The budget exists throughout: creation, deletion and the  *)
(* eviction of its entry are not part of this module.                      *)
(* Money is in units, time in ticks of the clock.                          *)
(***************************************************************************)
EXTENDS Integers, FiniteSets

CONSTANTS
    Requests,     \* slots for concurrent requests
    Admins,       \* concurrent admin update handlers
    Spends,       \* costs a settled request may have (ToNanoUSD: never negative)
    SpendCap,     \* the most one request can cost
    Limits,       \* budget limits an admin may set
    LimitCap,     \* the largest of them
    Durations,    \* window durations an admin may set; 0: the window never rolls
    Enforcements, \* values of the enforce flag an admin may set
    MaxTime,      \* bound on the clock
    MaxSpent,     \* bound on the total cost settled
    MaxUpdates,   \* bound on admin updates
    MaxFaults,    \* bound on failing database statements
    MaxCrashes    \* bound on crashes of the process

ASSUME BudgetAssumption ==
    /\ Spends \subseteq Nat
    /\ Limits \subseteq Int \ {0}    \* CreateBudget refuses 0, UpdateBudget ignores it
    /\ Durations \subseteq Nat
    /\ Enforcements \subseteq BOOLEAN
    /\ MaxTime \in Nat /\ MaxSpent \in Nat /\ MaxUpdates \in Nat
    /\ MaxFaults \in Nat /\ MaxCrashes \in Nat
    /\ IsFiniteSet(Requests) /\ Requests # {}
    /\ SpendCap \in Nat /\ \A s \in Spends : s <= SpendCap
    /\ LimitCap \in Nat \ {0} /\ \A l \in Limits : l <= LimitCap

VARIABLES
    now,          \* the clock
    row,          \* the row of table budgets: what ToCore keeps as config, and the totals
    loaded,       \* the process is up and the entry is in the cache
    config,       \* Budget.Config
    windowCost,   \* Budget.WindowCost
    windowReqs,   \* Budget.WindowReqs
    lastFlushed,  \* Budget.LastFlushed
    lastReqs,     \* Budget.LastReqs
    reqPC,        \* where each request is
    gate,         \* the limit each request's CheckBudgetUsage has loaded
    job,          \* program counter and locals of budget_flush_roll
    sync,         \* program counter and locals of budget_sync
    admin,        \* program counter and locals of each updateBudget handler
    updates, faults, crashes,  \* how much of each bound is used
    spent,        \* history: everything the budget was ever charged
    archived,     \* history: totals the database held when a window was closed
    lost          \* history: charges that crashes took with the memory

entry == <<loaded, config, windowCost, windowReqs, lastFlushed, lastReqs>>
bounds == <<updates, faults, crashes>>
history == <<spent, archived, lost>>
vars == <<now, row, entry, reqPC, gate, job, sync, admin, bounds, history>>

Configs == [limit : Int, dur : Nat, enforce : BOOLEAN, refreshed : Nat]
Rows == [cfg : Configs, cost : Int, reqs : Int]

(* Placeholders of locals that are not set. *)
NoConfig == [limit |-> 0, dur |-> 0, enforce |-> FALSE, refreshed |-> 0]
NoRow == [cfg |-> NoConfig, cost |-> 0, reqs |-> 0]

-----------------------------------------------------------------------------
(* Admission and settlement.                                               *)

(* Budget.CheckBudgetUsage, called by BudgetHook.Execute: Config.Load().   *)
(* A budget that is not enforced lets the request through.                 *)
CheckLoad(r) ==
    /\ loaded /\ reqPC[r] = "idle"
    /\ reqPC' = [reqPC EXCEPT ![r] = IF config.enforce THEN "checking" ELSE "admitted"]
    /\ gate' = [gate EXCEPT ![r] = IF config.enforce THEN config.limit ELSE 0]
    /\ UNCHANGED <<now, row, entry, job, sync, admin, bounds, history>>

UnderLimitLate(r) == windowCost <= gate[r]   \* mutant: off by one
UnderLimit(r) == windowCost < gate[r]

(* WindowCost.Load() and the comparison, with the config loaded before: it *)
(* may be out of date.                                                     *)
CheckCost(r) ==
    /\ reqPC[r] = "checking"
    /\ reqPC' = [reqPC EXCEPT ![r] = IF UnderLimit(r) THEN "admitted" ELSE "idle"]
    /\ gate' = [gate EXCEPT ![r] = 0]
    /\ UNCHANGED <<now, row, entry, job, sync, admin, bounds, history>>

(* A request that ends without usage is not charged: RecordHook returns.   *)
EndUncharged(r) ==
    /\ reqPC[r] = "admitted"
    /\ reqPC' = [reqPC EXCEPT ![r] = "idle"]
    /\ UNCHANGED <<now, row, entry, job, sync, admin, gate, bounds, history>>

(* Budget.RecordUsage, called by RecordHook.Execute: the first of its two adds. *)
RecordCost(r, s) ==
    /\ reqPC[r] = "admitted"
    /\ spent + s <= MaxSpent
    /\ windowCost' = windowCost + s
    /\ spent' = spent + s
    /\ reqPC' = [reqPC EXCEPT ![r] = "counted"]
    /\ UNCHANGED <<now, row, loaded, config, windowReqs, lastFlushed, lastReqs,
                   job, sync, admin, gate, bounds, archived, lost>>

(* The second add of Budget.RecordUsage. *)
RecordReq(r) ==
    /\ reqPC[r] = "counted"
    /\ windowReqs' = windowReqs + 1
    /\ reqPC' = [reqPC EXCEPT ![r] = "idle"]
    /\ UNCHANGED <<now, row, loaded, config, windowCost, lastFlushed, lastReqs,
                   job, sync, admin, gate, bounds, history>>

-----------------------------------------------------------------------------
(* The job budget_flush_roll: flushBudgetUsage, then trackBudgetWindow.    *)

JobIdle == [pc |-> "idle", cost |-> 0, reqs |-> 0, cfg |-> NoConfig, target |-> 0]

(* A database statement fails, and the job's entry is retried next tick.   *)
Fault == faults < MaxFaults /\ faults' = faults + 1

(* flushBudgetUsage: cost := WindowCost.Load() *)
FlushLoadCost ==
    /\ loaded /\ job.pc = "idle"
    /\ job' = [job EXCEPT !.pc = "flush-reqs", !.cost = windowCost]
    /\ UNCHANGED <<now, row, entry, reqPC, gate, sync, admin, bounds, history>>

(* reqs := WindowReqs.Load(), and the comparison with what was flushed last *)
FlushLoadReqs ==
    /\ job.pc = "flush-reqs"
    /\ job' = [job EXCEPT !.reqs = windowReqs,
                          !.pc = IF job.cost = lastFlushed /\ windowReqs = lastReqs
                                 THEN "track" ELSE "flush-write"]
    /\ UNCHANGED <<now, row, entry, reqPC, gate, sync, admin, bounds, history>>

(* Store.FlushBudgetUsage: both totals in one UPDATE. *)
FlushRow == row' = [row EXCEPT !.cost = job.cost, !.reqs = job.reqs]

(* Mutant: a failed write is remembered as done. *)
FlushWriteIgnoresError ==
    /\ job.pc = "flush-write"
    /\ (FlushRow /\ UNCHANGED bounds) \/ (Fault /\ UNCHANGED <<row, updates, crashes>>)
    /\ lastFlushed' = job.cost /\ lastReqs' = job.reqs
    /\ job' = [job EXCEPT !.pc = "track"]
    /\ UNCHANGED <<now, loaded, config, windowCost, windowReqs, reqPC, gate, sync, admin, history>>

(* The write of flushBudgetUsage.  LastFlushed and LastReqs are read and   *)
(* written by this goroutine only, so storing them belongs to the step.    *)
FlushWrite ==
    /\ job.pc = "flush-write"
    /\ \/ /\ FlushRow
          /\ lastFlushed' = job.cost /\ lastReqs' = job.reqs
          /\ UNCHANGED bounds
       \/ /\ Fault
          /\ UNCHANGED <<row, lastFlushed, lastReqs, updates, crashes>>
    /\ job' = [job EXCEPT !.pc = "track"]
    /\ UNCHANGED <<now, loaded, config, windowCost, windowReqs, reqPC, gate, sync, admin, history>>

(* budgetResetTarget: whether a window boundary was reached, and the most  *)
(* recent one.                                                             *)
ResetDue(cfg, t) == cfg.dur > 0 /\ t - cfg.refreshed >= cfg.dur
ResetTarget(cfg, t) == cfg.refreshed + ((t - cfg.refreshed) \div cfg.dur) * cfg.dur

(* trackBudgetWindow: cfg := Config.Load(), and whether a reset is due.    *)
TrackLoad ==
    /\ job.pc = "track"
    /\ job' = IF ResetDue(config, now)
              THEN [job EXCEPT !.pc = "roll-cost", !.cfg = config,
                               !.target = ResetTarget(config, now)]
              ELSE JobIdle
    /\ UNCHANGED <<now, row, entry, reqPC, gate, sync, admin, bounds, history>>

RollLoadCost ==
    /\ job.pc = "roll-cost"
    /\ job' = [job EXCEPT !.pc = "roll-reqs", !.cost = windowCost]
    /\ UNCHANGED <<now, row, entry, reqPC, gate, sync, admin, bounds, history>>

RollLoadReqs ==
    /\ job.pc = "roll-reqs"
    /\ job' = [job EXCEPT !.pc = "roll-flush", !.reqs = windowReqs]
    /\ UNCHANGED <<now, row, entry, reqPC, gate, sync, admin, bounds, history>>

(* The closing total is written before the reset; on an error the roll is  *)
(* left for the next tick, with LastFlushed as it was.                     *)
RollFlush ==
    /\ job.pc = "roll-flush"
    /\ \/ /\ FlushRow
          /\ job' = [job EXCEPT !.pc = "roll-reset"]
          /\ UNCHANGED bounds
       \/ /\ Fault
          /\ job' = JobIdle
          /\ UNCHANGED <<row, updates, crashes>>
    /\ UNCHANGED <<now, entry, reqPC, gate, sync, admin, history>>

(* Mutant: a failed reset is taken for done. *)
RollResetIgnoresError ==
    /\ job.pc = "roll-reset"
    /\ Fault
    /\ job' = [job EXCEPT !.pc = "roll-config"]
    /\ UNCHANGED <<row, archived, updates, crashes, now, entry, reqPC, gate, sync, admin, spent, lost>>

(* Store.ResetBudgetWindow *)
RollReset ==
    /\ job.pc = "roll-reset"
    /\ \/ /\ row' = [cfg |-> [row.cfg EXCEPT !.refreshed = job.target], cost |-> 0, reqs |-> 0]
          /\ archived' = archived + row.cost
          /\ job' = [job EXCEPT !.pc = "roll-config"]
          /\ UNCHANGED bounds
       \/ /\ Fault
          /\ job' = JobIdle
          /\ UNCHANGED <<row, archived, updates, crashes>>
    /\ UNCHANGED <<now, entry, reqPC, gate, sync, admin, spent, lost>>

(* b.Config.Store(&newCfg): the config loaded by TrackLoad, refreshed.     *)
RollConfig ==
    /\ job.pc = "roll-config"
    /\ config' = [job.cfg EXCEPT !.refreshed = job.target]
    /\ job' = [job EXCEPT !.pc = "roll-sub-cost"]
    /\ UNCHANGED <<now, row, loaded, windowCost, windowReqs, lastFlushed, lastReqs,
                   reqPC, gate, sync, admin, bounds, history>>

(* Mutant: the counter is set to zero. *)
RollStoreZero ==
    /\ job.pc = "roll-sub-cost"
    /\ windowCost' = 0
    /\ job' = [job EXCEPT !.pc = "roll-sub-reqs"]
    /\ UNCHANGED <<now, row, loaded, config, windowReqs, lastFlushed, lastReqs,
                   reqPC, gate, sync, admin, bounds, history>>

(* b.WindowCost.Add(-cost) *)
RollSubCost ==
    /\ job.pc = "roll-sub-cost"
    /\ windowCost' = windowCost - job.cost
    /\ job' = [job EXCEPT !.pc = "roll-sub-reqs"]
    /\ UNCHANGED <<now, row, loaded, config, windowReqs, lastFlushed, lastReqs,
                   reqPC, gate, sync, admin, bounds, history>>

(* b.WindowReqs.Add(-reqs), and the two stores only this goroutine reads.  *)
RollSubReqs ==
    /\ job.pc = "roll-sub-reqs"
    /\ windowReqs' = windowReqs - job.reqs
    /\ lastFlushed' = 0 /\ lastReqs' = 0
    /\ job' = JobIdle
    /\ UNCHANGED <<now, row, loaded, config, windowCost,
                   reqPC, gate, sync, admin, bounds, history>>

FlushRollJob ==
    \/ FlushLoadCost \/ FlushLoadReqs \/ FlushWrite
    \/ TrackLoad \/ RollLoadCost \/ RollLoadReqs \/ RollFlush \/ RollReset
    \/ RollConfig \/ RollSubCost \/ RollSubReqs

-----------------------------------------------------------------------------
(* The job budget_sync.  It runs once inside Start, before any request and *)
(* before the other jobs, and then on its ticker.                          *)

Idle == [pc |-> "idle", row |-> NoRow]

(* syncBudget: Store.ListBudgets.  A failure ends the run with no effect.  *)
SyncList ==
    /\ sync.pc = "idle"
    /\ \/ sync' = [pc |-> "listed", row |-> row] /\ UNCHANGED bounds
       \/ Fault /\ UNCHANGED <<sync, updates, crashes>>
    /\ UNCHANGED <<now, row, entry, reqPC, gate, job, admin, history>>

(* Mutants: an entry that is there is seeded again, and one that keeps its *)
(* old config.                                                             *)
UpsertReseeds(r) ==
    /\ config' = r.cfg /\ loaded' = TRUE
    /\ windowCost' = r.cost /\ lastFlushed' = r.cost
    /\ windowReqs' = r.reqs /\ lastReqs' = r.reqs
UpsertKeepsConfig(r) ==
    /\ config' = IF loaded THEN config ELSE r.cfg
    /\ loaded' = TRUE
    /\ IF loaded
       THEN UNCHANGED <<windowCost, windowReqs, lastFlushed, lastReqs>>
       ELSE /\ windowCost' = r.cost /\ lastFlushed' = r.cost
            /\ windowReqs' = r.reqs /\ lastReqs' = r.reqs

(* BudgetCache.UpsertBudget: a new entry is seeded from the row, an entry  *)
(* that is there only gets the config.                                     *)
UpsertBudget(r) ==
    /\ config' = r.cfg
    /\ loaded' = TRUE
    /\ IF loaded
       THEN UNCHANGED <<windowCost, windowReqs, lastFlushed, lastReqs>>
       ELSE /\ windowCost' = r.cost /\ lastFlushed' = r.cost
            /\ windowReqs' = r.reqs /\ lastReqs' = r.reqs

(* BudgetCache.LoadBudgets *)
SyncLoad ==
    /\ sync.pc = "listed"
    /\ UpsertBudget(sync.row)
    /\ sync' = Idle
    /\ UNCHANGED <<now, row, reqPC, gate, job, admin, bounds, history>>

SyncJob == SyncList \/ SyncLoad

-----------------------------------------------------------------------------
(* The handler updateBudget.                                               *)

(* Store.UpdateBudget: the GetBudget of the existing row. *)
UpdateRead(a) ==
    /\ loaded /\ admin[a].pc = "idle" /\ updates < MaxUpdates
    /\ updates' = updates + 1
    /\ admin' = [admin EXCEPT ![a] = [pc |-> "write", row |-> row]]
    /\ UNCHANGED <<now, row, entry, reqPC, gate, job, sync, faults, crashes, history>>

(* ... the UPDATE of the columns in which the payload differs from it; a   *)
(* payload that differs in none returns the row that was read.             *)
UpdateWrite(a, l, d, e) ==
    /\ admin[a].pc = "write"
    /\ LET old == admin[a].row.cfg IN
       /\ row' = [row EXCEPT !.cfg =
                     [limit |-> IF l = old.limit THEN row.cfg.limit ELSE l,
                      dur |-> IF d = old.dur THEN row.cfg.dur ELSE d,
                      enforce |-> IF e = old.enforce THEN row.cfg.enforce ELSE e,
                      refreshed |-> row.cfg.refreshed]]
       /\ admin' = [admin EXCEPT ![a] =
                       IF l = old.limit /\ d = old.dur /\ e = old.enforce
                       THEN [pc |-> "store", row |-> admin[a].row]
                       ELSE [pc |-> "reread", row |-> NoRow]]
    /\ UNCHANGED <<now, entry, reqPC, gate, job, sync, bounds, history>>

(* ... and the GetBudget that reads the row back.                          *)
UpdateReread(a) ==
    /\ admin[a].pc = "reread"
    /\ admin' = [admin EXCEPT ![a] = [pc |-> "store", row |-> row]]
    /\ UNCHANGED <<now, row, entry, reqPC, gate, job, sync, bounds, history>>

(* When a statement fails, so does the request, and the cache stays as it  *)
(* is although the row may have changed.                                   *)
UpdateFails(a) ==
    /\ admin[a].pc \in {"write", "reread"}
    /\ Fault
    /\ admin' = [admin EXCEPT ![a] = Idle]
    /\ UNCHANGED <<now, row, entry, reqPC, gate, job, sync, updates, crashes, history>>

UpdateStore(a) ==
    /\ admin[a].pc = "store"
    /\ UpsertBudget(admin[a].row)
    /\ admin' = [admin EXCEPT ![a] = Idle]
    /\ UNCHANGED <<now, row, reqPC, gate, job, sync, bounds, history>>

UpdateContinues(a) ==
    \/ \E l \in Limits, d \in Durations, e \in Enforcements : UpdateWrite(a, l, d, e)
    \/ UpdateReread(a) \/ UpdateFails(a) \/ UpdateStore(a)

UpdateBudget(a) == UpdateRead(a) \/ UpdateContinues(a)

-----------------------------------------------------------------------------
(* The environment: the clock, and a crash of the process.  The process is *)
(* restarted by the next SyncList and SyncLoad.                            *)

Tick == now < MaxTime /\ now' = now + 1
        /\ UNCHANGED <<row, entry, reqPC, gate, job, sync, admin, bounds, history>>

(* What RollSubCost is about to subtract: the database has closed it.      *)
Closing == IF job.pc \in {"roll-config", "roll-sub-cost"} THEN job.cost ELSE 0

Crash ==
    /\ loaded /\ crashes < MaxCrashes
    /\ crashes' = crashes + 1
    /\ lost' = lost + (windowCost - Closing - row.cost)
    /\ loaded' = FALSE
    /\ reqPC' = [r \in Requests |-> "idle"] /\ gate' = [r \in Requests |-> 0]
    /\ job' = JobIdle
    /\ sync' = Idle
    /\ admin' = [a \in Admins |-> Idle]
    /\ UNCHANGED <<now, row, config, windowCost, windowReqs, lastFlushed, lastReqs,
                   updates, faults, spent, archived>>

-----------------------------------------------------------------------------
(* The row that an earlier life of the process left behind. *)
Init ==
    /\ now = 0
    /\ row \in [cfg : [limit : Limits, dur : Durations, enforce : Enforcements, refreshed : {0}],
                cost : Spends, reqs : {1}]
    /\ loaded = FALSE
    /\ config = NoConfig
    /\ windowCost = 0 /\ windowReqs = 0 /\ lastFlushed = 0 /\ lastReqs = 0
    /\ reqPC = [r \in Requests |-> "idle"] /\ gate = [r \in Requests |-> 0]
    /\ job = JobIdle
    /\ sync = Idle
    /\ admin = [a \in Admins |-> Idle]
    /\ updates = 0 /\ faults = 0 /\ crashes = 0
    /\ spent = row.cost /\ archived = 0 /\ lost = 0

Request(r) ==
    \/ CheckLoad(r) \/ CheckCost(r) \/ EndUncharged(r) \/ RecordReq(r)
    \/ \E s \in Spends : RecordCost(r, s)

Next ==
    \/ \E r \in Requests : Request(r)
    \/ FlushRollJob
    \/ SyncJob
    \/ \E a \in Admins : UpdateBudget(a)
    \/ Tick
    \/ Crash

Spec == Init /\ [][Next]_vars

(* The worker group runs each job on its ticker for as long as the process *)
(* lives, a handler that started runs to its end, and the process is       *)
(* started again after a crash.  Nothing forces a client or an admin.      *)
Fairness ==
    /\ WF_vars(FlushRollJob)
    /\ WF_vars(SyncJob)
    /\ \A r \in Requests : WF_vars(RecordReq(r))
    /\ \A a \in Admins : WF_vars(UpdateContinues(a))

FairSpec == Spec /\ Fairness

-----------------------------------------------------------------------------
(* Properties. *)

JobPCs == {"idle", "flush-reqs", "flush-write", "track", "roll-cost", "roll-reqs",
           "roll-flush", "roll-reset", "roll-config", "roll-sub-cost", "roll-sub-reqs"}
Jobs == [pc : JobPCs, cost : Int, reqs : Int, cfg : Configs, target : Nat]

(* Every variable has the type its Go counterpart gives it. *)
TypeOK ==
    /\ now \in Nat
    /\ row \in Rows
    /\ loaded \in BOOLEAN
    /\ config \in Configs
    /\ windowCost \in Int /\ windowReqs \in Int /\ lastFlushed \in Int /\ lastReqs \in Int
    /\ reqPC \in [Requests -> {"idle", "checking", "admitted", "counted"}]
    /\ gate \in [Requests -> Int]
    /\ job \in Jobs
    /\ sync \in [pc : {"idle", "listed"}, row : Rows]
    /\ admin \in [Admins -> [pc : {"idle", "write", "reread", "store"}, row : Rows]]
    /\ updates \in Nat /\ faults \in Nat /\ crashes \in Nat
    /\ spent \in Nat /\ archived \in Int /\ lost \in Int

(* Every charge is in exactly one place: in the live counter, in a total   *)
(* the database held when it closed a window, or among what a crash took.  *)
(* The roll of trackBudgetWindow subtracts the total it closed, so a       *)
(* request that settles while the roll runs is neither dropped nor counted *)
(* twice, whichever statement fails.                                       *)
Ledger ==
    spent = archived + lost + (IF loaded THEN windowCost - Closing ELSE row.cost)

(* The gate never sees less than the database holds: after every flush,    *)
(* failed statement, roll and restart the counter CheckBudgetUsage reads   *)
(* covers the total of the row, so nobody gets a fresh allowance.          *)
MemoryCoversDatabase == loaded => windowCost - Closing >= row.cost /\ row.cost >= 0

(* The shortcut of flushBudgetUsage is safe: when both counters equal what *)
(* was flushed last, the row holds them, also after a roll that failed     *)
(* between its two statements.                                             *)
FlushSkipIsSafe ==
    (loaded /\ job.pc \in {"idle", "track"} /\ windowCost = lastFlushed /\ windowReqs = lastReqs)
        => row.cost = windowCost /\ row.reqs = windowReqs

InFlight == {r \in Requests : reqPC[r] = "admitted"}

(* Admission checks the counter and charges later, so a budget may be      *)
(* overspent, but only by what the requests in flight can cost: while the  *)
(* budget is enforced the counter stays below the limit plus one request   *)
(* cost per concurrent request, through rolls, syncs, updates and crashes. *)
OvershootBounded ==
    (Enforcements = {TRUE} /\ loaded)
        => windowCost + Cardinality(InFlight) * SpendCap
             < LimitCap + Cardinality(Requests) * SpendCap

(* Spend is wiped only at the end of a window: a reset of the row that     *)
(* discards a total moves the window start forward.                        *)
SpendWipedOnlyAtWindowEnd ==
    [][row.cost > 0 /\ row'.cost = 0 => row'.cfg.refreshed > row.cfg.refreshed]_row

(* Once clients, admins and faults are quiet, every charge that no crash   *)
(* took is in the database, although flushes failed or raced with charges. *)
ChargesBecomeDurable == <>[](spent = archived + lost + row.cost)

(* The config the gate uses settles on the row: a limit that an admin set  *)
(* is not lost for good when a roll or a stale sync stored an older one.   *)
ConfigConverges == <>[](loaded /\ config = row.cfg)

-----------------------------------------------------------------------------
(* The inductive invariant, from which Ledger, MemoryCoversDatabase,       *)
(* FlushSkipIsSafe and OvershootBounded follow.                            *)

(* Before the process is loaded nothing of it runs but the first sync.     *)
DownInv ==
    ~loaded => /\ job.pc = "idle"
               /\ \A r \in Requests : reqPC[r] = "idle"
               /\ \A a \in Admins : admin[a].pc = "idle"
               /\ sync.pc = "listed" => sync.row.cost = row.cost /\ sync.row.reqs = row.reqs

(* What the roll will subtract from WindowReqs. *)
ClosingReqs ==
    IF job.pc \in {"roll-config", "roll-sub-cost", "roll-sub-reqs"} THEN job.reqs ELSE 0

(* The row, the locals of the job and the counters only ever lag behind    *)
(* one another in this order.                                              *)
LagInv ==
    /\ row.cost >= 0 /\ row.reqs >= 0
    /\ loaded => row.cost <= windowCost - Closing /\ row.reqs <= windowReqs - ClosingReqs
    /\ (loaded /\ job.pc \in {"flush-reqs", "flush-write", "roll-reqs", "roll-flush", "roll-reset"})
          => row.cost <= job.cost /\ job.cost <= windowCost
    /\ (loaded /\ job.pc \in {"flush-write", "roll-flush", "roll-reset"})
          => row.reqs <= job.reqs /\ job.reqs <= windowReqs
    /\ job.pc = "roll-reset" => row.cost = job.cost /\ row.reqs = job.reqs
    /\ job.pc \in {"roll-config", "roll-sub-cost", "roll-sub-reqs"}
          => job.cost >= 0 /\ job.reqs >= 0
    /\ (loaded /\ job.pc \notin {"roll-config", "roll-sub-cost", "roll-sub-reqs"})
          => lastFlushed <= row.cost /\ lastReqs <= row.reqs

(* Every config in circulation is enforced and within the largest limit.   *)
Gated(c) == c.enforce /\ c.limit <= LimitCap
GateInv ==
    Enforcements = {TRUE} =>
        /\ Gated(row.cfg)
        /\ loaded => Gated(config)
        /\ \A r \in Requests : reqPC[r] = "checking" => gate[r] <= LimitCap
        /\ sync.pc = "listed" => Gated(sync.row.cfg)
        /\ \A a \in Admins : admin[a].pc \in {"write", "store"} => Gated(admin[a].row.cfg)
        /\ job.pc \in {"roll-cost", "roll-reqs", "roll-flush", "roll-reset", "roll-config"}
              => Gated(job.cfg)

(* The bound of OvershootBounded, carried through a restart by the row.    *)
Exposure == IF loaded THEN windowCost + Cardinality(InFlight) * SpendCap ELSE row.cost
ExposureInv ==
    Enforcements = {TRUE} => Exposure < LimitCap + Cardinality(Requests) * SpendCap

SafeInv == DownInv /\ LagInv /\ Ledger
BudgetInv == TypeOK /\ SafeInv /\ GateInv /\ ExposureInv
=============================================================================
