------------------------- MODULE BudgetWindowProofs -------------------------
(***************************************************************************)
(* Proofs about BudgetWindow for every number of requests and admins, all  *)
(* costs, limits and durations, and any number of crashes and faults.      *)
(***************************************************************************)
EXTENDS BudgetWindow, FiniteSetTheorems, TLAPS

USE DEF entry, bounds, history

(* One step of the specification, as the disjunction of its actions.       *)
LEMMA NextCases ==
  ASSUME [Next]_vars
  PROVE  \/ \E r \in Requests : CheckLoad(r) \/ CheckCost(r) \/ EndUncharged(r) \/ RecordReq(r)
         \/ \E r \in Requests, s \in Spends : RecordCost(r, s)
         \/ FlushLoadCost \/ FlushLoadReqs \/ FlushWrite \/ TrackLoad
         \/ RollLoadCost \/ RollLoadReqs \/ RollFlush \/ RollReset
         \/ RollConfig \/ RollSubCost \/ RollSubReqs
         \/ SyncList \/ SyncLoad
         \/ \E a \in Admins : UpdateRead(a) \/ UpdateReread(a) \/ UpdateFails(a) \/ UpdateStore(a)
         \/ \E a \in Admins, l \in Limits, d \in Durations, e \in Enforcements :
               UpdateWrite(a, l, d, e)
         \/ Tick \/ Crash
         \/ UNCHANGED vars
  BY DEF Next, Request, FlushRollJob, SyncJob, UpdateBudget, UpdateContinues

(* budgetResetTarget never moves a window backwards.                       *)
LEMMA TargetType ==
  ASSUME NEW c \in Configs, NEW t \in Nat, ResetDue(c, t)
  PROVE  ResetTarget(c, t) \in Nat
  <1> DEFINE e == t - c.refreshed
  <1>1. c.dur \in Nat /\ c.dur > 0 /\ c.refreshed \in Nat /\ e \in Nat
    BY DEF ResetDue, Configs
  <1>2. e \div c.dur \in Nat
    BY <1>1
  <1>3. (e \div c.dur) * c.dur \in Nat
    BY <1>1, <1>2
  <1> QED BY <1>1, <1>3 DEF ResetTarget

(* The placeholders are well typed. *)
LEMMA Placeholders == NoConfig \in Configs /\ NoRow \in Rows /\ JobIdle \in Jobs
  <1>1. NoConfig \in Configs /\ NoRow \in Rows
    BY DEF NoConfig, NoRow, Configs, Rows
  <1> QED BY <1>1 DEF JobIdle, Jobs, JobPCs

LEMMA TypeStep == ASSUME TypeOK, [Next]_vars PROVE TypeOK'
  <1> USE BudgetAssumption, Placeholders DEF TypeOK
  <1>a. row.cost \in Int /\ row.reqs \in Int /\ row.cfg \in Configs
    BY DEF Rows
  <1>b. job.cost \in Int /\ job.reqs \in Int /\ job.cfg \in Configs /\ job.target \in Nat
    BY DEF Jobs
  <1>c. \A r \in Rows : r.cfg \in Configs /\ r.cost \in Int /\ r.reqs \in Int
    BY DEF Rows
  <1>1. CASE \E r \in Requests : CheckLoad(r) \/ CheckCost(r) \/ EndUncharged(r) \/ RecordReq(r)
    <2>1. config.limit \in Int
      BY DEF Configs
    <2>2. reqPC' \in [Requests -> {"idle", "checking", "admitted", "counted"}]
      BY <1>1 DEF CheckLoad, CheckCost, EndUncharged, RecordReq
    <2>3. gate' \in [Requests -> Int]
      BY <1>1, <2>1 DEF CheckLoad, CheckCost, EndUncharged, RecordReq
    <2> QED BY <1>1, <1>a, <1>b, <2>2, <2>3 DEF CheckLoad, CheckCost, EndUncharged, RecordReq
  <1>2. CASE \E r \in Requests, s \in Spends : RecordCost(r, s)
    <2>1. PICK r \in Requests, s \in Spends : RecordCost(r, s)
      BY <1>2
    <2>2. s \in Nat
      OBVIOUS
    <2>3. windowCost' \in Int /\ spent' \in Nat
      BY <2>1, <2>2 DEF RecordCost
    <2> QED BY <2>1, <2>3 DEF RecordCost
  <1>3. CASE FlushLoadCost
    <2>1. job' \in Jobs
      BY <1>3, <1>a, <1>b DEF FlushLoadCost, Jobs, JobPCs
    <2> QED BY <1>3, <1>a, <1>b, <2>1 DEF FlushLoadCost
  <1>4. CASE FlushLoadReqs
    <2>1. job' \in Jobs
      BY <1>4, <1>a, <1>b DEF FlushLoadReqs, Jobs, JobPCs
    <2> QED BY <1>4, <1>a, <1>b, <2>1 DEF FlushLoadReqs
  <1>5. CASE FlushWrite
    <2>1. job' \in Jobs
      BY <1>5, <1>a, <1>b DEF FlushWrite, FlushRow, Fault, Jobs, JobPCs
    <2>2. row' \in Rows
      BY <1>5, <1>a, <1>b DEF FlushWrite, FlushRow, Fault, Rows
    <2> QED BY <1>5, <1>a, <1>b, <2>1, <2>2 DEF FlushWrite, FlushRow, Fault
  <1>6. CASE TrackLoad
    <2>1. ResetDue(config, now) => ResetTarget(config, now) \in Nat
      BY TargetType
    <2>2. job' \in Jobs
      BY <1>6, <2>1 DEF TrackLoad, Jobs, JobPCs
    <2> QED BY <1>6, <2>2 DEF TrackLoad
  <1>7. CASE RollLoadCost
    <2>1. job' \in Jobs
      BY <1>7, <1>a, <1>b DEF RollLoadCost, Jobs, JobPCs
    <2> QED BY <1>7, <1>a, <1>b, <2>1 DEF RollLoadCost
  <1>8. CASE RollLoadReqs
    <2>1. job' \in Jobs
      BY <1>8, <1>a, <1>b DEF RollLoadReqs, Jobs, JobPCs
    <2> QED BY <1>8, <1>a, <1>b, <2>1 DEF RollLoadReqs
  <1>9. CASE RollFlush
    <2>1. job' \in Jobs
      BY <1>9, <1>a, <1>b DEF RollFlush, FlushRow, Fault, Jobs, JobPCs
    <2>2. row' \in Rows
      BY <1>9, <1>a, <1>b DEF RollFlush, FlushRow, Fault, Rows
    <2> QED BY <1>9, <1>a, <1>b, <2>1, <2>2 DEF RollFlush, FlushRow, Fault
  <1>10. CASE RollReset
    <2>1. job' \in Jobs
      BY <1>10, <1>a, <1>b DEF RollReset, Fault, Jobs, JobPCs
    <2>2. row' \in Rows
      <3>1. [row.cfg EXCEPT !.refreshed = job.target] \in Configs
        BY <1>a, <1>b DEF Configs
      <3>2. [cfg |-> [row.cfg EXCEPT !.refreshed = job.target], cost |-> 0, reqs |-> 0] \in Rows
        BY <3>1 DEF Rows
      <3> QED BY <1>10, <3>2 DEF RollReset
    <2> QED BY <1>10, <1>a, <1>b, <2>1, <2>2 DEF RollReset, Fault
  <1>11. CASE RollConfig
    <2>1. job' \in Jobs
      BY <1>11, <1>a, <1>b DEF RollConfig, Jobs, JobPCs
    <2>2. config' \in Configs
      BY <1>11, <1>a, <1>b DEF RollConfig, Configs
    <2> QED BY <1>11, <1>a, <1>b, <2>1, <2>2 DEF RollConfig
  <1>12. CASE RollSubCost
    <2>1. job' \in Jobs
      BY <1>12, <1>a, <1>b DEF RollSubCost, Jobs, JobPCs
    <2> QED BY <1>12, <1>a, <1>b, <2>1 DEF RollSubCost
  <1>13. CASE RollSubReqs
    <2>1. job' \in Jobs
      BY <1>13, <1>a, <1>b DEF RollSubReqs, Jobs, JobPCs
    <2> QED BY <1>13, <1>a, <1>b, <2>1 DEF RollSubReqs
  <1>14. CASE SyncList
    BY <1>14, <1>a, <1>b DEF SyncList, Fault
  <1>15. CASE SyncLoad
    <2>1. config' \in Configs
      BY <1>15, <1>a, <1>b DEF SyncLoad, UpsertBudget, Idle, Configs, Rows
    <2>2. sync.row \in Rows
      OBVIOUS
    <2>3. windowCost' \in Int /\ windowReqs' \in Int /\ lastFlushed' \in Int /\ lastReqs' \in Int
      BY <1>15, <1>c, <2>2 DEF SyncLoad, UpsertBudget
    <2>4. sync' \in [pc : {"idle", "listed"}, row : Rows]
      BY <1>15 DEF SyncLoad, Idle
    <2> QED BY <1>15, <2>1, <2>3, <2>4 DEF SyncLoad, UpsertBudget
  <1>16. CASE \E a \in Admins : UpdateRead(a) \/ UpdateReread(a) \/ UpdateFails(a)
    <2>1. admin' \in [Admins -> [pc : {"idle", "write", "reread", "store"}, row : Rows]]
      BY <1>16 DEF UpdateRead, UpdateReread, UpdateFails, Idle
    <2> QED BY <1>16, <2>1 DEF UpdateRead, UpdateReread, UpdateFails, Fault
  <1>17. CASE \E a \in Admins : UpdateStore(a)
    <2>1. config' \in Configs
      BY <1>17, <1>a, <1>b DEF UpdateStore, UpsertBudget, Idle, Configs, Rows
    <2>2. PICK a \in Admins : UpdateStore(a)
      BY <1>17
    <2>3. admin[a].row \in Rows
      OBVIOUS
    <2>4. windowCost' \in Int /\ windowReqs' \in Int /\ lastFlushed' \in Int /\ lastReqs' \in Int
      BY <1>c, <2>2, <2>3 DEF UpdateStore, UpsertBudget
    <2>5. admin' \in [Admins -> [pc : {"idle", "write", "reread", "store"}, row : Rows]]
      BY <2>2 DEF UpdateStore, Idle
    <2> QED BY <2>1, <2>2, <2>4, <2>5 DEF UpdateStore, UpsertBudget
  <1>18. CASE \E a \in Admins, l \in Limits, d \in Durations, e \in Enforcements :
               UpdateWrite(a, l, d, e)
    <2>1. row' \in Rows
      <3>1. PICK a \in Admins, l \in Limits, d \in Durations, e \in Enforcements :
                 UpdateWrite(a, l, d, e)
        BY <1>18
      <3>2. /\ row.cfg.limit \in Int /\ row.cfg.dur \in Nat /\ row.cfg.refreshed \in Nat
            /\ l \in Int /\ d \in Nat
        BY <1>a DEF Configs
      <3>3. row.cfg.enforce \in BOOLEAN /\ e \in BOOLEAN
        <4>1. row.cfg.enforce \in BOOLEAN
          BY <1>a DEF Configs
        <4>2. e \in BOOLEAN
          BY Zenon DEF BudgetAssumption
        <4> QED BY <4>1, <4>2
      <3> DEFINE old == admin[a].row.cfg
                 x == IF l = old.limit THEN row.cfg.limit ELSE l
                 y == IF d = old.dur THEN row.cfg.dur ELSE d
                 z == IF e = old.enforce THEN row.cfg.enforce ELSE e
                 c == [limit |-> x, dur |-> y, enforce |-> z, refreshed |-> row.cfg.refreshed]
      <3>4. row' = [row EXCEPT !.cfg = c]
        BY <3>1, Zenon DEF UpdateWrite
      <3>5. c \in Configs
        <4>1. x \in Int /\ y \in Nat /\ row.cfg.refreshed \in Nat
          BY <3>2
        <4>2. z \in BOOLEAN
          BY <3>3, Zenon
        <4> HIDE DEF x, y, z
        <4> QED BY <4>1, <4>2 DEF Configs
      <3> HIDE DEF c
      <3> QED BY <3>4, <3>5 DEF Rows
    <2>2. admin' \in [Admins -> [pc : {"idle", "write", "reread", "store"}, row : Rows]]
      BY <1>18 DEF UpdateWrite
    <2> QED BY <1>18, <1>a, <1>b, <2>1, <2>2 DEF UpdateWrite
  <1>19. CASE Tick
    BY <1>19, <1>a, <1>b DEF Tick
  <1>20. CASE Crash
    <2>1. job' \in Jobs
      BY <1>20, <1>a, <1>b DEF Crash, Closing, Idle, Jobs, JobPCs
    <2>2. Closing \in Int
      BY <1>b DEF Closing
    <2>3. lost' \in Int /\ crashes' \in Nat
      BY <1>20, <1>a, <2>2 DEF Crash
    <2>4. /\ reqPC' \in [Requests -> {"idle", "checking", "admitted", "counted"}]
          /\ gate' \in [Requests -> Int]
          /\ sync' \in [pc : {"idle", "listed"}, row : Rows]
          /\ admin' \in [Admins -> [pc : {"idle", "write", "reread", "store"}, row : Rows]]
      BY <1>20 DEF Crash, Idle
    <2> QED BY <1>20, <2>1, <2>3, <2>4 DEF Crash
  <1>21. CASE UNCHANGED vars
    BY <1>21, <1>a, <1>b DEF vars
  <1> QED
    BY NextCases, <1>1, <1>2, <1>3, <1>4, <1>5, <1>6, <1>7, <1>8, <1>9, <1>10, <1>11, <1>12, <1>13, <1>14, <1>15, <1>16, <1>17, <1>18, <1>19, <1>20, <1>21

(* Every variable keeps the type its Go counterpart gives it: whatever the *)
(* interleaving of requests, jobs, admins and crashes.                     *)
THEOREM TypeCorrect == Spec => []TypeOK
  <1>0. Limits \subseteq Int /\ Durations \subseteq Nat /\ 0 \in Nat
    BY BudgetAssumption
  <1>1. Init => TypeOK
    <2> SUFFICES ASSUME Init PROVE TypeOK
      OBVIOUS
    <2> USE BudgetAssumption, Placeholders DEF Init
    <2>1. PICK g \in [limit : Limits, dur : Durations, enforce : Enforcements, refreshed : {0}],
               c \in Spends : row = [cfg |-> g, cost |-> c, reqs |-> 1]
      OBVIOUS
    <2>2. g \in Configs
      <3>3. g.limit \in Limits /\ g.dur \in Durations /\ g.enforce \in Enforcements /\ g.refreshed = 0
        OBVIOUS
      <3>1. g.limit \in Int /\ g.dur \in Nat /\ g.refreshed \in Nat
        BY <1>0, <3>3, Zenon
      <3>4. g.enforce \in BOOLEAN
        BY <3>3, Zenon DEF BudgetAssumption
      <3>2. g = [limit |-> g.limit, dur |-> g.dur, enforce |-> g.enforce, refreshed |-> g.refreshed]
        OBVIOUS
      <3> QED BY <3>1, <3>2, <3>4 DEF Configs
    <2>3. row \in Rows /\ row.cost \in Nat
      BY <2>1, <2>2 DEF Rows
    <2>4. /\ sync \in [pc : {"idle", "listed"}, row : Rows]
          /\ admin \in [Admins -> [pc : {"idle", "write", "reread", "store"}, row : Rows]]
      BY DEF Idle
    <2>5. now \in Nat /\ windowCost \in Int /\ windowReqs \in Int /\ lastFlushed \in Int /\ lastReqs \in Int
      OBVIOUS
    <2>6. updates \in Nat /\ faults \in Nat /\ crashes \in Nat
      OBVIOUS
    <2>7. spent \in Nat /\ archived \in Int /\ lost \in Int
      BY <2>3
    <2>8. /\ reqPC \in [Requests -> {"idle", "checking", "admitted", "counted"}]
          /\ gate \in [Requests -> Int] /\ config \in Configs /\ job \in Jobs
      OBVIOUS
    <2>9. loaded \in BOOLEAN
      OBVIOUS
    <2> QED BY <2>3, <2>4, <2>5, <2>6, <2>7, <2>8, <2>9, Zenon DEF TypeOK
  <1>2. TypeOK /\ [Next]_vars => TypeOK'
    BY TypeStep
  <1> QED BY <1>1, <1>2, PTL DEF Spec

(* Each step keeps the order in which row, job and counters lag, and the   *)
(* ledger with it.                                                         *)
LEMMA SafeStep == ASSUME TypeOK, SafeInv, [Next]_vars PROVE SafeInv'
  <1> USE DEF SafeInv, DownInv, LagInv, Ledger, Closing, ClosingReqs
  <1>a. row \in Rows /\ row.cost \in Int /\ row.reqs \in Int
    BY DEF TypeOK, Rows
  <1>b. job \in Jobs /\ job.cost \in Int /\ job.reqs \in Int
    BY DEF TypeOK, Jobs
  <1>c. /\ windowCost \in Int /\ windowReqs \in Int /\ lastFlushed \in Int /\ lastReqs \in Int
        /\ spent \in Int /\ archived \in Int /\ lost \in Int
    BY DEF TypeOK
  <1>1. CASE \E r \in Requests : CheckLoad(r) \/ CheckCost(r)
    BY <1>1, <1>a, <1>b, <1>c DEF CheckLoad, CheckCost, TypeOK, Rows, Jobs
  <1>2. CASE \E r \in Requests : EndUncharged(r)
    BY <1>2, <1>a, <1>b, <1>c DEF EndUncharged, TypeOK, Rows, Jobs
  <1>3. CASE \E r \in Requests : RecordReq(r)
    BY <1>3, <1>a, <1>b, <1>c DEF RecordReq, TypeOK, Rows, Jobs
  <1>4. CASE \E r \in Requests, s \in Spends : RecordCost(r, s)
    <2>1. PICK r \in Requests, s \in Spends : RecordCost(r, s)
      BY <1>4
    <2>2. s \in Nat
      BY BudgetAssumption
    <2>3. loaded
      BY <2>1 DEF RecordCost
    <2> QED BY <2>1, <2>2, <2>3, <1>a, <1>b, <1>c DEF RecordCost, TypeOK
  <1>5. CASE FlushLoadCost
    BY <1>5, <1>a, <1>b, <1>c DEF FlushLoadCost, TypeOK, Rows, Jobs
  <1>6. CASE FlushLoadReqs
    BY <1>6, <1>a, <1>b, <1>c DEF FlushLoadReqs, TypeOK, Rows, Jobs
  <1>7. CASE FlushWrite
    <2>1. FlushRow => row'.cost = job.cost /\ row'.reqs = job.reqs
      BY <1>a DEF FlushRow, Rows
    <2>2. CASE FlushRow
      BY <1>7, <2>1, <2>2, <1>a, <1>b, <1>c DEF FlushWrite, Fault, Jobs
    <2>3. CASE ~FlushRow
      BY <1>7, <2>3, <1>a, <1>b, <1>c DEF FlushWrite, Fault, Jobs
    <2> QED BY <2>2, <2>3
  <1>8. CASE TrackLoad
    BY <1>8, <1>a, <1>b, <1>c DEF TrackLoad, JobIdle, TypeOK, Rows, Jobs
  <1>9. CASE RollLoadCost
    BY <1>9, <1>a, <1>b, <1>c DEF RollLoadCost, TypeOK, Rows, Jobs
  <1>10. CASE RollLoadReqs
    BY <1>10, <1>a, <1>b, <1>c DEF RollLoadReqs, TypeOK, Rows, Jobs
  <1>11. CASE RollFlush
    <2>1. FlushRow => row'.cost = job.cost /\ row'.reqs = job.reqs
      BY <1>a DEF FlushRow, Rows
    <2>2. CASE FlushRow
      BY <1>11, <2>1, <2>2, <1>a, <1>b, <1>c DEF RollFlush, Fault, JobIdle, Jobs
    <2>3. CASE ~FlushRow
      BY <1>11, <2>3, <1>a, <1>b, <1>c DEF RollFlush, Fault, JobIdle, Jobs
    <2> QED BY <2>2, <2>3
  <1>12. CASE RollReset
    BY <1>12, <1>a, <1>b, <1>c DEF RollReset, Fault, JobIdle, TypeOK, Rows, Jobs
  <1>13. CASE RollConfig
    BY <1>13, <1>a, <1>b, <1>c DEF RollConfig, TypeOK, Rows, Jobs
  <1>14. CASE RollSubCost
    BY <1>14, <1>a, <1>b, <1>c DEF RollSubCost, TypeOK, Rows, Jobs
  <1>15. CASE RollSubReqs
    BY <1>15, <1>a, <1>b, <1>c DEF RollSubReqs, JobIdle, TypeOK, Rows, Jobs
  <1>16. CASE SyncList
    BY <1>16, <1>a, <1>b, <1>c DEF SyncList, Fault, TypeOK, Rows, Jobs
  <1>17. CASE SyncLoad
    BY <1>17, <1>a, <1>b, <1>c DEF SyncLoad, UpsertBudget, Idle, TypeOK, Rows, Jobs
  <1>18. CASE \E a \in Admins : UpdateRead(a) \/ UpdateReread(a) \/ UpdateFails(a)
    <2>1. \A x \in Admins : admin'[x].pc # "idle" => loaded
      BY <1>18 DEF UpdateRead, UpdateReread, UpdateFails, Idle, TypeOK
    <2> QED BY <1>18, <2>1, <1>a, <1>b, <1>c DEF UpdateRead, UpdateReread, UpdateFails
  <1>19. CASE \E a \in Admins : UpdateStore(a)
    BY <1>19, <1>a, <1>b, <1>c DEF UpdateStore, UpsertBudget, Idle, TypeOK, Rows, Jobs
  <1>20. CASE \E a \in Admins, l \in Limits, d \in Durations, e \in Enforcements :
               UpdateWrite(a, l, d, e)
    BY <1>20, <1>a, <1>b, <1>c DEF UpdateWrite, TypeOK, Rows, Jobs
  <1>21. CASE Tick
    BY <1>21, <1>a, <1>b, <1>c DEF Tick, TypeOK, Rows, Jobs
  <1>22. CASE Crash
    BY <1>22, <1>a, <1>b, <1>c DEF Crash, Idle, JobIdle, TypeOK, Rows, Jobs
  <1>23. CASE UNCHANGED vars
    BY <1>23, <1>a, <1>b, <1>c DEF vars, TypeOK, Rows, Jobs
  <1> QED
    BY NextCases, <1>1, <1>2, <1>3, <1>4, <1>5, <1>6, <1>7, <1>8, <1>9, <1>10, <1>11, <1>12, <1>13, <1>14, <1>15, <1>16, <1>17, <1>18, <1>19, <1>20, <1>21, <1>22, <1>23

(* Every config in circulation stays enforced and within the largest limit. *)
LEMMA GateStep ==
  ASSUME TypeOK, SafeInv, GateInv, [Next]_vars
  PROVE  GateInv'
  <1> SUFFICES ASSUME Enforcements = {TRUE} PROVE GateInv'
    BY DEF GateInv
  <1> USE DEF GateInv, Gated
  <1>a. row \in Rows /\ row.cfg \in Configs
    BY DEF TypeOK, Rows
  <1>b. job \in Jobs /\ job.cfg \in Configs
    BY DEF TypeOK, Jobs
  <1>1. CASE \E r \in Requests : CheckLoad(r) \/ CheckCost(r) \/ EndUncharged(r) \/ RecordReq(r)
    <2>1. PICK r \in Requests : CheckLoad(r) \/ CheckCost(r) \/ EndUncharged(r) \/ RecordReq(r)
      BY <1>1
    <2>2. \A x \in Requests : reqPC'[x] = "checking" =>
              \/ reqPC[x] = "checking" /\ gate'[x] = gate[x]
              \/ loaded /\ gate'[x] = config.limit
      BY <2>1 DEF CheckLoad, CheckCost, EndUncharged, RecordReq, TypeOK
    <2>3. UNCHANGED <<row, loaded, config, sync, admin, job>>
      BY <2>1 DEF CheckLoad, CheckCost, EndUncharged, RecordReq
    <2> QED BY <2>2, <2>3
  <1>2. CASE \E r \in Requests, s \in Spends : RecordCost(r, s)
    <2>1. \A x \in Requests : reqPC'[x] = "checking" => reqPC[x] = "checking" /\ gate'[x] = gate[x]
      BY <1>2 DEF RecordCost, TypeOK
    <2> QED BY <1>2, <2>1 DEF RecordCost
  <1>3. CASE FlushLoadCost
    BY <1>3, <1>a, <1>b DEF FlushLoadCost, TypeOK, SafeInv, DownInv, Rows, Jobs, Configs
  <1>4. CASE FlushLoadReqs
    BY <1>4, <1>a, <1>b DEF FlushLoadReqs, TypeOK, SafeInv, DownInv, Rows, Jobs, Configs
  <1>5. CASE FlushWrite
    BY <1>5, <1>a, <1>b DEF FlushWrite, FlushRow, Fault, TypeOK, SafeInv, DownInv, Rows, Jobs, Configs
  <1>6. CASE TrackLoad
    BY <1>6, <1>a, <1>b DEF TrackLoad, JobIdle, TypeOK, SafeInv, DownInv, Rows, Jobs, Configs
  <1>7. CASE RollLoadCost
    BY <1>7, <1>a, <1>b DEF RollLoadCost, TypeOK, SafeInv, DownInv, Rows, Jobs, Configs
  <1>8. CASE RollLoadReqs
    BY <1>8, <1>a, <1>b DEF RollLoadReqs, TypeOK, SafeInv, DownInv, Rows, Jobs, Configs
  <1>9. CASE RollFlush
    <2>1. row'.cfg = row.cfg
      BY <1>9, <1>a DEF RollFlush, FlushRow, Rows
    <2>2. job'.cfg = job.cfg \/ job'.pc = "idle"
      BY <1>9, <1>b DEF RollFlush, JobIdle, Jobs
    <2> QED BY <1>9, <2>1, <2>2 DEF RollFlush
  <1>10. CASE RollReset
    BY <1>10, <1>a, <1>b DEF RollReset, Fault, JobIdle, TypeOK, SafeInv, DownInv, Rows, Jobs, Configs
  <1>11. CASE RollConfig
    BY <1>11, <1>a, <1>b DEF RollConfig, TypeOK, SafeInv, DownInv, Rows, Jobs, Configs
  <1>12. CASE RollSubCost
    BY <1>12, <1>a, <1>b DEF RollSubCost, TypeOK, SafeInv, DownInv, Rows, Jobs, Configs
  <1>13. CASE RollSubReqs
    BY <1>13, <1>a, <1>b DEF RollSubReqs, JobIdle, TypeOK, SafeInv, DownInv, Rows, Jobs, Configs
  <1>14. CASE SyncList
    BY <1>14, <1>a, <1>b DEF SyncList, Fault, TypeOK, SafeInv, DownInv, Rows, Jobs, Configs
  <1>15. CASE SyncLoad
    BY <1>15, <1>a, <1>b DEF SyncLoad, UpsertBudget, Idle, TypeOK, SafeInv, DownInv, Rows, Jobs, Configs
  <1>16. CASE \E a \in Admins : UpdateRead(a) \/ UpdateReread(a) \/ UpdateFails(a)
    <2>1. \A x \in Admins : admin'[x].pc \in {"write", "store"}
                             => admin'[x].row = row \/ admin'[x] = admin[x]
      BY <1>16 DEF UpdateRead, UpdateReread, UpdateFails, Idle, TypeOK
    <2> QED BY <1>16, <2>1 DEF UpdateRead, UpdateReread, UpdateFails
  <1>17. CASE \E a \in Admins : UpdateStore(a)
    BY <1>17, <1>a, <1>b, BudgetAssumption DEF UpdateStore, UpsertBudget, Idle, TypeOK, SafeInv, DownInv, Rows, Jobs, Configs
  <1>18. CASE \E a \in Admins, l \in Limits, d \in Durations, e \in Enforcements :
               UpdateWrite(a, l, d, e)
    <2>1. PICK a \in Admins, l \in Limits, d \in Durations, e \in Enforcements : UpdateWrite(a, l, d, e)
      BY <1>18
    <2>2. l <= LimitCap /\ e = TRUE
      BY BudgetAssumption
    <2>3. row'.cfg.limit \in {l, row.cfg.limit} /\ row'.cfg.enforce \in {e, row.cfg.enforce}
      BY <2>1, <1>a DEF UpdateWrite, Rows, Configs
    <2>4. \A x \in Admins : admin'[x].pc \in {"write", "store"}
                             => \/ admin'[x] = admin[x]
                                \/ x = a /\ admin[a].pc = "write" /\ admin'[x].row = admin[a].row
      BY <2>1 DEF UpdateWrite, TypeOK
    <2> QED BY <2>1, <2>2, <2>3, <2>4 DEF UpdateWrite
  <1>19. CASE Tick
    BY <1>19, <1>a, <1>b, BudgetAssumption DEF Tick, TypeOK, SafeInv, DownInv, Rows, Jobs, Configs
  <1>20. CASE Crash
    BY <1>20, <1>a, <1>b, BudgetAssumption DEF Crash, Idle, JobIdle, TypeOK, SafeInv, DownInv, Rows, Jobs, Configs
  <1>21. CASE UNCHANGED vars
    BY <1>21, <1>a, <1>b, BudgetAssumption DEF vars, TypeOK, SafeInv, DownInv, Rows, Jobs, Configs
  <1> QED
    BY NextCases, <1>1, <1>2, <1>3, <1>4, <1>5, <1>6, <1>7, <1>8, <1>9, <1>10, <1>11, <1>12, <1>13, <1>14, <1>15, <1>16, <1>17, <1>18, <1>19, <1>20, <1>21

(* Arithmetic of the bound: one request more or less in flight. *)
LEMMA Multiples ==
  ASSUME NEW S \in Nat, NEW j \in Nat, NEW k \in Nat, j <= k
  PROVE  j * S \in Nat /\ j * S <= k * S /\ (j + 1) * S = j * S + S
  OBVIOUS

(* No step takes the exposure over its bound: an admission happens below   *)
(* the limit, and a charge takes its request out of flight.                *)
LEMMA ExposureStep ==
  ASSUME TypeOK, TypeOK', SafeInv, GateInv, ExposureInv, [Next]_vars
  PROVE  ExposureInv'
  <1> SUFFICES ASSUME Enforcements = {TRUE} PROVE ExposureInv'
    BY DEF ExposureInv
  <1> DEFINE n == Cardinality(Requests)
             k == Cardinality(InFlight)
  <1>a. /\ n \in Nat /\ k \in Nat /\ k <= n /\ IsFiniteSet(InFlight)
        /\ k' \in Nat /\ k' <= n /\ IsFiniteSet(InFlight')
    <2>1. InFlight \subseteq Requests /\ InFlight' \subseteq Requests
      BY DEF InFlight
    <2> QED BY <2>1, BudgetAssumption, FS_Subset, FS_CardinalityType
  <1>b. SpendCap \in Nat /\ LimitCap \in Nat /\ \A s \in Spends : s \in Nat /\ s <= SpendCap
    BY BudgetAssumption
  <1>c. PICK P \in Nat, PP \in Nat, Q \in Nat :
           P = k * SpendCap /\ PP = k' * SpendCap /\ Q = n * SpendCap /\ PP <= Q
    BY <1>a, <1>b, Multiples
  <1>d. /\ windowCost \in Int /\ windowCost' \in Int /\ row.cost \in Int /\ row'.cost \in Int
        /\ job.cost \in Int /\ sync.row.cost \in Int
    BY DEF TypeOK, Rows, Jobs
  <1>e. loaded => windowCost + P < LimitCap + Q
    BY <1>c DEF ExposureInv, Exposure
  <1>f. ~loaded => row.cost < LimitCap + Q
    BY <1>c DEF ExposureInv, Exposure
  <1> SUFFICES (IF loaded' THEN windowCost' + PP ELSE row'.cost) < LimitCap + Q
    BY <1>c DEF ExposureInv, Exposure
  <1> HIDE DEF n, k
  <1>1. CASE \E r \in Requests : CheckCost(r)
    <2>1. PICK r \in Requests : CheckCost(r)
      BY <1>1
    <2>2. windowCost' = windowCost /\ loaded /\ loaded'
      BY <2>1 DEF CheckCost, SafeInv, DownInv
    <2>3. CASE UnderLimit(r)
      <3>1. gate[r] \in Int /\ gate[r] <= LimitCap
        BY <2>1 DEF CheckCost, GateInv, TypeOK
      <3>2. windowCost < LimitCap
        BY <2>3, <3>1, <1>b, <1>d DEF UnderLimit
      <3> QED BY <2>2, <3>2, <1>b, <1>c, <1>d
    <2>4. CASE ~UnderLimit(r)
      <3>1. InFlight' = InFlight
        BY <2>1, <2>4 DEF CheckCost, InFlight, TypeOK
      <3>2. PP = P
        BY <1>c, <3>1 DEF k
      <3> QED BY <2>2, <3>2, <1>e
    <2> QED BY <2>3, <2>4
  <1>2. CASE \E r \in Requests : CheckLoad(r) \/ EndUncharged(r) \/ RecordReq(r)
    <2>0. loaded => config.enforce
      BY DEF GateInv, Gated
    <2>1. InFlight' \subseteq InFlight /\ UNCHANGED <<windowCost, loaded, row>>
      BY <1>2, <2>0 DEF CheckLoad, EndUncharged, RecordReq, InFlight, TypeOK
    <2>2. k' <= k
      BY <2>1, <1>a, FS_Subset DEF k
    <2>3. PP <= P
      BY <1>c, <2>2, <1>a, <1>b, Multiples
    <2>4. loaded => windowCost + PP < LimitCap + Q
      BY <2>3, <1>b, <1>d, <1>e
    <2> QED BY <2>1, <2>4, <1>f
  <1>3. CASE \E r \in Requests, s \in Spends : RecordCost(r, s)
    <2>1. PICK r \in Requests, s \in Spends : RecordCost(r, s)
      BY <1>3
    <2>2. InFlight' = InFlight \ {r} /\ r \in InFlight
      BY <2>1 DEF RecordCost, InFlight, TypeOK
    <2>3. k' = k - 1
      BY <2>2, <1>a, FS_RemoveElement DEF k
    <2>4. P = PP + SpendCap
      BY <1>c, <2>3, <1>a, <1>b, Multiples
    <2>5. loaded /\ loaded' /\ windowCost' = windowCost + s
      BY <2>1 DEF RecordCost, SafeInv, DownInv
    <2>6. s \in Nat /\ s <= SpendCap /\ SpendCap \in Nat /\ LimitCap \in Nat
      BY <1>b
    <2>7. windowCost' + PP < LimitCap + Q
      BY <2>4, <2>5, <2>6, <1>c, <1>d, <1>e
    <2> QED BY <2>5, <2>7
  <1>4. CASE RollSubCost
    <2>1. UNCHANGED <<loaded, row, reqPC>> /\ windowCost' = windowCost - job.cost /\ job.cost >= 0
      BY <1>4 DEF RollSubCost, SafeInv, LagInv
    <2>2. PP = P
      BY <1>c, <2>1 DEF k, InFlight
    <2> QED BY <2>1, <2>2, <1>a, <1>b, <1>c, <1>d, <1>e, <1>f
  <1>5. CASE SyncLoad
    <2>1. CASE loaded
      <3>1. UNCHANGED <<windowCost, reqPC, row>> /\ loaded'
        BY <1>5, <2>1 DEF SyncLoad, UpsertBudget
      <3>2. PP = P
        BY <1>c, <3>1 DEF k, InFlight
      <3> QED BY <2>1, <3>1, <3>2, <1>e
    <2>2. CASE ~loaded
      <3>1. windowCost' = row.cost /\ loaded' /\ UNCHANGED reqPC
        BY <1>5, <2>2 DEF SyncLoad, UpsertBudget, SafeInv, DownInv
      <3>2. InFlight' = {}
        BY <2>2, <3>1 DEF InFlight, SafeInv, DownInv
      <3>3. k' = 0
        BY <3>2, FS_EmptySet DEF k
      <3>4. PP = 0
        BY <1>c, <3>3, <1>b
      <3> QED BY <2>2, <3>1, <3>4, <1>d, <1>f
    <2> QED BY <2>1, <2>2
  <1>6. CASE \E a \in Admins : UpdateStore(a)
    <2>1. loaded
      BY <1>6 DEF UpdateStore, SafeInv, DownInv
    <2>2. UNCHANGED <<windowCost, reqPC, row>> /\ loaded'
      BY <1>6, <2>1 DEF UpdateStore, UpsertBudget
    <2>3. PP = P
      BY <1>c, <2>2 DEF k, InFlight
    <2> QED BY <2>1, <2>2, <2>3, <1>e
  <1>7. CASE Crash
    <2>1. ~loaded' /\ row' = row /\ loaded
      BY <1>7 DEF Crash
    <2>2. row.cost <= windowCost
      BY <2>1, <1>d DEF SafeInv, LagInv, Closing
    <2> QED BY <2>1, <2>2, <1>b, <1>c, <1>d, <1>e, <1>a
  <1>8. CASE loaded /\ UNCHANGED <<windowCost, reqPC, loaded>>
    <2>1. PP = P
      BY <1>c, <1>8 DEF k, InFlight
    <2> QED BY <1>8, <2>1, <1>e
  <1>9. CASE ~loaded /\ UNCHANGED <<row, loaded>>
    BY <1>9, <1>f
  <1>10. CASE FlushLoadCost \/ FlushLoadReqs \/ TrackLoad \/ RollLoadCost \/ RollLoadReqs \/ RollConfig
              \/ RollSubReqs \/ SyncList \/ Tick \/ UNCHANGED vars
    BY <1>10, <1>8, <1>9 DEF FlushLoadCost, FlushLoadReqs, TrackLoad, RollLoadCost, RollLoadReqs,
          RollConfig, RollSubReqs, SyncList, Tick, vars
  <1>11. CASE FlushWrite \/ RollFlush \/ RollReset
    <2>1. loaded
      BY <1>11 DEF FlushWrite, RollFlush, RollReset, SafeInv, DownInv
    <2> QED BY <1>11, <2>1, <1>8 DEF FlushWrite, RollFlush, RollReset
  <1>12. CASE \E a \in Admins : UpdateRead(a) \/ UpdateReread(a) \/ UpdateFails(a)
    BY <1>12, <1>8, <1>9 DEF UpdateRead, UpdateReread, UpdateFails
  <1>13. CASE \E a \in Admins, l \in Limits, d \in Durations, e \in Enforcements :
               UpdateWrite(a, l, d, e)
    <2>1. loaded
      BY <1>13 DEF UpdateWrite, SafeInv, DownInv
    <2> QED BY <1>13, <2>1, <1>8 DEF UpdateWrite
  <1> QED
    BY NextCases, <1>1, <1>2, <1>3, <1>4, <1>5, <1>6, <1>7, <1>10, <1>11, <1>12, <1>13

(* The initial states. *)
LEMMA InitInv == Init => SafeInv /\ GateInv /\ ExposureInv
  <1> SUFFICES ASSUME Init PROVE SafeInv /\ GateInv /\ ExposureInv
    OBVIOUS
  <1>1. /\ ~loaded /\ job.pc = "idle" /\ sync.pc = "idle" /\ \A a \in Admins : admin[a].pc = "idle"
        /\ \A r \in Requests : reqPC[r] = "idle"
    BY DEF Init, JobIdle, Idle
  <1>2. row.cost \in Spends /\ row.reqs = 1 /\ row.cfg.limit \in Limits /\ row.cfg.enforce \in Enforcements
    BY DEF Init
  <1>3. row.cost \in Nat /\ row.cost <= SpendCap /\ SpendCap \in Nat /\ LimitCap \in Nat \ {0}
        /\ row.cfg.limit <= LimitCap
    BY <1>2, BudgetAssumption
  <1>4. SafeInv
    BY <1>1, <1>2, <1>3 DEF Init, SafeInv, DownInv, LagInv, Ledger
  <1>5. GateInv
    <2>1. Enforcements = {TRUE} => row.cfg.enforce = TRUE
      BY <1>2, Zenon
    <2> QED BY <1>1, <1>3, <2>1 DEF GateInv, Gated
  <1>6. ExposureInv
    <2>1. Cardinality(Requests) \in Nat /\ Cardinality(Requests) # 0
      BY BudgetAssumption, FS_EmptySet, FS_CardinalityType
    <2>2. 1 * SpendCap <= Cardinality(Requests) * SpendCap /\ Cardinality(Requests) * SpendCap \in Nat
      BY <2>1, <1>3, Multiples
    <2> QED BY <1>1, <1>3, <2>2 DEF ExposureInv, Exposure
  <1> QED BY <1>4, <1>5, <1>6

(* The inductive invariant holds in every reachable state. *)
THEOREM Invariance == Spec => []BudgetInv
  <1>1. Init /\ TypeOK => BudgetInv
    BY InitInv DEF BudgetInv
  <1>2. BudgetInv /\ [Next]_vars => BudgetInv'
    BY TypeStep, SafeStep, GateStep, ExposureStep DEF BudgetInv
  <1> QED BY <1>1, <1>2, TypeCorrect, PTL DEF Spec

(* Whatever settles while the roll is in flight, whichever statement fails *)
(* and wherever the process crashes, every charge stays accounted for.     *)
THEOREM LedgerHolds == Spec => []Ledger
  <1>1. BudgetInv => Ledger
    BY DEF BudgetInv, SafeInv
  <1> QED BY <1>1, Invariance, PTL

(* The counter that gates admission never falls below the row's total. *)
THEOREM MemoryCovers == Spec => []MemoryCoversDatabase
  <1>1. BudgetInv => MemoryCoversDatabase
    <2> SUFFICES ASSUME BudgetInv, loaded
                 PROVE  windowCost - Closing >= row.cost /\ row.cost >= 0
      BY DEF MemoryCoversDatabase
    <2>1. windowCost \in Int /\ row.cost \in Int /\ Closing \in Int
      BY DEF BudgetInv, TypeOK, Rows, Jobs, Closing
    <2> QED BY <2>1 DEF BudgetInv, SafeInv, LagInv
  <1> QED BY <1>1, Invariance, PTL

(* Skipping the write of an unchanged entry never leaves the row behind. *)
THEOREM FlushSkip == Spec => []FlushSkipIsSafe
  <1>1. BudgetInv => FlushSkipIsSafe
    <2> SUFFICES ASSUME BudgetInv, loaded, job.pc \in {"idle", "track"},
                        windowCost = lastFlushed, windowReqs = lastReqs
                 PROVE  row.cost = windowCost /\ row.reqs = windowReqs
      BY DEF FlushSkipIsSafe
    <2>1. windowCost \in Int /\ windowReqs \in Int /\ row.cost \in Int /\ row.reqs \in Int
      BY DEF BudgetInv, TypeOK, Rows
    <2> QED BY <2>1 DEF BudgetInv, SafeInv, LagInv, Closing, ClosingReqs
  <1> QED BY <1>1, Invariance, PTL

(* An enforced budget is overspent at most by what is in flight. *)
THEOREM Overshoot == Spec => []OvershootBounded
  <1>1. BudgetInv => OvershootBounded
    BY DEF BudgetInv, ExposureInv, Exposure, OvershootBounded
  <1> QED BY <1>1, Invariance, PTL
=============================================================================
