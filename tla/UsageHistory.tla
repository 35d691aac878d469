---------------------------- MODULE UsageHistory ----------------------------
(***************************************************************************)
(* The usage history of the governance plane.  RecordHook settles a        *)
(* request: it appends a record to the bounded UsageBuffer and charges the *)
(* budget.  The job usage_flush drains the buffer into table usage_records *)
(* and, when the insert fails, appends the records again one by one, while *)
(* requests go on settling.                                                *)
(*                                                                         *)
(* Append and Drain hold the buffer's lock, so each is one step.  Which    *)
(* record is first in the buffer decides nothing but the order of the      *)
(* rows, so buffer and batch are sets.                                     *)
(***************************************************************************)
EXTENDS Integers, FiniteSets

CONSTANTS
    Records,      \* the requests that settle, each with its usage record
    Capacity,     \* UsageBuffer.maxCapacity
    MaxFailures,  \* bound on failing inserts
    MaxCrashes    \* bound on ends of the process, by a crash or after Shutdown

ASSUME UsageAssumption ==
    /\ IsFiniteSet(Records)
    /\ Capacity \in Nat \ {0}   \* NewUsageBuffer replaces a capacity that is not positive
    /\ MaxFailures \in Nat /\ MaxCrashes \in Nat

VARIABLES
    settling,   \* requests between Append and the charge of the budget
    buffer,     \* UsageBuffer.records
    dropped,    \* UsageBuffer.dropped
    pc,         \* where flushUsageHistory is
    batch,      \* its local records: what it has drained and not written or put back
    table,      \* rows of usage_records
    failures, crashes,
    charged,    \* history: requests whose cost is on the budget
    refused,    \* history: records dropped when their request settled
    discarded,  \* history: records dropped when they were put back
    lost        \* history: records that the end of the process took

usageVars == <<settling, buffer, dropped, pc, batch, table, failures, crashes,
               charged, refused, discarded, lost>>

Offered == buffer \union batch \union table \union refused \union discarded \union lost

-----------------------------------------------------------------------------
(* RecordHook.Execute.                                                     *)

Full == Cardinality(buffer) >= Capacity

(* Mutant: the drop is not counted. *)
AppendUncounted(r) ==
    /\ r \notin Offered
    /\ IF Full THEN refused' = refused \union {r} /\ UNCHANGED buffer
               ELSE buffer' = buffer \union {r} /\ UNCHANGED refused
    /\ settling' = settling \union {r}
    /\ UNCHANGED <<dropped, pc, batch, table, failures, crashes, charged, discarded, lost>>

(* UsageBuffer.Append of a new record, which drops it when the buffer is   *)
(* full.  A request without usage returns before this and changes nothing. *)
AppendRecord(r) ==
    /\ r \notin Offered
    /\ IF Full
       THEN dropped' = dropped + 1 /\ refused' = refused \union {r} /\ UNCHANGED buffer
       ELSE buffer' = buffer \union {r} /\ UNCHANGED <<dropped, refused>>
    /\ settling' = settling \union {r}
    /\ UNCHANGED <<pc, batch, table, failures, crashes, charged, discarded, lost>>

(* Then the budget is charged, whatever became of the record, if it has an *)
(* entry in the cache: it may have been deleted since the request came.    *)
Charge(r) ==
    /\ r \in settling
    /\ settling' = settling \ {r}
    /\ charged' \in {charged, charged \union {r}}
    /\ UNCHANGED <<buffer, dropped, pc, batch, table, failures, crashes, refused, discarded, lost>>

-----------------------------------------------------------------------------
(* flushUsageHistory. *)

(* UsageBuffer.Drain; an empty batch ends the run. *)
Drain ==
    /\ pc = "idle" /\ buffer # {}
    /\ batch' = buffer /\ buffer' = {}
    /\ pc' = "insert"
    /\ UNCHANGED <<settling, dropped, table, failures, crashes, charged, refused, discarded, lost>>

(* Mutants: an insert without a transaction, which fails with some of the  *)
(* rows written, and a failure after which the batch is forgotten.         *)
InsertPartly ==
    /\ pc = "insert"
    /\ \E S \in SUBSET batch :
          /\ table' = table \union S
          /\ IF S = batch THEN batch' = {} /\ pc' = "idle" ELSE pc' = "requeue" /\ UNCHANGED batch
    /\ UNCHANGED <<settling, buffer, dropped, failures, crashes, charged, refused, discarded, lost>>
InsertForgets ==
    /\ pc = "insert"
    /\ table' = table \union batch \/ UNCHANGED table
    /\ batch' = {} /\ pc' = "idle"
    /\ UNCHANGED <<settling, buffer, dropped, failures, crashes, charged, refused, discarded, lost>>

(* Store.BulkInsertUsageHistory: CreateInBatches is one transaction.       *)
Insert ==
    /\ pc = "insert"
    /\ \/ /\ table' = table \union batch /\ batch' = {}
          /\ pc' = "idle"
          /\ UNCHANGED failures
       \/ /\ failures < MaxFailures /\ failures' = failures + 1
          /\ pc' = "requeue"
          /\ UNCHANGED <<table, batch>>
    /\ UNCHANGED <<settling, buffer, dropped, crashes, charged, refused, discarded, lost>>

(* One turn of the loop that puts the records back, with the same Append.  *)
Requeue(r) ==
    /\ pc = "requeue" /\ r \in batch
    /\ IF Full
       THEN dropped' = dropped + 1 /\ discarded' = discarded \union {r} /\ UNCHANGED buffer
       ELSE buffer' = buffer \union {r} /\ UNCHANGED <<dropped, discarded>>
    /\ batch' = batch \ {r}
    /\ pc' = IF batch = {r} THEN "idle" ELSE "requeue"
    /\ UNCHANGED <<settling, table, failures, crashes, charged, refused, lost>>

-----------------------------------------------------------------------------
(* The end of the process.  Shutdown runs usage_flush once more before it, *)
(* which is the actions above; what that run could not write is gone.      *)
Exit ==
    /\ crashes < MaxCrashes /\ crashes' = crashes + 1
    /\ lost' = lost \union buffer \union batch
    /\ buffer' = {} /\ batch' = {} /\ settling' = {}
    /\ dropped' = 0
    /\ pc' = "idle"
    /\ UNCHANGED <<table, failures, charged, refused, discarded>>

UsageInit ==
    /\ settling = {} /\ buffer = {} /\ dropped = 0
    /\ pc = "idle" /\ batch = {} /\ table = {}
    /\ failures = 0 /\ crashes = 0
    /\ charged = {} /\ refused = {} /\ discarded = {} /\ lost = {}

FlushJob == Drain \/ Insert \/ \E r \in Records : Requeue(r)

UsageNext ==
    \/ \E r \in Records : AppendRecord(r) \/ Charge(r)
    \/ FlushJob
    \/ Exit

UsageSpec == UsageInit /\ [][UsageNext]_usageVars

(* The worker group runs usage_flush for as long as the process lives, and *)
(* a hook that started runs to its end.                                    *)
UsageFairSpec == UsageSpec /\ WF_usageVars(FlushJob) /\ \A r \in Records : WF_usageVars(Charge(r))

-----------------------------------------------------------------------------
(* Properties. *)

(* Every variable has the type its Go counterpart gives it; the buffer is   *)
(* within its capacity although requests and the job both append to it.    *)
TypeOK ==
    /\ settling \subseteq Records /\ batch \subseteq Records
    /\ buffer \subseteq Records /\ Cardinality(buffer) <= Capacity
    /\ table \subseteq Records
    /\ dropped \in Nat /\ failures \in Nat /\ crashes \in Nat
    /\ pc \in {"idle", "insert", "requeue"}
    /\ charged \subseteq Records /\ refused \subseteq Records /\ discarded \subseteq Records
    /\ lost \subseteq Records

(* A record is in one place only: it is never in the table and on its way  *)
(* to it as well, so a failed insert that is repeated bills nobody twice.  *)
OneHome ==
    /\ buffer \cap batch = {}
    /\ (buffer \union batch) \cap table = {}
    /\ (buffer \union batch \union table) \cap (refused \union discarded \union lost) = {}
    /\ refused \cap discarded = {} /\ lost \cap (refused \union discarded) = {}

(* Between runs of the job it holds nothing back: the buffer and the table *)
(* account for all that was not dropped.                                   *)
BatchOnlyInFlight == pc = "idle" <=> batch = {}

(* The counter that Stats reports as records_dropped misses no drop while  *)
(* the process lives: neither a refused nor a discarded record.            *)
DropsCounted ==
    crashes = 0 => dropped = Cardinality(refused) + Cardinality(discarded)

(* Every record that was taken settles: the job writes it or drops it.     *)
RecordsSettle == \A r \in Records : r \in buffer ~> r \in table \union discarded \union lost

(* The abstract specification of the buffer. *)
Status(r) ==
    IF r \in table THEN "stored"
    ELSE IF r \in refused THEN "refused"
    ELSE IF r \in discarded \union lost THEN "lost"
    ELSE IF r \in buffer \union batch THEN "held" ELSE "new"
Abstract == INSTANCE Delivery WITH Items <- Records, status <- [r \in Records |-> Status(r)]

(* Usage history delivers every record at most once: it implements         *)
(* Delivery, with a record that is put back staying "held".                *)
ImplementsDelivery == Abstract!Spec

(* The strengthening that a step of the requests, the job and the process  *)
(* preserves: types, one home for a record, nothing held back between two  *)
(* runs of the job, and no drop that is not counted.                       *)
UsageInv == TypeOK /\ OneHome /\ BatchOnlyInFlight /\ DropsCounted
=============================================================================
