--------------------------- MODULE MetricsEngine ---------------------------
(***************************************************************************)
(* The metrics engine: request goroutines append events to the bounded     *)
(* EventsBuffer and wake the job events_flush when it is half full; the    *)
(* job writes what it drained in one transaction, keeps a batch that       *)
(* failed for the next run and gives it up after maxWriteAttempts; the     *)
(* gateway's Stop closes the job's stop channel, waits for a last run, and *)
(* closes the DuckDB store whether or not that run came to its end.        *)
(*                                                                         *)
(* Append, Drain and Len hold the buffer's lock, so each is one step.  The *)
(* order of the events in a batch decides nothing, so batches are sets.    *)
(* Counters that only grow with a set (dropped, lost) are that set.        *)
(***************************************************************************)
EXTENDS Integers, FiniteSets

CONSTANTS
    Events,            \* the requests that end, each with its event
    Capacity,          \* EventsBuffer.maxCapacity
    maxWriteAttempts,  \* 3 in the code
    MaxFaults          \* bound on failing writes while the store is open

ASSUME MetricsAssumption ==
    /\ IsFiniteSet(Events)
    /\ Capacity \in Nat \ {0}   \* NewEventsBuffer replaces a capacity that is not positive
    /\ maxWriteAttempts \in Nat \ {0}
    /\ MaxFaults \in Nat

VARIABLES
    adder,     \* where AddEvent is, for each event
    buffer,    \* EventsBuffer.events
    dropped,   \* the events EventsBuffer.dropped counts
    token,     \* the job's trigger channel holds a token
    pc,        \* where the job's loop and its run are
    batch,     \* flush's local events
    retry,     \* MetricsEngine.retry
    attempts,  \* MetricsEngine.attempts
    lost,      \* the events MetricsEngine.lost counts
    failed,    \* the job's stats hold a LastError
    table,     \* rows of table events
    phase,     \* of Shutdown: "up", "stopping", "closed"
    timedOut,  \* Shutdown returned the error of its context
    faults,
    tries,     \* history: how often each event was part of a failed or successful write
    early      \* history: the events that were in the buffer's hands before the stop

engine == <<batch, retry, attempts, lost, failed, table, faults, tries>>
shutdown == <<phase, timedOut, early>>
vars == <<adder, buffer, dropped, token, pc, engine, shutdown>>

-----------------------------------------------------------------------------
(* AddEvent. *)

Half == Capacity \div 2

(* EventsBuffer.Append; a refused event goes back to the pool. *)
Append(e) ==
    /\ adder[e] = "new"
    /\ IF Cardinality(buffer) >= Capacity
       THEN /\ dropped' = dropped \union {e}
            /\ adder' = [adder EXCEPT ![e] = "done"]
            /\ UNCHANGED <<buffer, early>>
       ELSE /\ buffer' = buffer \union {e}
            /\ adder' = [adder EXCEPT ![e] = "appended"]
            /\ early' = IF phase = "up" THEN early \union {e} ELSE early
            /\ UNCHANGED dropped
    /\ UNCHANGED <<token, pc, engine, phase, timedOut>>

(* Mutant: the length is compared with =, which two appends jump over. *)
WakeAtHalf(e) ==
    /\ adder[e] = "appended"
    /\ token' = (token \/ Cardinality(buffer) = Half)
    /\ adder' = [adder EXCEPT ![e] = "done"]
    /\ UNCHANGED <<buffer, dropped, pc, engine, shutdown>>

(* Len, and Group.Trigger, whose send is dropped when a token is there.    *)
Wake(e) ==
    /\ adder[e] = "appended"
    /\ token' = (token \/ Cardinality(buffer) >= Half)
    /\ adder' = [adder EXCEPT ![e] = "done"]
    /\ UNCHANGED <<buffer, dropped, pc, engine, shutdown>>

-----------------------------------------------------------------------------
(* The job's loop, which takes whichever case of its select is ready: the  *)
(* ticker (at any time), the trigger, or the closed stop channel, after    *)
(* which it runs once more and returns (RunAtStop).                        *)

OnTick ==
    /\ pc = "select"
    /\ pc' = "drain"
    /\ UNCHANGED <<adder, buffer, dropped, token, engine, shutdown>>

OnTrigger ==
    /\ pc = "select" /\ token
    /\ token' = FALSE
    /\ pc' = "drain"
    /\ UNCHANGED <<adder, buffer, dropped, engine, shutdown>>

(* Mutant: no last run. *)
OnStopReturn ==
    /\ pc = "select" /\ phase # "up"
    /\ pc' = "exited"
    /\ UNCHANGED <<adder, buffer, dropped, token, engine, shutdown>>

OnStop ==
    /\ pc = "select" /\ phase # "up"
    /\ pc' = "last-drain"
    /\ UNCHANGED <<adder, buffer, dropped, token, engine, shutdown>>

(* Where the loop goes when a run returns. *)
AfterRun == IF pc \in {"last-drain", "last-write"} THEN "exited" ELSE "select"

(* Mutants: m.retry = nil is missing, and m.retry is not part of the batch. *)
DrainKeepsRetry ==
    /\ pc \in {"drain", "last-drain"}
    /\ batch' = retry \union buffer /\ buffer' = {}
    /\ pc' = (IF batch' = {} THEN AfterRun ELSE IF pc = "drain" THEN "write" ELSE "last-write")
    /\ UNCHANGED <<adder, dropped, token, retry, failed, attempts, lost, table, faults, tries, shutdown>>
DrainForgetsRetry ==
    /\ pc \in {"drain", "last-drain"}
    /\ batch' = buffer /\ buffer' = {} /\ retry' = {}
    /\ pc' = (IF batch' = {} THEN AfterRun ELSE IF pc = "drain" THEN "write" ELSE "last-write")
    /\ UNCHANGED <<adder, dropped, token, failed, attempts, lost, table, faults, tries, shutdown>>

(* flush: events := append(m.retry, m.buffer.Drain()...) *)
Drain ==
    /\ pc \in {"drain", "last-drain"}
    /\ batch' = retry \union buffer
    /\ retry' = {} /\ buffer' = {}
    /\ IF batch' = {}
       THEN pc' = AfterRun /\ failed' = FALSE
       ELSE pc' = (IF pc = "drain" THEN "write" ELSE "last-write") /\ UNCHANGED failed
    /\ UNCHANGED <<adder, dropped, token, attempts, lost, table, faults, tries, shutdown>>

Tried == [e \in Events |-> tries[e] + (IF e \in batch THEN 1 ELSE 0)]

(* Mutant: attempts goes on counting after a success. *)
WriteOKNoReset ==
    /\ pc \in {"write", "last-write"} /\ phase # "closed"
    /\ table' = table \union batch
    /\ failed' = FALSE
    /\ UNCHANGED <<attempts, retry, lost, faults>>

(* DuckDBStore.Write commits the transaction. *)
WriteOK ==
    /\ pc \in {"write", "last-write"} /\ phase # "closed"
    /\ table' = table \union batch
    /\ attempts' = 0 /\ failed' = FALSE
    /\ UNCHANGED <<retry, lost, faults>>

(* It fails, always once the store is closed, and nothing is written.      *)
WriteFails ==
    /\ pc \in {"write", "last-write"}
    /\ \/ phase = "closed" /\ UNCHANGED faults
       \/ phase # "closed" /\ faults < MaxFaults /\ faults' = faults + 1
    /\ failed' = TRUE
    /\ IF attempts + 1 < maxWriteAttempts
       THEN attempts' = attempts + 1 /\ retry' = batch /\ UNCHANGED lost
       ELSE attempts' = 0 /\ lost' = lost \union batch /\ UNCHANGED retry
    /\ UNCHANGED table

(* The rest of flush: what the run holds is in the table, in retry or lost *)
(* now.                                                                    *)
Write ==
    /\ WriteOK \/ WriteFails
    /\ tries' = Tried
    /\ batch' = {}
    /\ pc' = AfterRun
    /\ UNCHANGED <<adder, buffer, dropped, token, shutdown>>

Job == OnTick \/ OnTrigger \/ OnStop \/ Drain \/ Write

-----------------------------------------------------------------------------
(* MetricsEngine.Shutdown, called once by the gateway's Stop. *)

Stop ==
    /\ phase = "up"
    /\ phase' = "stopping"
    /\ UNCHANGED <<adder, buffer, dropped, token, pc, engine, timedOut, early>>

(* Group.Shutdown returned, nil or the error of its context, and the store *)
(* is closed.                                                              *)
Close ==
    /\ phase = "stopping"
    /\ phase' = "closed"
    /\ timedOut' \in {TRUE} \union (IF pc = "exited" THEN {FALSE} ELSE {})
    /\ UNCHANGED <<adder, buffer, dropped, token, pc, engine, early>>

Init ==
    /\ adder = [e \in Events |-> "new"]
    /\ buffer = {} /\ dropped = {} /\ token = FALSE
    /\ pc = "select" /\ batch = {} /\ retry = {} /\ attempts = 0 /\ lost = {}
    /\ failed = FALSE /\ table = {} /\ faults = 0
    /\ phase = "up" /\ timedOut = FALSE
    /\ tries = [e \in Events |-> 0] /\ early = {}

Next ==
    \/ \E e \in Events : Append(e) \/ Wake(e)
    \/ Job
    \/ Stop \/ Close

Spec == Init /\ [][Next]_vars

(* The loop runs on, with Go's select taking a closed stop channel sooner  *)
(* or later among the cases that are ready, and a hook that started runs   *)
(* to its end.                                                             *)
FairSpec ==
    /\ Spec
    /\ WF_vars(Job) /\ SF_vars(OnStop)
    /\ \A e \in Events : WF_vars(Wake(e))

-----------------------------------------------------------------------------
(* Properties. *)

(* Every variable has the type its Go counterpart gives it. *)
TypeOK ==
    /\ adder \in [Events -> {"new", "appended", "done"}]
    /\ buffer \subseteq Events /\ dropped \subseteq Events /\ batch \subseteq Events
    /\ retry \subseteq Events /\ lost \subseteq Events /\ table \subseteq Events
    /\ token \in BOOLEAN /\ failed \in BOOLEAN /\ timedOut \in BOOLEAN
    /\ pc \in {"select", "drain", "write", "last-drain", "last-write", "exited"}
    /\ phase \in {"up", "stopping", "closed"}
    /\ attempts \in 0..(maxWriteAttempts - 1) /\ faults \in Nat
    /\ tries \in [Events -> Nat] /\ early \subseteq Events

(* An event is in one place only: it is never written twice, nor written   *)
(* and reported lost, whatever the writes do.                              *)
OneHome ==
    /\ buffer \cap (batch \union retry) = {} /\ batch \cap retry = {}
    /\ (buffer \union batch \union retry) \cap (table \union lost \union dropped) = {}
    /\ table \cap lost = {} /\ dropped \cap (table \union lost) = {}

(* What the engine holds in memory is bounded although failed batches grow *)
(* by everything that arrives between two attempts.                        *)
MemoryBounded ==
    /\ Cardinality(buffer) <= Capacity
    /\ Cardinality(retry) <= attempts * Capacity
    /\ Cardinality(batch) <= (attempts + 1) * Capacity

(* The engine's state is sound: types, one home per event, bounded memory. *)
MetricsInv == TypeOK /\ OneHome /\ MemoryBounded

(* No lost wake-up: while the buffer is half full, somebody is about to    *)
(* flush it: the trigger holds a token, an adder has yet to look at the    *)
(* length, or a run has started and not drained.                           *)
NoLostWakeup ==
    (buffer # {} /\ Cardinality(buffer) >= Half /\ pc # "exited")
        => \/ token \/ pc \in {"drain", "last-drain"}
           \/ \E e \in Events : adder[e] = "appended"

(* A batch is given up only when some event of it was tried as often as    *)
(* the code promises ("dropped after 3 attempts").                         *)
GivenUpOnlyAfterAllAttempts ==
    [][lost' # lost => \E e \in lost' \ lost : tries'[e] = maxWriteAttempts]_vars

(* A Shutdown that returned nil, with a last run that returned nil, has    *)
(* written every event that was in the buffer's hands before it: none is   *)
(* left behind in the buffer, in a batch or for a retry that never comes.  *)
CleanShutdownDrains ==
    (phase = "closed" /\ ~timedOut /\ ~failed) => early \subseteq table \union lost

(* Every event settles while the engine is up: it is written or given up.  *)
EventsSettle ==
    \A e \in Events : e \in buffer ~> (e \in table \union lost \/ phase # "up")

(* The abstract specification of the buffer. *)
Status(e) ==
    IF e \in table THEN "stored"
    ELSE IF e \in dropped THEN "refused"
    ELSE IF e \in lost THEN "lost"
    ELSE IF e \in buffer \union batch \union retry THEN "held" ELSE "new"
Abstract == INSTANCE Delivery WITH Items <- Events, status <- [e \in Events |-> Status(e)]

(* The engine delivers every event at most once: it implements Delivery,   *)
(* with an event that waits for a retry staying "held".                    *)
ImplementsDelivery == Abstract!Spec
=============================================================================
