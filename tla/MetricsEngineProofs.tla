------------------------ MODULE MetricsEngineProofs ------------------------
(***************************************************************************)
(* Proofs about MetricsEngine, for every set of events, capacity, number   *)
(* of attempts and of failing writes, and about its reports in             *)
(* MetricsReads, for every range and whatever was written.                 *)
(***************************************************************************)
EXTENDS MetricsReads, FiniteSetTheorems, TLAPS

Writing == pc \in {"write", "last-write"}

(* An event that was not offered is nowhere, and one that no run has       *)
(* drained was never part of a write.                                      *)
Fresh ==
    \A e \in Events :
        /\ adder[e] = "new" => e \notin buffer \union batch \union retry \union table \union lost \union dropped
        /\ adder[e] = "new" \/ e \in buffer => tries[e] = 0

(* flush holds a batch while it writes and only then, and has taken what   *)
(* there was to retry.                                                     *)
Batches == (Writing <=> batch # {}) /\ (Writing => retry = {})

(* m.attempts is the number of failed writes of the oldest events held.    *)
Attempts ==
    /\ attempts = 0 => retry = {} /\ \A e \in batch : tries[e] = 0
    /\ attempts # 0 => \E e \in retry \union batch : tries[e] = attempts

(* What the buffer took before the stop is accounted for; the last run has *)
(* drained it, and the job's stats say so when it is left for a retry.     *)
Draining ==
    /\ early \subseteq buffer \union batch \union retry \union table \union lost
    /\ pc \in {"last-drain", "last-write", "exited"} => phase # "up"
    /\ pc \in {"last-write", "exited"} => early \cap buffer = {}
    /\ retry = {} \/ failed = TRUE
    /\ phase = "closed" => timedOut = TRUE \/ pc = "exited"

(* The inductive invariant. *)
IInv == MetricsInv /\ NoLostWakeup /\ Fresh /\ Batches /\ Attempts /\ Draining

-----------------------------------------------------------------------------
LEMMA Sizes ==
    ASSUME NEW S \in SUBSET Events
    PROVE  IsFiniteSet(S) /\ Cardinality(S) \in Nat
BY FS_Subset, FS_CardinalityType, MetricsAssumption

LEMMA EmptySize == Cardinality({}) = 0
BY FS_EmptySet

(* Multiples of the capacity. *)
LEMMA Multiples ==
    ASSUME NEW n \in Nat
    PROVE  /\ n * Capacity \in Nat
           /\ (n + 1) * Capacity = n * Capacity + Capacity
           /\ 0 * Capacity = 0
BY MetricsAssumption

LEMMA InitInv == Init => IInv
<1> SUFFICES ASSUME Init PROVE IInv
  OBVIOUS
<1>1. TypeOK
  <2>1. attempts \in 0..(maxWriteAttempts - 1) /\ faults \in Nat /\ tries \in [Events -> Nat]
    BY MetricsAssumption DEF Init
  <2>2. token \in BOOLEAN /\ failed \in BOOLEAN /\ timedOut \in BOOLEAN
    BY DEF Init
  <2> QED BY <2>1, <2>2 DEF Init, TypeOK
<1>2. OneHome /\ Fresh /\ Batches /\ Attempts /\ Draining
  BY DEF Init, OneHome, Fresh, Batches, Writing, Attempts, Draining
<1>3. MemoryBounded
  BY EmptySize, MetricsAssumption DEF Init, MemoryBounded
<1>4. NoLostWakeup
  BY DEF Init, NoLostWakeup
<1> QED BY <1>1, <1>2, <1>3, <1>4 DEF IInv, MetricsInv

-----------------------------------------------------------------------------
(* The steps. *)

LEMMA AppendInv ==
    ASSUME IInv, NEW e \in Events, Append(e)
    PROVE  IInv'
<1>t. TypeOK /\ OneHome /\ MemoryBounded /\ Fresh /\ Batches /\ Attempts /\ Draining
  BY DEF IInv, MetricsInv
<1>u. /\ adder[e] = "new" /\ token' = token /\ pc' = pc /\ batch' = batch /\ retry' = retry
      /\ attempts' = attempts /\ lost' = lost /\ failed' = failed /\ table' = table
      /\ faults' = faults /\ tries' = tries /\ phase' = phase /\ timedOut' = timedOut
  BY DEF Append, engine
<1>1. CASE Cardinality(buffer) >= Capacity
  <2>1. /\ dropped' = dropped \union {e} /\ adder' = [adder EXCEPT ![e] = "done"]
        /\ buffer' = buffer /\ early' = early
    BY <1>1 DEF Append
  <2>2. TypeOK' /\ OneHome' /\ MemoryBounded'
    BY <1>t, <1>u, <2>1 DEF TypeOK, OneHome, MemoryBounded, Fresh
  <2>3. Fresh' /\ Batches' /\ Attempts' /\ Draining'
    BY <1>t, <1>u, <2>1 DEF TypeOK, Fresh, Batches, Writing, Attempts, Draining
  <2>4. NoLostWakeup'
    BY <1>u, <2>1, <1>t DEF IInv, NoLostWakeup, TypeOK
  <2> QED BY <2>2, <2>3, <2>4 DEF IInv, MetricsInv
<1>2. CASE ~(Cardinality(buffer) >= Capacity)
  <2>1. /\ dropped' = dropped /\ adder' = [adder EXCEPT ![e] = "appended"]
        /\ buffer' = buffer \union {e}
        /\ early' = IF phase = "up" THEN early \union {e} ELSE early
    BY <1>2 DEF Append
  <2>2. Cardinality(buffer') <= Capacity
    <3>1. IsFiniteSet(buffer) /\ Cardinality(buffer) \in Nat /\ e \notin buffer
      BY <1>t, <1>u, Sizes DEF TypeOK, Fresh
    <3>2. Cardinality(buffer \union {e}) = Cardinality(buffer) + 1
      BY <3>1, FS_AddElement
    <3> QED BY <2>1, <3>1, <3>2, <1>2, MetricsAssumption
  <2>3. TypeOK' /\ OneHome' /\ MemoryBounded'
    BY <1>t, <1>u, <2>1, <2>2 DEF TypeOK, OneHome, MemoryBounded, Fresh
  <2>4. Fresh' /\ Batches' /\ Attempts' /\ Draining'
    BY <1>t, <1>u, <2>1 DEF TypeOK, Fresh, Batches, Writing, Attempts, Draining
  <2>5. adder'[e] = "appended"
    BY <2>1, <1>t DEF TypeOK
  <2>6. NoLostWakeup'
    BY <2>5 DEF NoLostWakeup
  <2> QED BY <2>3, <2>4, <2>6 DEF IInv, MetricsInv
<1> QED BY <1>1, <1>2

LEMMA WakeInv ==
    ASSUME IInv, NEW e \in Events, Wake(e)
    PROVE  IInv'
<1>t. TypeOK /\ OneHome /\ MemoryBounded /\ Fresh /\ Batches /\ Attempts /\ Draining
  BY DEF IInv, MetricsInv
<1>u. /\ adder[e] = "appended" /\ adder' = [adder EXCEPT ![e] = "done"]
      /\ pc' = pc /\ batch' = batch /\ retry' = retry /\ buffer' = buffer /\ dropped' = dropped
      /\ attempts' = attempts /\ lost' = lost /\ failed' = failed /\ table' = table
      /\ faults' = faults /\ tries' = tries /\ phase' = phase /\ timedOut' = timedOut /\ early' = early
  BY DEF Wake, engine, shutdown
<1>1. token' \in BOOLEAN
  BY <1>t DEF Wake, TypeOK
<1>2. TypeOK' /\ OneHome' /\ MemoryBounded'
  BY <1>t, <1>u, <1>1 DEF TypeOK, OneHome, MemoryBounded
<1>3. Fresh' /\ Batches' /\ Attempts' /\ Draining'
  BY <1>t, <1>u DEF TypeOK, Fresh, Batches, Writing, Attempts, Draining
<1>4. NoLostWakeup'
  BY <1>u DEF NoLostWakeup, Wake
<1> QED BY <1>2, <1>3, <1>4 DEF IInv, MetricsInv

LEMMA SelectInv ==
    ASSUME IInv, OnTick \/ OnTrigger \/ OnStop
    PROVE  IInv'
<1>t. TypeOK /\ OneHome /\ MemoryBounded /\ Fresh /\ Batches /\ Attempts /\ Draining
  BY DEF IInv, MetricsInv
<1>u. /\ adder' = adder /\ buffer' = buffer /\ dropped' = dropped /\ batch' = batch /\ retry' = retry
      /\ attempts' = attempts /\ lost' = lost /\ failed' = failed /\ table' = table
      /\ faults' = faults /\ tries' = tries /\ phase' = phase /\ timedOut' = timedOut /\ early' = early
      /\ pc = "select" /\ pc' \in {"drain", "last-drain"} /\ (pc' = "last-drain" => phase # "up")
  BY DEF OnTick, OnTrigger, OnStop, engine, shutdown
<1>1. token' \in BOOLEAN
  BY <1>t DEF OnTick, OnTrigger, OnStop, TypeOK
<1>2. TypeOK' /\ OneHome' /\ MemoryBounded'
  BY <1>t, <1>u, <1>1 DEF TypeOK, OneHome, MemoryBounded
<1>3. Fresh' /\ Batches' /\ Attempts' /\ Draining'
  BY <1>t, <1>u DEF Fresh, Batches, Writing, Attempts, Draining
<1>4. NoLostWakeup'
  BY <1>u DEF NoLostWakeup
<1> QED BY <1>2, <1>3, <1>4 DEF IInv, MetricsInv

LEMMA DrainInv ==
    ASSUME IInv, Drain
    PROVE  IInv'
<1>t. TypeOK /\ OneHome /\ MemoryBounded /\ Fresh /\ Batches /\ Attempts /\ Draining
  BY DEF IInv, MetricsInv
<1>u. /\ pc \in {"drain", "last-drain"} /\ batch' = retry \union buffer /\ retry' = {} /\ buffer' = {}
      /\ adder' = adder /\ dropped' = dropped /\ token' = token
      /\ attempts' = attempts /\ lost' = lost /\ table' = table
      /\ faults' = faults /\ tries' = tries /\ phase' = phase /\ timedOut' = timedOut /\ early' = early
      /\ pc' \in {"select", "exited", "write", "last-write"}
      /\ (pc' \in {"exited", "last-write"} <=> pc = "last-drain")
      /\ (pc' \in {"write", "last-write"} <=> batch' # {})
  BY DEF Drain, engine, shutdown, AfterRun
<1>1. batch = {}
  BY <1>t, <1>u DEF Batches, Writing
<1>2. failed' \in BOOLEAN
  BY <1>t DEF Drain, TypeOK
<1>3. TypeOK' /\ OneHome'
  BY <1>t, <1>u, <1>1, <1>2 DEF TypeOK, OneHome
<1>4. MemoryBounded'
  <2>1. /\ IsFiniteSet(retry) /\ IsFiniteSet(buffer) /\ retry \cap buffer = {}
        /\ Cardinality(retry) \in Nat /\ Cardinality(buffer) \in Nat
    BY <1>t, Sizes DEF TypeOK, OneHome
  <2>2. Cardinality(retry \union buffer) = Cardinality(retry) + Cardinality(buffer)
    <3>1. Cardinality(retry \cap buffer) = 0
      BY <2>1, EmptySize
    <3>2. Cardinality(retry \union buffer) =
            Cardinality(retry) + Cardinality(buffer) - Cardinality(retry \cap buffer)
      BY <2>1, FS_Union
    <3> QED BY <2>1, <3>1, <3>2
  <2>3. attempts \in Nat /\ Capacity \in Nat
    BY <1>t, MetricsAssumption DEF TypeOK
  <2>4. Cardinality(retry) <= attempts * Capacity /\ Cardinality(buffer) <= Capacity
    BY <1>t DEF MemoryBounded
  <2>5. Cardinality(batch') <= (attempts + 1) * Capacity
    BY <1>u, <2>1, <2>2, <2>3, <2>4, Multiples
  <2>6. 0 <= attempts * Capacity /\ 0 <= Capacity
    BY <2>3, Multiples
  <2> QED BY <1>u, <2>5, <2>6, EmptySize DEF MemoryBounded
<1>5. Fresh' /\ Batches' /\ Attempts'
  BY <1>t, <1>u, <1>1 DEF TypeOK, Fresh, Batches, Writing, Attempts
<1>6. Draining'
  BY <1>t, <1>u, <1>1 DEF Draining, Batches, Writing
<1>7. NoLostWakeup'
  BY <1>u DEF NoLostWakeup
<1> QED BY <1>3, <1>4, <1>5, <1>6, <1>7 DEF IInv, MetricsInv

(* What WriteOK and WriteFails leave to flush. *)
LEMMA WriteFacts ==
    ASSUME IInv, Write
    PROVE  /\ Writing /\ batch # {} /\ retry = {} /\ batch' = {}
           /\ adder' = adder /\ buffer' = buffer /\ dropped' = dropped /\ token' = token
           /\ phase' = phase /\ timedOut' = timedOut /\ early' = early
           /\ pc' = (IF pc = "last-write" THEN "exited" ELSE "select")
           /\ tries' = [e \in Events |-> tries[e] + (IF e \in batch THEN 1 ELSE 0)]
           /\ tries' \in [Events -> Nat]
<1>1. Writing
  BY DEF Write, WriteOK, WriteFails, Writing
<1>2. batch # {} /\ retry = {}
  BY <1>1 DEF IInv, Batches
<1>3. TypeOK
  BY DEF IInv, MetricsInv
<1>4. /\ tries' = [e \in Events |-> tries[e] + (IF e \in batch THEN 1 ELSE 0)]
  BY DEF Write, Tried
<1>5. tries' \in [Events -> Nat]
  BY <1>3, <1>4 DEF TypeOK
<1>6. pc' = (IF pc = "last-write" THEN "exited" ELSE "select")
  BY <1>1 DEF Write, AfterRun, Writing
<1> QED BY <1>1, <1>2, <1>4, <1>5, <1>6 DEF Write, shutdown

LEMMA WriteInv ==
    ASSUME IInv, Write
    PROVE  IInv'
<1>t. TypeOK /\ OneHome /\ MemoryBounded /\ Fresh /\ Batches /\ Attempts /\ Draining
  BY DEF IInv, MetricsInv
<1>w. /\ Writing /\ batch # {} /\ retry = {} /\ batch' = {}
      /\ adder' = adder /\ buffer' = buffer /\ dropped' = dropped /\ token' = token
      /\ phase' = phase /\ timedOut' = timedOut /\ early' = early
      /\ pc' = (IF pc = "last-write" THEN "exited" ELSE "select")
      /\ tries' = [e \in Events |-> tries[e] + (IF e \in batch THEN 1 ELSE 0)]
      /\ tries' \in [Events -> Nat]
  BY WriteFacts
<1>n. NoLostWakeup'
  BY <1>w DEF NoLostWakeup, IInv, Writing
<1>b. Batches'
  <2>1. ~Writing'
    BY <1>w DEF Writing
  <2> QED BY <2>1, <1>w DEF Batches
<1>c. attempts \in Nat /\ attempts < maxWriteAttempts /\ Capacity \in Nat /\ maxWriteAttempts \in Nat
  BY <1>t, MetricsAssumption DEF TypeOK
<1>f. Fresh'
  <2>1. table' \union lost' \union retry' \subseteq table \union lost \union batch
    BY <1>w DEF Write, WriteOK, WriteFails
  <2> QED BY <1>t, <1>w, <2>1 DEF Fresh, TypeOK, OneHome
<1>1. CASE WriteOK
  <2>1. /\ table' = table \union batch /\ attempts' = 0 /\ failed' = FALSE
        /\ retry' = retry /\ lost' = lost /\ faults' = faults
    BY <1>1 DEF WriteOK
  <2>2. TypeOK' /\ OneHome'
    <3>1. attempts' \in 0..(maxWriteAttempts - 1)
      BY <1>c, <2>1
    <3>2. failed' \in BOOLEAN
      BY <2>1
    <3> QED BY <1>t, <1>w, <2>1, <3>1, <3>2 DEF TypeOK, OneHome
  <2>3. MemoryBounded'
    BY <1>t, <1>w, <1>c, <2>1, EmptySize, Multiples DEF MemoryBounded
  <2>4. Attempts' /\ Draining'
    BY <1>t, <1>w, <2>1 DEF Attempts, Draining, Writing
  <2> QED BY <1>n, <1>b, <1>f, <2>2, <2>3, <2>4 DEF IInv, MetricsInv
<1>2. CASE WriteFails /\ attempts + 1 < maxWriteAttempts
  <2>1. /\ table' = table /\ attempts' = attempts + 1 /\ failed' = TRUE
        /\ retry' = batch /\ lost' = lost /\ faults' \in {faults, faults + 1}
    BY <1>2 DEF WriteFails
  <2>2. TypeOK' /\ OneHome'
    BY <1>t, <1>w, <1>c, <1>2, <2>1 DEF TypeOK, OneHome
  <2>3. MemoryBounded'
    <3>1. Cardinality(retry') <= attempts' * Capacity
      BY <1>t, <2>1 DEF MemoryBounded
    <3>2. 0 <= (attempts' + 1) * Capacity
      BY <1>c, <2>1, Multiples
    <3>3. Cardinality(batch') = 0
      BY <1>w, EmptySize
    <3> QED BY <1>t, <1>w, <3>1, <3>2, <3>3 DEF MemoryBounded
  <2>4. Attempts'
    <3>1. PICK e \in batch : tries[e] = attempts
      BY <1>t, <1>w DEF Attempts
    <3>2. e \in retry' /\ tries'[e] = attempts'
      BY <1>t, <1>w, <2>1, <3>1 DEF TypeOK
    <3> QED BY <1>c, <2>1, <3>2 DEF Attempts
  <2>5. Draining'
    BY <1>t, <1>w, <2>1 DEF Draining, Writing
  <2> QED BY <1>n, <1>b, <1>f, <2>2, <2>3, <2>4, <2>5 DEF IInv, MetricsInv
<1>3. CASE WriteFails /\ ~(attempts + 1 < maxWriteAttempts)
  <2>1. /\ table' = table /\ attempts' = 0 /\ failed' = TRUE
        /\ retry' = retry /\ lost' = lost \union batch /\ faults' \in {faults, faults + 1}
    BY <1>3 DEF WriteFails
  <2>2. TypeOK' /\ OneHome'
    BY <1>t, <1>w, <1>c, <2>1 DEF TypeOK, OneHome
  <2>3. MemoryBounded'
    BY <1>t, <1>w, <1>c, <2>1, EmptySize, Multiples DEF MemoryBounded
  <2>4. Attempts' /\ Draining'
    BY <1>t, <1>w, <2>1 DEF Attempts, Draining, Writing
  <2> QED BY <1>n, <1>b, <1>f, <2>2, <2>3, <2>4 DEF IInv, MetricsInv
<1> QED BY <1>1, <1>2, <1>3 DEF Write

LEMMA ShutdownInv ==
    ASSUME IInv, Stop \/ Close
    PROVE  IInv'
<1>t. TypeOK /\ OneHome /\ MemoryBounded /\ Fresh /\ Batches /\ Attempts /\ Draining
  BY DEF IInv, MetricsInv
<1>u. /\ adder' = adder /\ buffer' = buffer /\ dropped' = dropped /\ batch' = batch /\ retry' = retry
      /\ attempts' = attempts /\ lost' = lost /\ failed' = failed /\ table' = table
      /\ faults' = faults /\ tries' = tries /\ early' = early /\ token' = token /\ pc' = pc
  BY DEF Stop, Close, engine
<1>1. timedOut' \in BOOLEAN
  BY <1>t DEF Stop, Close, TypeOK
<1>2. phase' \in {"stopping", "closed"} /\ (phase' = "closed" => timedOut' = TRUE \/ pc = "exited")
  BY DEF Stop, Close
<1>3. TypeOK' /\ OneHome' /\ MemoryBounded'
  BY <1>t, <1>u, <1>1, <1>2 DEF TypeOK, OneHome, MemoryBounded
<1>4. Fresh' /\ Batches' /\ Attempts' /\ Draining'
  BY <1>t, <1>u, <1>2 DEF Fresh, Batches, Writing, Attempts, Draining
<1>5. NoLostWakeup'
  BY <1>u DEF NoLostWakeup, IInv
<1> QED BY <1>3, <1>4, <1>5 DEF IInv, MetricsInv

LEMMA StepInv == IInv /\ [Next]_vars => IInv'
<1> SUFFICES ASSUME IInv, [Next]_vars PROVE IInv'
  OBVIOUS
<1>1. CASE UNCHANGED vars
  BY <1>1 DEF vars, engine, shutdown, IInv, MetricsInv, TypeOK, OneHome, MemoryBounded,
              NoLostWakeup, Fresh, Batches, Writing, Attempts, Draining
<1> QED BY <1>1, AppendInv, WakeInv, SelectInv, DrainInv, WriteInv, ShutdownInv DEF Next, Job

(* The inductive invariant holds in every reachable state. *)
LEMMA Inductive == Spec => []IInv
BY InitInv, StepInv, PTL DEF Spec

-----------------------------------------------------------------------------
(* Events are written at most once, none is written and reported lost, and *)
(* what the engine holds is bounded by its attempts, for every capacity    *)
(* and every number of failing writes.                                     *)
THEOREM MetricsInvariance == Spec => []MetricsInv
<1>1. IInv => MetricsInv
  BY DEF IInv
<1> QED BY <1>1, Inductive, PTL

(* A buffer that is half full never waits for the ticker alone.            *)
THEOREM WakeupsKept == Spec => []NoLostWakeup
<1>1. IInv => NoLostWakeup
  BY DEF IInv
<1> QED BY <1>1, Inductive, PTL

(* A Shutdown that returned nil, and whose last run did not fail, left     *)
(* nothing behind.  The second hypothesis is needed: the loop drops the    *)
(* error of its last run, so that Shutdown returns nil although that run   *)
(* failed and a batch is left to be retried.                               *)
THEOREM ShutdownIsClean == Spec => []CleanShutdownDrains
<1>1. IInv => CleanShutdownDrains
  <2> SUFFICES ASSUME IInv, phase = "closed", ~timedOut, ~failed
               PROVE  early \subseteq table \union lost
    BY DEF CleanShutdownDrains
  <2>1. timedOut \in BOOLEAN /\ failed \in BOOLEAN
    BY DEF IInv, MetricsInv, TypeOK
  <2>2. timedOut # TRUE /\ failed # TRUE
    BY <2>1
  <2>3. pc = "exited" /\ retry = {}
    BY <2>2 DEF IInv, Draining
  <2>4. batch = {} /\ early \cap buffer = {}
    BY <2>3 DEF IInv, Batches, Writing, Draining
  <2> QED BY <2>3, <2>4 DEF IInv, Draining
<1> QED BY <1>1, Inductive, PTL

(* flush gives a batch up only when an event of it was part of             *)
(* maxWriteAttempts writes: a count left over from an older batch never    *)
(* cuts the attempts of a newer one short.                                 *)
THEOREM AttemptsHonoured == Spec => GivenUpOnlyAfterAllAttempts
<1>1. IInv /\ [Next]_vars =>
        [lost' # lost => \E e \in lost' \ lost : tries'[e] = maxWriteAttempts]_vars
  <2> SUFFICES ASSUME IInv, [Next]_vars, lost' # lost
               PROVE  \E e \in lost' \ lost : tries'[e] = maxWriteAttempts
    OBVIOUS
  <2>1. WriteFails /\ Write /\ ~(attempts + 1 < maxWriteAttempts) /\ lost' = lost \union batch
    BY DEF Next, Job, vars, engine, Append, Wake, OnTick, OnTrigger, OnStop, Drain, Write,
           WriteOK, WriteFails, Stop, Close
  <2>2. /\ batch # {} /\ retry = {}
        /\ tries' = [e \in Events |-> tries[e] + (IF e \in batch THEN 1 ELSE 0)]
    BY <2>1, WriteFacts
  <2>3. TypeOK /\ OneHome /\ Attempts
    BY DEF IInv, MetricsInv
  <2>4. PICK e \in batch : tries[e] = attempts
    BY <2>2, <2>3 DEF Attempts
  <2>5. e \in lost' \ lost /\ e \in Events
    BY <2>1, <2>3, <2>4 DEF OneHome, TypeOK
  <2>6. tries'[e] = attempts + 1 /\ attempts + 1 = maxWriteAttempts
    BY <2>1, <2>2, <2>3, <2>4, <2>5, MetricsAssumption DEF TypeOK
  <2> QED BY <2>5, <2>6
<1> QED BY <1>1, Inductive, PTL DEF Spec, GivenUpOnlyAfterAllAttempts

-----------------------------------------------------------------------------
(* The refinement. *)

LEMMA InitMaps == Init => Abstract!Init
BY DEF Init, Abstract!Init, Status

LEMMA StepMaps ==
    IInv /\ [Next]_vars => [Abstract!Next]_[e \in Events |-> Status(e)]
<1> SUFFICES ASSUME IInv, [Next]_vars
             PROVE  [Abstract!Next]_[e \in Events |-> Status(e)]
  OBVIOUS
<1> DEFINE map == [e \in Events |-> Status(e)]
<1>t. TypeOK /\ OneHome /\ Fresh
  BY DEF IInv, MetricsInv
<1>1. ASSUME NEW e \in Events, Append(e) PROVE Abstract!Next
  <2>1. CASE Cardinality(buffer) >= Capacity
    <3>1. Abstract!Move({e}, "new", "refused")
      BY <1>1, <1>t, <2>1 DEF Append, engine, OneHome, Fresh, Status, Abstract!Move
    <3> QED BY <3>1 DEF Abstract!Next
  <2>2. CASE ~(Cardinality(buffer) >= Capacity)
    <3>1. Abstract!Move({e}, "new", "held")
      BY <1>1, <1>t, <2>2 DEF Append, engine, OneHome, Fresh, Status, Abstract!Move
    <3> QED BY <3>1 DEF Abstract!Next
  <2> QED BY <2>1, <2>2
<1>2. ASSUME NEW e \in Events, Wake(e) PROVE UNCHANGED map
  BY <1>2 DEF Wake, engine, Status
<1>3. CASE OnTick \/ OnTrigger \/ OnStop \/ Stop \/ Close
  <2>1. UNCHANGED map
    BY <1>3 DEF OnTick, OnTrigger, OnStop, Stop, Close, engine, Status
  <2> QED BY <2>1
<1>4. CASE Drain
  <2>1. batch = {}
    BY <1>4 DEF Drain, IInv, Batches, Writing
  <2>2. UNCHANGED map
    BY <1>4, <2>1 DEF Drain, Status
  <2> QED BY <2>2
<1>5. CASE Write
  <2>1. /\ batch # {} /\ retry = {} /\ batch' = {} /\ buffer' = buffer /\ dropped' = dropped
        /\ batch \in SUBSET Events
    BY <1>5, <1>t, WriteFacts DEF TypeOK
  <2>2. CASE table' = table \union batch /\ lost' = lost /\ retry' = {}
    <3>1. Abstract!Move(batch, "held", "stored")
      BY <1>t, <2>1, <2>2 DEF OneHome, Status, Abstract!Move
    <3> QED BY <2>1, <3>1 DEF Abstract!Next
  <2>3. CASE table' = table /\ lost' = lost /\ retry' = batch
    <3>1. UNCHANGED map
      BY <1>t, <2>1, <2>3 DEF OneHome, Status
    <3> QED BY <3>1
  <2>4. CASE table' = table /\ lost' = lost \union batch /\ retry' = {}
    <3>1. Abstract!Move(batch, "held", "lost")
      BY <1>t, <2>1, <2>4 DEF OneHome, Status, Abstract!Move
    <3> QED BY <2>1, <3>1 DEF Abstract!Next
  <2> QED BY <1>5, <2>1, <2>2, <2>3, <2>4 DEF Write, WriteOK, WriteFails
<1>6. CASE UNCHANGED vars
  BY <1>6 DEF vars, engine, Status
<1> QED BY <1>1, <1>2, <1>3, <1>4, <1>5, <1>6 DEF Next, Job

(* The metrics engine implements Delivery: an event that was taken is      *)
(* written at most once or given up, also while a failed batch is retried. *)
THEOREM MetricsDeliver == Spec => ImplementsDelivery
<1> QED BY Inductive, InitMaps, StepMaps, PTL DEF Spec, ImplementsDelivery, Abstract!Spec


-----------------------------------------------------------------------------
(* The reports.  Division, first. *)

LEMMA Division ==
    ASSUME NEW a \in Nat, NEW b \in Nat \ {0}
    PROVE  /\ a \div b \in Nat
           /\ (a \div b) * b <= a
           /\ a < (a \div b + 1) * b
OBVIOUS

LEMMA Cancel ==
    ASSUME NEW p \in Int, NEW q \in Int, NEW b \in Nat \ {0}, p * b < q * b
    PROVE  p < q
OBVIOUS

LEMMA Products ==
    ASSUME NEW p \in Int, NEW b \in Int
    PROVE  p * b \in Int /\ (p + 1) * b = p * b + b /\ (-p) * b = -(p * b)
OBVIOUS

-----------------------------------------------------------------------------
(* bucketFor has no range without a width. *)
LEMMA WidthPositive ==
    ASSUME NEW r \in Int
    PROVE  BucketFor(r) \in Nat \ {0}
<1>1. Minute \in Nat \ {0}
  BY ReadsAssumption
<1> QED BY <1>1 DEF BucketFor, Day, Hour

(* The first bucket begins at the start of the range or before, or before  *)
(* the epoch.                                                              *)
LEMMA StartBefore ==
    ASSUME NEW from \in Int, NEW b \in Nat \ {0}, NEW s \in Nat, s >= from
    PROVE  BucketStart(from, b) \in Int /\ s >= BucketStart(from, b)
<1>1. CASE from >= 0
  <2>1. from \in Nat
    BY <1>1
  <2>2. from \div b \in Nat /\ (from \div b) * b <= from
    BY <2>1, Division
  <2>3. BucketStart(from, b) = (from \div b) * b
    BY <1>1 DEF BucketStart, Quotient
  <2> QED BY <2>2, <2>3, Products
<1>2. CASE ~(from >= 0)
  <2> DEFINE q == (-from) \div b
  <2>1. -from \in Nat
    BY <1>2
  <2>2. q \in Nat
    BY <2>1, Division
  <2>3. BucketStart(from, b) = (-q) * b
    BY <1>2 DEF BucketStart, Quotient
  <2> HIDE DEF q
  <2>4. q * b \in Nat
    BY <2>2
  <2> QED BY <2>2, <2>3, <2>4, Products
<1> QED BY <1>1, <1>2

(* Points[idx] exists for every event of the range, and its interval holds *)
(* the event.                                                              *)
LEMMA PointsExist ==
    ASSUME TypeOK, NEW from \in Int, NEW to \in Int
    PROVE  EventsHavePoints(from, to)
<1> DEFINE b == BucketFor(to - from)
           start == BucketStart(from, b)
<1> SUFFICES ASSUME NEW e \in Window(from, to)
             PROVE  /\ Idx(e, from, b) \in 0..(Buckets(from, to, b) - 1)
                    /\ StartedAt[e] >= start + Idx(e, from, b) * b
                    /\ StartedAt[e] < start + (Idx(e, from, b) + 1) * b
  BY DEF EventsHavePoints
<1>1. b \in Nat \ {0}
  BY WidthPositive
<1>2. StartedAt[e] \in Nat /\ StartedAt[e] >= from /\ StartedAt[e] < to
  BY ReadsAssumption DEF Window, TypeOK
<1> HIDE DEF b
<1>3. start \in Int /\ StartedAt[e] >= start
  BY <1>1, <1>2, StartBefore
<1> HIDE DEF start
<1> DEFINE d == StartedAt[e] - start
           m == to - start + b - 1
<1>4. d \in Nat /\ m \in Nat /\ d + b <= m
  BY <1>1, <1>2, <1>3
<1>5. Idx(e, from, b) = d \div b /\ Buckets(from, to, b) = m \div b
  BY <1>4 DEF Idx, Buckets, Quotient, start
<1> HIDE DEF d, m
<1>6. d \div b \in Nat /\ (d \div b) * b <= d /\ d < (d \div b + 1) * b
  BY <1>1, <1>4, Division
<1>7. m \div b \in Nat /\ m < (m \div b + 1) * b
  BY <1>1, <1>4, Division
<1> DEFINE i == d \div b
           n == m \div b
<1>8. i \in Nat /\ n \in Nat /\ i * b <= d /\ d < (i + 1) * b /\ m < (n + 1) * b
  BY <1>6, <1>7
<1>e. Idx(e, from, b) = i /\ Buckets(from, to, b) = n
  BY <1>5
<1> HIDE DEF i, n
<1>9. i * b < n * b
  <2>1. i * b \in Int /\ n * b \in Int /\ (n + 1) * b = n * b + b
    BY <1>1, <1>8, Products
  <2> QED BY <2>1, <1>1, <1>4, <1>8
<1>10. i < n
  BY <1>1, <1>8, <1>9, Cancel
<1>11. i * b \in Int /\ (i + 1) * b \in Int
  BY <1>1, <1>8
<1>12. StartedAt[e] >= start + i * b /\ StartedAt[e] < start + (i + 1) * b
  BY <1>2, <1>3, <1>8, <1>11 DEF d
<1> QED BY <1>e, <1>8, <1>10, <1>12

(* The points of the two series hold all that the tiles count. *)
LEMMA SeriesHolds ==
    ASSUME TypeOK, NEW from \in Int, NEW to \in Int
    PROVE  SeriesMatchesTiles(from, to) /\ SpendAddsUp(from, to)
<1> DEFINE b == BucketFor(to - from)
           n == Buckets(from, to, b)
           w == Window(from, to)
<1>1. \A e \in w : Idx(e, from, b) \in 0..(n - 1)
  BY PointsExist DEF EventsHavePoints
<1>2. \A e \in w : Result(e) \in {"ok", "client_abort"} \/ IsError(e)
  BY DEF IsError
<1>3. SeriesMatchesTiles(from, to)
  <2> DEFINE series == GetRequestSummaryByTime(from, to)
             tiles == GetOverviewTiles(from, to)
  <2>1. /\ DOMAIN series = 0..(n - 1)
        /\ \A i \in 0..(n - 1) :
             /\ series[i].errors = {e \in w : Idx(e, from, b) = i /\ IsError(e)}
             /\ series[i].cancelled = {e \in w : Idx(e, from, b) = i /\ IsCancelled(e)}
             /\ series[i].success =
                  {e \in w : Idx(e, from, b) = i /\ Result(e) = "ok" /\ Provider[e] # ""}
    BY DEF GetRequestSummaryByTime
  <2>2. /\ tiles.requests = w /\ tiles.errors = {e \in w : IsError(e)}
        /\ tiles.cancelled = {e \in w : IsCancelled(e)}
    BY DEF GetOverviewTiles
  <2> HIDE DEF series, tiles, b, n, w
  <2>3. UNION {series[i].errors : i \in DOMAIN series} = tiles.errors
    <3>1. \A e : e \in UNION {series[i].errors : i \in DOMAIN series} <=> \E i \in 0..(n - 1) : e \in series[i].errors
      BY <2>1
    <3>2. \A e : (\E i \in 0..(n - 1) : e \in series[i].errors) <=> e \in w /\ IsError(e)
      BY <2>1, <1>1
    <3> QED BY <3>1, <3>2, <2>2
  <2>4. UNION {series[i].cancelled : i \in DOMAIN series} = tiles.cancelled
    <3>1. \A e : e \in UNION {series[i].cancelled : i \in DOMAIN series} <=> \E i \in 0..(n - 1) : e \in series[i].cancelled
      BY <2>1
    <3>2. \A e : (\E i \in 0..(n - 1) : e \in series[i].cancelled) <=> e \in w /\ IsCancelled(e)
      BY <2>1, <1>1
    <3> QED BY <3>1, <3>2, <2>2
  <2>5. UNION {series[i].success : i \in DOMAIN series} =
          tiles.requests \ (tiles.errors \union tiles.cancelled
                              \union {e \in tiles.requests : Result(e) = "ok" /\ Provider[e] = ""})
    <3>1. UNION {series[i].success : i \in DOMAIN series} = {e \in w : Result(e) = "ok" /\ Provider[e] # ""}
      <4>1. \A e : e \in UNION {series[i].success : i \in DOMAIN series} <=> \E i \in 0..(n - 1) : e \in series[i].success
        BY <2>1
      <4>2. \A e : (\E i \in 0..(n - 1) : e \in series[i].success) <=> e \in w /\ Result(e) = "ok" /\ Provider[e] # ""
        BY <2>1, <1>1
      <4> QED BY <4>1, <4>2
    <3> QED BY <3>1, <2>2 DEF IsError, IsCancelled
  <2> QED BY <2>3, <2>4, <2>5 DEF SeriesMatchesTiles, series, tiles
<1>4. SpendAddsUp(from, to)
  <2> SUFFICES ASSUME NEW budget
               PROVE  LET points == GetBudgetSpendByTime(budget, from, to)
                      IN  UNION {points[i].spend : i \in DOMAIN points} = {e \in w : BudgetOf[e] = budget}
    BY DEF SpendAddsUp
  <2> DEFINE points == GetBudgetSpendByTime(budget, from, to)
  <2>1. /\ DOMAIN points = 0..(n - 1)
        /\ \A i \in 0..(n - 1) :
             points[i].spend = {e \in w : BudgetOf[e] = budget /\ Idx(e, from, b) = i}
    BY DEF GetBudgetSpendByTime
  <2> HIDE DEF points, b, n, w
  <2>2. \A e : e \in UNION {points[i].spend : i \in DOMAIN points} <=> \E i \in 0..(n - 1) : e \in points[i].spend
    BY <2>1
  <2>3. \A e : (\E i \in 0..(n - 1) : e \in points[i].spend) <=> e \in w /\ BudgetOf[e] = budget
    BY <2>1, <1>1
  <2> QED BY <2>2, <2>3 DEF points
<1> QED BY <1>3, <1>4

(* A number lies in one page only. *)
LEMMA PageUnique ==
    ASSUME NEW r \in Nat, NEW limit \in Nat \ {0}, NEW m \in Nat
    PROVE  (r >= m * limit /\ r < m * limit + limit) <=> m = r \div limit
<1> DEFINE n == r \div limit
<1>1. n \in Nat /\ n * limit <= r /\ r < (n + 1) * limit
  BY Division
<1> HIDE DEF n
<1>2. /\ m * limit \in Int /\ (m + 1) * limit = m * limit + limit
      /\ n * limit \in Int /\ (n + 1) * limit = n * limit + limit
  BY <1>1, Products
<1>3. m = n => (r >= m * limit /\ r < m * limit + limit)
  BY <1>1, <1>2
<1>4. ASSUME r >= m * limit, r < m * limit + limit PROVE m = n
  <2>1. n < m + 1
    <3>1. n * limit < (m + 1) * limit
      BY <1>1, <1>2, <1>4
    <3> QED BY <1>1, <3>1, Cancel
  <2>2. m < n + 1
    <3>1. m * limit < (n + 1) * limit
      BY <1>1, <1>2, <1>4
    <3> QED BY <1>1, <3>1, Cancel
  <2> QED BY <1>1, <2>1, <2>2
<1> QED BY <1>3, <1>4 DEF n

(* A request of the range is on the page its place in the log says, and on *)
(* no other.                                                               *)
LEMMA PagesTurn ==
    ASSUME TypeOK, NEW from \in Int, NEW to \in Int
    PROVE  PagesCover(from, to)
<1> DEFINE C == Cardinality(Events)
           w == Window(from, to)
           rank(e) == Cardinality({f \in w : Newer(f, e)})
           rows(n, limit) == GetRequestLogsByTime(from, to, n * limit, limit).rows
<1>1. C \in Nat /\ w \subseteq Events /\ Events \subseteq Nat /\ StartedAt \in [Events -> Nat]
  BY MetricsAssumption, ReadsAssumption, FS_CardinalityType DEF Window, TypeOK
<1>2. ASSUME NEW e \in w PROVE rank(e) \in Nat /\ rank(e) < C
  <2>1. ~ Newer(e, e)
    <3>1. e \in Nat /\ StartedAt[e] \in Nat
      BY <1>1
    <3>2. ~ (StartedAt[e] > StartedAt[e]) /\ ~ (e > e)
      BY <3>1
    <3> QED BY <3>2 DEF Newer
  <2>2. {f \in w : Newer(f, e)} \subseteq Events \ {e}
    BY <1>1, <2>1
  <2>3. IsFiniteSet(Events \ {e}) /\ Cardinality(Events \ {e}) = C - 1
    BY <1>1, MetricsAssumption, FS_RemoveElement
  <2>4. rank(e) <= C - 1 /\ IsFiniteSet({f \in w : Newer(f, e)})
    BY <2>2, <2>3, FS_Subset
  <2>5. rank(e) \in Nat
    BY <2>4, FS_CardinalityType
  <2> HIDE DEF C, rank
  <2> QED BY <1>1, <2>4, <2>5
<1>3. ASSUME NEW limit, NEW n, NEW e \in w
      PROVE  e \in rows(n, limit) <=> rank(e) >= n * limit /\ rank(e) < n * limit + limit
  BY DEF GetRequestLogsByTime
<1> HIDE DEF C, w, rank, rows
<1>4. ASSUME NEW limit \in 1..C, NEW e \in w
      PROVE  \E n \in 0..C : {m \in 0..C : e \in rows(m, limit)} = {n}
  <2> DEFINE n == rank(e) \div limit
  <2>1. limit \in Nat \ {0} /\ rank(e) \in Nat /\ rank(e) < C
    BY <1>1, <1>2
  <2>2. \A m \in 0..C : e \in rows(m, limit) <=> m = n
    BY <1>1, <1>3, <2>1, PageUnique
  <2>3. n \in Nat /\ n * limit <= rank(e)
    BY <2>1, Division
  <2> HIDE DEF n
  <2>4. n <= n * limit
    BY <2>1, <2>3
  <2>5. n \in 0..C
    BY <1>1, <2>1, <2>3, <2>4
  <2> QED BY <2>2, <2>5
<1> QED BY <1>4 DEF PagesCover, C, w, rows

(* What events cost is a number. *)
LEMMA SpentIs ==
    ASSUME NEW S \in SUBSET Events
    PROVE  Spent(S) \in Nat
<1> DEFINE coins == [e \in S |-> {e} \X (1 .. Cost[e])]
           All == {{e} \X (1 .. Cost[e]) : e \in S}
<1>1. IsFiniteSet(S)
  BY MetricsAssumption, FS_Subset
<1>2. coins \in Surjection(S, All)
  BY DEF Surjection
<1>3. IsFiniteSet(All)
  BY <1>1, <1>2, FS_Surjection
<1>4. ASSUME NEW e \in S PROVE IsFiniteSet({e} \X (1 .. Cost[e]))
  <2>1. Cost[e] \in Int /\ 1 \in Int
    BY ReadsAssumption
  <2>2. IsFiniteSet(1 .. Cost[e])
    BY <2>1, FS_Interval
  <2> QED BY <2>2, FS_Singleton, FS_Product
<1>5. \A T \in All : IsFiniteSet(T)
  BY <1>4
<1>6. IsFiniteSet(UNION All)
  BY <1>3, <1>5, FS_UNION
<1> QED BY <1>6, FS_CardinalityType DEF Spent

(* In a finite set that a relation orders, what has a smaller rank than an *)
(* element is what comes before it.                                        *)
LEMMA RanksOrder ==
    ASSUME NEW K, IsFiniteSet(K), NEW R,
           \A i \in K : <<i, i>> \notin R,
           \A i, j, k \in K : <<i, j>> \in R /\ <<j, k>> \in R => <<i, k>> \in R,
           \A i, j \in K : i # j => <<i, j>> \in R \/ <<j, i>> \in R,
           NEW k \in K
    PROVE  /\ Cardinality({i \in K : <<i, k>> \in R}) \in Nat
           /\ \A j \in K : Cardinality({i \in K : <<i, j>> \in R}) < Cardinality({i \in K : <<i, k>> \in R})
                            <=> <<j, k>> \in R
<1> DEFINE below(x) == {i \in K : <<i, x>> \in R}
<1>1. ASSUME NEW x \in K PROVE IsFiniteSet(below(x)) /\ Cardinality(below(x)) \in Nat
  <2>1. below(x) \in SUBSET K
    OBVIOUS
  <2> QED BY <2>1, FS_Subset, FS_CardinalityType
<1>2. ASSUME NEW x \in K, NEW y \in K, <<x, y>> \in R PROVE Cardinality(below(x)) < Cardinality(below(y))
  <2>1. below(x) \in SUBSET below(y) /\ x \in below(y) /\ x \notin below(x)
    BY <1>2
  <2>2. Cardinality(below(x)) <= Cardinality(below(y)) /\ Cardinality(below(y)) # Cardinality(below(x))
    BY <1>1, <2>1, FS_Subset
  <2>3. Cardinality(below(x)) \in Nat /\ Cardinality(below(y)) \in Nat
    BY <1>1
  <2> HIDE DEF below
  <2> QED BY <2>2, <2>3
<1>3. ASSUME NEW j \in K, Cardinality(below(j)) < Cardinality(below(k)) PROVE <<j, k>> \in R
  <2>1. Cardinality(below(j)) \in Nat /\ Cardinality(below(k)) \in Nat
    BY <1>1
  <2>2. CASE j = k
    <3>1. Cardinality(below(j)) = Cardinality(below(k))
      BY <2>2
    <3> HIDE DEF below
    <3> QED BY <1>3, <2>1, <3>1
  <2>3. CASE <<k, j>> \in R
    <3>1. Cardinality(below(k)) < Cardinality(below(j))
      BY <1>2, <2>3
    <3> HIDE DEF below
    <3> QED BY <1>3, <2>1, <3>1
  <2> QED BY <2>2, <2>3
<1> QED BY <1>1, <1>2, <1>3

(* The rows of the keys: a longer list has the shorter one's rows first,   *)
(* and one that is shorter than asked for has all.                         *)
LEMMA TopKeysAre ==
    ASSUME TypeOK, NEW from \in Int, NEW to \in Int
    PROVE  TopKeysNest(from, to)
<1> DEFINE C == Cardinality(Events)
           w == {e \in Window(from, to) : KeyOf[e] # 0}
           of(k) == {e \in w : KeyOf[e] = k}
           spend(k) == Spent(of(k))
           count(k) == Cardinality(of(k))
           keys == {KeyOf[e] : e \in w}
           before(j, k) ==
               \/ spend(j) > spend(k)
               \/ spend(j) = spend(k) /\ count(j) > count(k)
               \/ spend(j) = spend(k) /\ count(j) = count(k) /\ j < k
           rank(k) == Cardinality({j \in keys : before(j, k)})
           row(k) == [key |-> k, requests |-> of(k), errors |-> {e \in of(k) : IsError(e)}]
           top(n) == GetTopVirtualKeys(from, to, n)
           R == {p \in keys \X keys : before(p[1], p[2])}
<1>1. w \in SUBSET Events /\ IsFiniteSet(w) /\ C \in Nat
  <2>1. w \in SUBSET Events
    BY DEF Window, TypeOK
  <2> QED BY <2>1, MetricsAssumption, FS_Subset, FS_CardinalityType
<1>2. IsFiniteSet(keys) /\ keys \subseteq Nat
  <2> DEFINE f == [e \in w |-> KeyOf[e]]
  <2>1. f \in Surjection(w, keys)
    BY DEF Surjection
  <2>2. keys \subseteq Nat
    BY <1>1, ReadsAssumption
  <2> QED BY <1>1, <2>1, <2>2, FS_Surjection
<1>3. \A k \in keys : spend(k) \in Nat /\ count(k) \in Nat /\ k \in Nat
  <2> SUFFICES ASSUME NEW k \in keys PROVE spend(k) \in Nat /\ count(k) \in Nat
    BY <1>2
  <2>1. of(k) \in SUBSET w /\ of(k) \in SUBSET Events
    BY <1>1
  <2>2. IsFiniteSet(of(k))
    BY <1>1, <2>1, FS_Subset
  <2> HIDE DEF of
  <2> QED BY <2>1, <2>2, SpentIs, FS_CardinalityType
<1>4. \A n : top(n) = {row(k) : k \in {k \in keys : rank(k) < n}}
  BY DEF GetTopVirtualKeys
<1>5. \A j, k \in keys : row(j) = row(k) => j = k
  <2>1. \A k \in keys : row(k).key = k
    OBVIOUS
  <2> HIDE DEF row
  <2> QED BY <2>1
<1> HIDE DEF C, w, of, spend, count, keys, row, top
<1>6. /\ \A k \in keys : ~ before(k, k)
      /\ \A i, j, k \in keys : before(i, j) /\ before(j, k) => before(i, k)
      /\ \A j, k \in keys : j # k => before(j, k) \/ before(k, j)
  <2>1. ASSUME NEW k \in keys PROVE ~ before(k, k)
    BY <1>3
  <2>2. ASSUME NEW i \in keys, NEW j \in keys, NEW k \in keys, before(i, j), before(j, k) PROVE before(i, k)
    <3>1. /\ spend(i) \in Nat /\ count(i) \in Nat /\ i \in Nat
          /\ spend(j) \in Nat /\ count(j) \in Nat /\ j \in Nat
          /\ spend(k) \in Nat /\ count(k) \in Nat /\ k \in Nat
      BY <1>3
    <3> QED BY <2>2, <3>1
  <2>3. ASSUME NEW j \in keys, NEW k \in keys, j # k PROVE before(j, k) \/ before(k, j)
    <3>1. /\ spend(j) \in Nat /\ count(j) \in Nat /\ j \in Nat
          /\ spend(k) \in Nat /\ count(k) \in Nat /\ k \in Nat
      BY <1>3
    <3> QED BY <2>3, <3>1
  <2> QED BY <2>1, <2>2, <2>3
<1> HIDE DEF before
<1>7. ASSUME NEW k \in keys
      PROVE  rank(k) \in Nat /\ \A j \in keys : rank(j) < rank(k) <=> before(j, k)
  <2>1. \A i, j \in keys : <<i, j>> \in R <=> before(i, j)
    OBVIOUS
  <2> HIDE DEF R
  <2>2. \A x \in keys : {i \in keys : <<i, x>> \in R} = {i \in keys : before(i, x)}
    BY <2>1
  <2>3. /\ \A i \in keys : <<i, i>> \notin R
        /\ \A i, j, x \in keys : <<i, j>> \in R /\ <<j, x>> \in R => <<i, x>> \in R
        /\ \A i, j \in keys : i # j => <<i, j>> \in R \/ <<j, i>> \in R
    BY <1>6, <2>1
  <2>4. /\ Cardinality({i \in keys : <<i, k>> \in R}) \in Nat
        /\ \A j \in keys : Cardinality({i \in keys : <<i, j>> \in R}) < Cardinality({i \in keys : <<i, k>> \in R})
                              <=> <<j, k>> \in R
    BY <1>2, <2>3, RanksOrder
  <2> QED BY <2>1, <2>2, <2>4
<1> SUFFICES ASSUME NEW n \in 1 .. C
             PROVE  /\ top(n) \subseteq top(n + 1)
                    /\ Cardinality(top(n)) = n \/ top(n) = top(n + 1)
  BY DEF TopKeysNest, C, top
<1>8. n \in Nat
  BY <1>1
<1>9. top(n) \subseteq top(n + 1)
  <2>1. \A k \in keys : rank(k) < n => rank(k) < n + 1
    <3> SUFFICES ASSUME NEW k \in keys PROVE rank(k) < n => rank(k) < n + 1
      OBVIOUS
    <3>1. rank(k) \in Nat
      BY <1>7
    <3> HIDE DEF rank
    <3> QED BY <1>8, <3>1
  <2> HIDE DEF rank
  <2> QED BY <1>4, <2>1
<1>10. CASE \E k \in keys : rank(k) = n
  <2>1. PICK k \in keys : rank(k) = n
    BY <1>10
  <2> DEFINE T == {j \in keys : before(j, k)}
             f == [j \in T |-> row(j)]
  <2>2. Cardinality(T) = n /\ IsFiniteSet(T)
    <3>1. T \in SUBSET keys
      OBVIOUS
    <3> QED BY <1>2, <2>1, <3>1, FS_Subset
  <2>3. top(n) = {row(j) : j \in T}
    <3>1. T = {j \in keys : rank(j) < n}
      BY <1>7, <2>1
    <3> HIDE DEF T
    <3> QED BY <1>4, <3>1
  <2>4. f \in Surjection(T, top(n)) /\ f \in Injection(T, top(n))
    BY <1>5, <2>3 DEF Surjection, Injection, IsInjective
  <2> HIDE DEF T, f
  <2>5. Cardinality(top(n)) = Cardinality(T)
    BY <2>2, <2>4, FS_Surjection
  <2> QED BY <1>9, <2>2, <2>5
<1>11. CASE ~ \E k \in keys : rank(k) = n
  <2>1. \A k \in keys : rank(k) < n + 1 <=> rank(k) < n
    <3> SUFFICES ASSUME NEW k \in keys PROVE rank(k) < n + 1 <=> rank(k) < n
      OBVIOUS
    <3>1. rank(k) \in Nat /\ rank(k) # n
      BY <1>7, <1>11
    <3> HIDE DEF rank
    <3> QED BY <1>8, <3>1
  <2> HIDE DEF rank
  <2> QED BY <1>4, <1>9, <2>1
<1> QED BY <1>10, <1>11

(* The reports of the dashboard are whole, whatever the engine has written *)
(* and for every range: indexing Points never fails, the points of the     *)
(* requests add up to the tiles, and those of a budget to its spend; the   *)
(* pages of the log show each request once, and the list of the top keys   *)
(* is a part of the longer one.                                            *)
THEOREM ReportsAreWhole ==
    Spec => [](\A from, to \in Int : /\ EventsHavePoints(from, to)
                                     /\ SeriesMatchesTiles(from, to)
                                     /\ SpendAddsUp(from, to)
                                     /\ PagesCover(from, to)
                                     /\ TopKeysNest(from, to))
<1>1. MetricsInv => \A from, to \in Int : /\ EventsHavePoints(from, to)
                                          /\ SeriesMatchesTiles(from, to)
                                          /\ SpendAddsUp(from, to)
                                          /\ PagesCover(from, to)
                                          /\ TopKeysNest(from, to)
  BY PointsExist, SeriesHolds, PagesTurn, TopKeysAre DEF MetricsInv
<1> QED BY <1>1, MetricsInvariance, PTL

(* So when every event has settled, the reports agree over the ranges that *)
(* the engine accepts.                                                     *)
THEOREM ReportsDoAgree == Spec => []ReportsAgree
<1>1. (\A from, to \in Int : /\ EventsHavePoints(from, to)
                             /\ SeriesMatchesTiles(from, to)
                             /\ SpendAddsUp(from, to)
                             /\ PagesCover(from, to)
                             /\ TopKeysNest(from, to)) => ReportsAgree
  <2>1. \A r \in Ranges : r[1] \in Int /\ r[2] \in Int
    BY ReadsAssumption
  <2> QED BY <2>1 DEF ReportsAgree
<1> QED BY <1>1, ReportsAreWhole, PTL
=============================================================================
