------------------------- MODULE WorkerGroupProofs -------------------------
(***************************************************************************)
(* Proofs about WorkerGroup, for any number of jobs, whichever of them run *)
(* at start and at stop.                                                   *)
(***************************************************************************)
EXTENDS WorkerGroup, TLAPS

(* The loops exist from Launch on, and exec is under way in three of their *)
(* places and in one of Start's.                                           *)
Before == {"new", "starting", "running-at-start", "failed"}
Executing(j) == loop[j] \in {"run", "run-reset", "drain"} \/ (owner = "running-at-start" /\ next = j)

Booleans ==
    /\ ticked \in [Jobs -> BOOLEAN] /\ token \in [Jobs -> BOOLEAN]
    /\ failed \in [Jobs -> BOOLEAN] /\ passed \in [Jobs -> BOOLEAN]
    /\ asked \in [Jobs -> BOOLEAN] /\ work \in [Jobs -> BOOLEAN]

(* Where the owner and the loops are, and what runs. *)
Places ==
    /\ owner \in Owners /\ next \in 1..(NumJobs + 1)
    /\ loop \in [Jobs -> {"none", "select", "run", "run-reset", "drain", "exited"}]
    /\ owner = "running-at-start" => next \in RunAtStart
    /\ \A j \in Jobs : loop[j] = "none" <=> owner \in Before
    /\ \A j \in Jobs : loop[j] \in {"drain", "exited"} => Stopping
    /\ owner = "stopped" => \A j \in Jobs : loop[j] = "exited"

Runs ==
    /\ running \in [Jobs -> BOOLEAN] /\ flying \in [Jobs -> Nat]
    /\ \A j \in Jobs : running[j] = Executing(j)
    /\ \A j \in Jobs : flying[j] = (IF Executing(j) THEN 1 ELSE 0)

(* A job of Start has passed once Start has gone past it. *)
StartJobs ==
    /\ owner \in {"starting", "running-at-start"} => \A j \in RunAtStart : j < next => passed[j]
    /\ owner \notin Before => \A j \in RunAtStart : passed[j]

(* The last run of a loop has seen what Shutdown found. *)
Drained ==
    /\ owed \in [Jobs -> BOOLEAN]
    /\ \A j \in RunAtStop : loop[j] \in {"drain", "exited"} => ~owed[j]

WorkerIInv == Booleans /\ Places /\ Runs /\ StartJobs /\ TriggerNotLost /\ Drained

-----------------------------------------------------------------------------
LEMMA InitInv == Init => WorkerIInv
<1> SUFFICES ASSUME Init PROVE WorkerIInv
  OBVIOUS
<1> USE WorkerAssumption DEF Jobs
<1>1. Booleans /\ TriggerNotLost /\ Drained
  BY DEF Init, AllJobs, Booleans, TriggerNotLost, Drained
<1>2. Places
  BY DEF Init, AllJobs, Places, Owners, Before, Stopping
<1>3. Runs
  BY DEF Init, AllJobs, Runs, Executing
<1>4. StartJobs
  BY DEF Init, StartJobs, Before
<1> QED BY <1>1, <1>2, <1>3, <1>4 DEF WorkerIInv

(* What a run's beginning and end do to the job, and to no other. *)
LEMMA Begins ==
    ASSUME Runs, Booleans, Drained, NEW j \in Jobs, BeginRun(j), ~Executing(j),
           \A k \in Jobs : Executing(k)' = (k = j \/ Executing(k))
    PROVE  /\ Runs' /\ asked' \in [Jobs -> BOOLEAN] /\ work' \in [Jobs -> BOOLEAN] /\ owed' \in [Jobs -> BOOLEAN]
           /\ \A k \in Jobs : (asked'[k] => asked[k]) /\ (owed'[k] => owed[k])
           /\ ~owed'[j]
<1>1. running' \in [Jobs -> BOOLEAN] /\ asked' \in [Jobs -> BOOLEAN] /\ work' \in [Jobs -> BOOLEAN] /\ owed' \in [Jobs -> BOOLEAN]
  BY DEF BeginRun, Runs, Booleans, Drained
<1>2. flying' \in [Jobs -> Nat] /\ flying'[j] = 1 /\ \A k \in Jobs : k # j => flying'[k] = flying[k]
  BY DEF BeginRun, Runs
<1>3. running'[j] = TRUE /\ \A k \in Jobs : k # j => running'[k] = running[k]
  BY DEF BeginRun, Runs
<1>4. (\A k \in Jobs : asked'[k] => asked[k]) /\ ~owed'[j] /\ \A k \in Jobs : owed'[k] => owed[k]
  BY DEF BeginRun, Booleans, Drained
<1>5. ASSUME NEW k \in Jobs PROVE running'[k] = Executing(k)' /\ flying'[k] = IF Executing(k)' THEN 1 ELSE 0
  BY <1>2, <1>3 DEF Runs
<1> QED BY <1>1, <1>2, <1>4, <1>5 DEF Runs

LEMMA Ends ==
    ASSUME Runs, Booleans, NEW j \in Jobs, NEW err \in BOOLEAN, EndRun(j, err), Executing(j),
           \A k \in Jobs : Executing(k)' = (k # j /\ Executing(k))
    PROVE  /\ Runs' /\ failed' \in [Jobs -> BOOLEAN] /\ passed' \in [Jobs -> BOOLEAN]
           /\ \A k \in Jobs : passed[k] => passed'[k]
           /\ err \/ passed'[j]
           /\ asked' = asked /\ work' = work /\ owed' = owed
<1>1. running' \in [Jobs -> BOOLEAN] /\ failed' \in [Jobs -> BOOLEAN] /\ passed' \in [Jobs -> BOOLEAN]
  BY DEF EndRun, Runs, Booleans
<1>2. flying' \in [Jobs -> Nat] /\ flying'[j] = 0 /\ \A k \in Jobs : k # j => flying'[k] = flying[k]
  BY DEF EndRun, Runs
<1>3. running'[j] = FALSE /\ \A k \in Jobs : k # j => running'[k] = running[k]
  BY DEF EndRun, Runs
<1>4. (\A k \in Jobs : passed[k] => passed'[k]) /\ (err \/ passed'[j]) /\ asked' = asked /\ work' = work /\ owed' = owed
  BY DEF EndRun, Booleans
<1>5. ASSUME NEW k \in Jobs PROVE running'[k] = Executing(k)' /\ flying'[k] = IF Executing(k)' THEN 1 ELSE 0
  BY <1>2, <1>3 DEF Runs
<1> QED BY <1>1, <1>2, <1>4, <1>5 DEF Runs

LEMMA SameRuns ==
    ASSUME Runs, running' = running, flying' = flying, \A k \in Jobs : Executing(k)' = Executing(k)
    PROVE  Runs'
BY DEF Runs

(* A step that moves the owner alone, and hands no work over. *)
LEMMA OwnerMoves ==
    ASSUME WorkerIInv, UNCHANGED <<loop, ticked, token, running, failed, flying, passed, asked, work>>,
           owed' = owed, \A k \in Jobs : Executing(k)' = Executing(k), Places', StartJobs'
    PROVE  WorkerIInv'
<1>1. Runs'
  BY SameRuns DEF WorkerIInv
<1>2. Booleans' /\ TriggerNotLost' /\ Drained'
  BY DEF WorkerIInv, Booleans, TriggerNotLost, Drained
<1> QED BY <1>1, <1>2 DEF WorkerIInv

(* Start and Shutdown. *)
LEMMA OwnerStep == WorkerIInv /\ Owner => WorkerIInv'
<1> SUFFICES ASSUME WorkerIInv, Owner PROVE WorkerIInv'
  OBVIOUS
<1> USE WorkerAssumption
<1>p. Places /\ StartJobs /\ Runs /\ Booleans /\ TriggerNotLost /\ Drained
  BY DEF WorkerIInv
<1>1. CASE Start
  <2>1. \A k \in Jobs : Executing(k)' = Executing(k)
    BY <1>1 DEF Start, Executing
  <2>2. Places'
    BY <1>1, <1>p DEF Start, Places, Owners, Before, Stopping
  <2>3. StartJobs'
    BY <1>1, <1>p DEF Start, StartJobs, Before, Jobs
  <2> QED BY <1>1, <2>1, <2>2, <2>3, OwnerMoves DEF Start
<1>2. CASE StartSkip
  <2>1. \A k \in Jobs : Executing(k)' = Executing(k)
    BY <1>2 DEF StartSkip, Executing
  <2>2. Places'
    BY <1>2, <1>p DEF StartSkip, Places, Owners, Before, Stopping, Jobs
  <2>3. StartJobs'
    BY <1>2, <1>p DEF StartSkip, StartJobs, Before, Jobs
  <2> QED BY <1>2, <2>1, <2>2, <2>3, OwnerMoves DEF StartSkip
<1>3. CASE StartBegin
  <2>1. next \in Jobs /\ ~Executing(next)
    BY <1>3, <1>p DEF StartBegin, Places, Before, Executing
  <2>2. \A k \in Jobs : Executing(k)' = (k = next \/ Executing(k))
    BY <1>3 DEF StartBegin, Executing
  <2>3. BeginRun(next)
    BY <1>3 DEF StartBegin
  <2>4. /\ Runs' /\ asked' \in [Jobs -> BOOLEAN] /\ work' \in [Jobs -> BOOLEAN] /\ owed' \in [Jobs -> BOOLEAN]
        /\ \A k \in Jobs : (asked'[k] => asked[k]) /\ (owed'[k] => owed[k])
        /\ ~owed'[next]
    BY <1>p, <2>1, <2>2, <2>3, Begins
  <2>5. Places'
    BY <1>3, <1>p DEF StartBegin, Places, Owners, Before, Stopping
  <2>6. StartJobs'
    BY <1>3, <1>p DEF StartBegin, StartJobs, Before
  <2>7. Booleans' /\ TriggerNotLost' /\ Drained'
    BY <1>3, <1>p, <2>4 DEF StartBegin, Booleans, TriggerNotLost, Drained
  <2> QED BY <2>4, <2>5, <2>6, <2>7 DEF WorkerIInv
<1>4. ASSUME NEW err \in BOOLEAN, StartEnd(err) PROVE WorkerIInv'
  <2>1. next \in Jobs /\ next \in RunAtStart /\ Executing(next)
    BY <1>4, <1>p DEF StartEnd, Places, Executing
  <2>2. \A k \in Jobs : Executing(k)' = (k # next /\ Executing(k))
    BY <1>4, <1>p DEF StartEnd, Executing, Places, Before
  <2>3. EndRun(next, err)
    BY <1>4 DEF StartEnd
  <2>4. /\ Runs' /\ failed' \in [Jobs -> BOOLEAN] /\ passed' \in [Jobs -> BOOLEAN]
        /\ \A k \in Jobs : passed[k] => passed'[k]
        /\ err \/ passed'[next]
        /\ asked' = asked /\ work' = work /\ owed' = owed
    BY <1>p, <2>1, <2>2, <2>3, Ends
  <2>5. Places'
    BY <1>4, <1>p, <2>1 DEF StartEnd, Places, Owners, Before, Stopping, Jobs
  <2>6. StartJobs'
    <3>1. ASSUME NEW j \in RunAtStart, ~err, j < next + 1 PROVE passed'[j]
      <4>1. j \in Jobs /\ (j < next \/ j = next)
        BY <2>1, <3>1 DEF Jobs
      <4>2. CASE j < next
        BY <1>4, <1>p, <2>4, <4>1, <4>2 DEF StartEnd, StartJobs
      <4> QED BY <2>4, <3>1, <4>1, <4>2
    <3> QED BY <1>4, <3>1 DEF StartEnd, StartJobs, Before
  <2>7. Booleans' /\ TriggerNotLost' /\ Drained'
    BY <1>4, <1>p, <2>4 DEF StartEnd, Booleans, TriggerNotLost, Drained
  <2> QED BY <2>4, <2>5, <2>6, <2>7 DEF WorkerIInv
<1>5. CASE Launch
  <2>1. \A k \in Jobs : loop'[k] = "select" /\ loop[k] = "none"
    BY <1>5, <1>p DEF Launch, Places, Before
  <2>2. \A k \in Jobs : Executing(k)' = Executing(k)
    BY <1>5, <2>1 DEF Launch, Executing
  <2>3. Runs'
    BY <1>5, <1>p, <2>2, SameRuns DEF Launch
  <2>4. Places'
    BY <1>5, <1>p DEF Launch, Places, Owners, Before, Stopping
  <2>5. StartJobs'
    <3>1. \A j \in RunAtStart : j < next
      BY <1>5 DEF Launch, Jobs
    <3> QED BY <1>5, <1>p, <3>1 DEF Launch, StartJobs, Before
  <2>6. Booleans' /\ TriggerNotLost' /\ Drained'
    BY <1>5, <1>p, <2>1 DEF Launch, Booleans, TriggerNotLost, Drained
  <2> QED BY <2>3, <2>4, <2>5, <2>6 DEF WorkerIInv
<1>6. CASE ShutdownBegin
  <2>1. \A k \in Jobs : Executing(k)' = Executing(k)
    BY <1>6 DEF ShutdownBegin, Executing
  <2>2. Runs'
    BY <1>6, <1>p, <2>1, SameRuns DEF ShutdownBegin
  <2>3. Places'
    BY <1>6, <1>p DEF ShutdownBegin, Places, Owners, Before, Stopping
  <2>4. StartJobs'
    BY <1>6, <1>p DEF ShutdownBegin, StartJobs, Before
  <2>5. \A j \in Jobs : loop[j] \notin {"drain", "exited"}
    BY <1>6, <1>p DEF ShutdownBegin, Places, Stopping
  <2>6. Booleans' /\ TriggerNotLost' /\ Drained'
    BY <1>6, <1>p, <2>5 DEF ShutdownBegin, Booleans, TriggerNotLost, Drained
  <2> QED BY <2>2, <2>3, <2>4, <2>6 DEF WorkerIInv
<1>7. CASE ShutdownDone \/ ShutdownTimeout
  <2>1. \A k \in Jobs : Executing(k)' = Executing(k)
    BY <1>7 DEF ShutdownDone, ShutdownTimeout, Executing
  <2>2. Places'
    BY <1>7, <1>p DEF ShutdownDone, ShutdownTimeout, Places, Owners, Before, Stopping
  <2>3. StartJobs'
    BY <1>7, <1>p DEF ShutdownDone, ShutdownTimeout, StartJobs, Before
  <2> QED BY <1>7, <2>1, <2>2, <2>3, OwnerMoves DEF ShutdownDone, ShutdownTimeout
<1> QED BY <1>1, <1>2, <1>3, <1>4, <1>5, <1>6, <1>7 DEF Owner

(* The loop of one job, and what others do to it. *)
LEMMA JobStep ==
    ASSUME WorkerIInv, NEW j \in Jobs, Tick(j) \/ Loop(j) \/ Trigger(j) \/ HandWork(j)
    PROVE  WorkerIInv'
<1> USE WorkerAssumption
<1>p. Places /\ StartJobs /\ Runs /\ Booleans /\ TriggerNotLost /\ Drained
  BY DEF WorkerIInv
<1>1. CASE Tick(j) \/ Trigger(j) \/ HandWork(j)
  <2>1. UNCHANGED <<owner, next, loop, running, failed, flying, passed, owed>>
    BY <1>1 DEF Tick, Trigger, HandWork
  <2>2. Runs' /\ Places' /\ StartJobs' /\ Drained'
    BY <1>p, <2>1, SameRuns DEF Executing, Places, StartJobs, Drained, Stopping
  <2>3. Booleans'
    BY <1>1, <1>p DEF Tick, Trigger, HandWork, Booleans
  <2>4. TriggerNotLost'
    BY <1>1, <1>p DEF Tick, Trigger, HandWork, Booleans, TriggerNotLost
  <2> QED BY <2>2, <2>3, <2>4 DEF WorkerIInv
<1>2. ASSUME BeginRun(j), loop[j] = "select", owner' = owner, next' = next, failed' = failed, passed' = passed,
             NEW to \in {"run", "run-reset", "drain"}, loop' = [loop EXCEPT ![j] = to], to = "drain" => Stopping,
             ticked' \in [Jobs -> BOOLEAN], token' \in [Jobs -> BOOLEAN],
             \A k \in Jobs : k # j => token'[k] = token[k]
      PROVE  WorkerIInv'
  <2>1. ~Executing(j) /\ owner \notin Before
    BY <1>2, <1>p DEF Executing, Places, Before
  <2>2. /\ loop' \in [Jobs -> {"none", "select", "run", "run-reset", "drain", "exited"}]
        /\ loop'[j] = to /\ \A k \in Jobs : k # j => loop'[k] = loop[k]
    BY <1>2, <1>p DEF Places
  <2>3. \A k \in Jobs : Executing(k)' = (k = j \/ Executing(k))
    BY <1>2, <2>2 DEF Executing
  <2>4. /\ Runs' /\ asked' \in [Jobs -> BOOLEAN] /\ work' \in [Jobs -> BOOLEAN] /\ owed' \in [Jobs -> BOOLEAN]
        /\ \A k \in Jobs : (asked'[k] => asked[k]) /\ (owed'[k] => owed[k])
        /\ ~owed'[j]
    BY <1>2, <1>p, <2>1, <2>3, Begins
  <2>5. ~asked'[j]
    BY <1>2, <1>p DEF BeginRun, Booleans
  <2>6. Places'
    BY <1>2, <1>p, <2>1, <2>2 DEF Places, Before, Stopping
  <2>7. StartJobs'
    BY <1>2, <1>p DEF StartJobs
  <2>8. Booleans'
    BY <1>2, <1>p, <2>4 DEF Booleans
  <2>9. TriggerNotLost'
    BY <1>2, <1>p, <2>4, <2>5 DEF TriggerNotLost
  <2>10. Drained'
    BY <1>p, <2>2, <2>4 DEF Drained
  <2> QED BY <2>4, <2>6, <2>7, <2>8, <2>9, <2>10 DEF WorkerIInv
<1>3. ASSUME NEW err \in BOOLEAN, EndRun(j, err), owner' = owner, next' = next, token' = token,
             NEW to \in {"select", "exited"}, loop' = [loop EXCEPT ![j] = to],
             loop[j] \in {"run", "run-reset", "drain"}, to = "exited" <=> loop[j] = "drain",
             ticked' \in [Jobs -> BOOLEAN]
      PROVE  WorkerIInv'
  <2>1. Executing(j) /\ owner \notin Before
    BY <1>3, <1>p DEF Executing, Places, Before
  <2>2. /\ loop' \in [Jobs -> {"none", "select", "run", "run-reset", "drain", "exited"}]
        /\ loop'[j] = to /\ \A k \in Jobs : k # j => loop'[k] = loop[k]
    BY <1>3, <1>p DEF Places
  <2>3. \A k \in Jobs : Executing(k)' = (k # j /\ Executing(k))
    BY <1>3, <2>1, <2>2 DEF Executing, Before
  <2>4. /\ Runs' /\ failed' \in [Jobs -> BOOLEAN] /\ passed' \in [Jobs -> BOOLEAN]
        /\ \A k \in Jobs : passed[k] => passed'[k]
        /\ asked' = asked /\ work' = work /\ owed' = owed
    BY <1>3, <1>p, <2>1, <2>3, Ends
  <2>5. Places'
    BY <1>3, <1>p, <2>1, <2>2 DEF Places, Before, Stopping
  <2>6. StartJobs'
    BY <1>3, <1>p, <2>4 DEF StartJobs
  <2>7. Booleans' /\ TriggerNotLost'
    BY <1>3, <1>p, <2>4 DEF Booleans, TriggerNotLost
  <2>8. Drained'
    BY <1>3, <1>p, <2>2, <2>4 DEF Drained
  <2> QED BY <2>4, <2>5, <2>6, <2>7, <2>8 DEF WorkerIInv
<1>4. CASE OnTick(j)
  <2>1. ticked' \in [Jobs -> BOOLEAN] /\ token' \in [Jobs -> BOOLEAN]
    BY <1>4, <1>p DEF OnTick, Booleans
  <2> QED BY <1>2, <1>4, <2>1 DEF OnTick
<1>5. CASE OnTrigger(j)
  <2>1. ticked' \in [Jobs -> BOOLEAN] /\ token' \in [Jobs -> BOOLEAN]
        /\ \A k \in Jobs : k # j => token'[k] = token[k]
    BY <1>5, <1>p DEF OnTrigger, Booleans
  <2> QED BY <1>2, <1>5, <2>1 DEF OnTrigger
<1>6. CASE OnStop(j) /\ j \in RunAtStop
  <2>1. ticked' \in [Jobs -> BOOLEAN] /\ token' \in [Jobs -> BOOLEAN]
    BY <1>6, <1>p DEF OnStop, Booleans
  <2> QED BY <1>2, <1>6, <2>1 DEF OnStop
<1>7. CASE OnStop(j) /\ j \notin RunAtStop
  <2>1. /\ loop' = [loop EXCEPT ![j] = "exited"] /\ loop[j] = "select" /\ Stopping
        /\ UNCHANGED <<owner, next, ticked, token, running, failed, flying, passed, asked, work, owed>>
    BY <1>7 DEF OnStop
  <2>2. /\ loop' \in [Jobs -> {"none", "select", "run", "run-reset", "drain", "exited"}]
        /\ loop'[j] = "exited" /\ \A k \in Jobs : k # j => loop'[k] = loop[k]
    BY <2>1, <1>p DEF Places
  <2>3. \A k \in Jobs : Executing(k)' = Executing(k)
    BY <2>1, <2>2 DEF Executing
  <2>4. Runs'
    BY <1>p, <2>1, <2>3, SameRuns
  <2>5. Places'
    BY <1>p, <2>1, <2>2 DEF Places, Before, Stopping
  <2>6. StartJobs' /\ Booleans' /\ TriggerNotLost'
    BY <1>p, <2>1 DEF StartJobs, Booleans, TriggerNotLost
  <2>7. Drained'
    BY <1>7, <1>p, <2>1, <2>2 DEF Drained
  <2> QED BY <2>4, <2>5, <2>6, <2>7 DEF WorkerIInv
<1>8. ASSUME NEW err \in BOOLEAN, RunEnds(j, err) PROVE WorkerIInv'
  <2>1. ticked' \in [Jobs -> BOOLEAN]
    BY <1>8, <1>p DEF RunEnds, Booleans
  <2> QED BY <1>3, <1>8, <2>1 DEF RunEnds
<1>9. ASSUME NEW err \in BOOLEAN, DrainEnds(j, err) PROVE WorkerIInv'
  <2>1. ticked' \in [Jobs -> BOOLEAN]
    BY <1>9, <1>p DEF DrainEnds, Booleans
  <2> QED BY <1>3, <1>9, <2>1 DEF DrainEnds
<1> QED BY <1>1, <1>4, <1>5, <1>6, <1>7, <1>8, <1>9 DEF Loop, RunReturns

LEMMA Inductive == Spec => []WorkerIInv
<1>1. WorkerIInv /\ [Next]_vars => WorkerIInv'
  <2> SUFFICES ASSUME WorkerIInv, [Next]_vars PROVE WorkerIInv'
    OBVIOUS
  <2>1. CASE UNCHANGED vars
    BY <2>1 DEF vars, WorkerIInv, Booleans, Places, Runs, StartJobs, TriggerNotLost, Drained, Executing, Stopping
  <2> QED BY <2>1, OwnerStep, JobStep DEF Next
<1> QED BY <1>1, InitInv, PTL DEF Spec

-----------------------------------------------------------------------------
(* A job runs at most once at a time and JobStats.Running says when, no    *)
(* loop starts before every job of Start has succeeded, and no trigger is  *)
(* lost, however many jobs a group has.                                    *)
THEOREM WorkerInvariance == Spec => []WorkerInv
<1>1. WorkerIInv => WorkerInv
  <2> SUFFICES ASSUME WorkerIInv PROVE WorkerInv
    OBVIOUS
  <2>p. Places /\ StartJobs /\ Runs /\ Booleans /\ TriggerNotLost /\ Drained
    BY DEF WorkerIInv
  <2>1. TypeOK
    BY <2>p DEF TypeOK, Places, Runs, Booleans, Drained
  <2>2. SingleFlight
    BY <2>p DEF SingleFlight, Runs
  <2>3. LoopsOnlyAfterStartJobs
    BY <2>p DEF LoopsOnlyAfterStartJobs, Places, StartJobs, Runs, Executing, Before
  <2> QED BY <2>p, <2>1, <2>2, <2>3 DEF WorkerInv
<1> QED BY <1>1, Inductive, PTL

(* A Shutdown that returned nil leaves no loop and no run behind, and each *)
(* job that runs at stop has seen what it was handed before Shutdown.      *)
THEOREM DrainsOnShutdown == Spec => []ShutdownDrains
<1>1. WorkerIInv => ShutdownDrains
  <2> SUFFICES ASSUME WorkerIInv, owner = "stopped", NEW j \in Jobs
               PROVE  loop[j] = "exited" /\ ~running[j] /\ (j \in RunAtStop => ~owed[j])
    BY DEF ShutdownDrains
  <2>1. loop[j] = "exited"
    BY DEF WorkerIInv, Places
  <2>2. ~Executing(j)
    BY <2>1 DEF Executing
  <2> QED BY <2>1, <2>2 DEF WorkerIInv, Runs, Drained
<1> QED BY <1>1, Inductive, PTL
=============================================================================
