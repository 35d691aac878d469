---------------------------- MODULE WorkerGroup ----------------------------
(***************************************************************************)
(* A worker.Group: the background jobs of governance, of the model catalog *)
(* and of the metrics engine.  Start runs the jobs marked RunAtStart one   *)
(* after the other, in the order of their names, and then gives each job a *)
(* loop of its own; Trigger asks a job to run now; Shutdown closes the     *)
(* stop channel and waits for the loops, for as long as its context lets   *)
(* it.                                                                     *)
(*                                                                         *)
(* The owner of a group (the gateway, under its lock) calls Start once and *)
(* Shutdown after it, never both at a time.  What a job does is abstracted *)
(* to the work that is handed to it (records buffered, spend counted): a   *)
(* run sees the work that was there when it began.                         *)
(***************************************************************************)
EXTENDS Integers

CONSTANTS
    NumJobs,     \* jobs are numbered in the order of their names
    RunAtStart,  \* the jobs with Job.RunAtStart
    RunAtStop    \* the jobs with Job.RunAtStop

Jobs == 1..NumJobs

ASSUME WorkerAssumption ==
    /\ NumJobs \in Nat
    /\ RunAtStart \subseteq Jobs /\ RunAtStop \subseteq Jobs

VARIABLES
    owner,    \* where the owner is in the life of the group
    next,     \* Start's position among its jobs
    loop,     \* where each job's loop is
    ticked,   \* the ticker's channel holds a tick
    token,    \* Job.trigger holds a token
    running,  \* JobStats.Running
    failed,   \* JobStats.LastError is set
    flying,   \* history: how many runs of the job are in progress
    passed,   \* history: the job has completed a run without error
    asked,    \* history: a Trigger after which no run of the job has begun
    work,     \* history: work handed to the job that no run has seen
    owed      \* history: the part of it that was there when Shutdown began

vars == <<owner, next, loop, ticked, token, running, failed,
          flying, passed, asked, work, owed>>

(* The stop channel is closed. *)
Stopping == owner \in {"stopping", "stopped", "timed-out"}

-----------------------------------------------------------------------------
(* Job.exec: markRunning before Run, markDone after it, also when Run      *)
(* panicked.                                                               *)

BeginRun(j) ==
    /\ running' = [running EXCEPT ![j] = TRUE]
    /\ flying' = [flying EXCEPT ![j] = @ + 1]
    /\ asked' = [asked EXCEPT ![j] = FALSE]
    /\ work' = [work EXCEPT ![j] = FALSE]
    /\ owed' = [owed EXCEPT ![j] = FALSE]

(* Mutant: markDone is skipped when Run panics or fails. *)
EndRunUnmarked(j, err) ==
    /\ running' = [running EXCEPT ![j] = err]
    /\ failed' = [failed EXCEPT ![j] = err]
    /\ flying' = [flying EXCEPT ![j] = @ - 1]
    /\ passed' = [passed EXCEPT ![j] = @ \/ ~err]
    /\ UNCHANGED <<asked, work, owed>>

EndRun(j, err) ==
    /\ running' = [running EXCEPT ![j] = FALSE]
    /\ failed' = [failed EXCEPT ![j] = err]
    /\ flying' = [flying EXCEPT ![j] = @ - 1]
    /\ passed' = [passed EXCEPT ![j] = @ \/ ~err]
    /\ UNCHANGED <<asked, work, owed>>

-----------------------------------------------------------------------------
(* Group.Start. *)

Start ==
    /\ owner = "new"
    /\ owner' = "starting" /\ next' = 1
    /\ UNCHANGED <<loop, ticked, token, running, failed, flying, passed, asked, work, owed>>

StartSkip ==
    /\ owner = "starting" /\ next \in Jobs \ RunAtStart
    /\ next' = next + 1
    /\ UNCHANGED <<owner, loop, ticked, token, running, failed, flying, passed, asked, work, owed>>

StartBegin ==
    /\ owner = "starting" /\ next \in RunAtStart
    /\ BeginRun(next)
    /\ owner' = "running-at-start"
    /\ UNCHANGED <<next, loop, ticked, token, failed, passed>>

(* An error ends Start: the group is not started, and there are no loops.  *)
StartEnd(err) ==
    /\ owner = "running-at-start"
    /\ EndRun(next, err)
    /\ IF err THEN owner' = "failed" /\ UNCHANGED next
              ELSE owner' = "starting" /\ next' = next + 1
    /\ UNCHANGED <<loop, ticked, token>>

(* The second loop of Start launches the goroutines, and Start returns.    *)
Launch ==
    /\ owner = "starting" /\ next = NumJobs + 1
    /\ loop' = [j \in Jobs |-> "select"]
    /\ owner' = "started"
    /\ UNCHANGED <<next, ticked, token, running, failed, flying, passed, asked, work, owed>>

-----------------------------------------------------------------------------
(* Job.loop: its select takes any case that is ready. *)

(* The ticker sends, and drops the tick when one is still there. *)
Tick(j) ==
    /\ loop[j] \in {"select", "run", "run-reset", "drain"} /\ ~ticked[j]
    /\ ticked' = [ticked EXCEPT ![j] = TRUE]
    /\ UNCHANGED <<owner, next, loop, token, running, failed, flying, passed, asked, work, owed>>

OnTick(j) ==
    /\ loop[j] = "select" /\ ticked[j]
    /\ ticked' = [ticked EXCEPT ![j] = FALSE]
    /\ BeginRun(j)
    /\ loop' = [loop EXCEPT ![j] = "run"]
    /\ UNCHANGED <<owner, next, token, failed, passed>>

(* The run after a trigger is followed by ticker.Reset: see RunEnds.       *)
OnTrigger(j) ==
    /\ loop[j] = "select" /\ token[j]
    /\ token' = [token EXCEPT ![j] = FALSE]
    /\ BeginRun(j)
    /\ loop' = [loop EXCEPT ![j] = "run-reset"]
    /\ UNCHANGED <<owner, next, ticked, failed, passed>>

(* Mutant: a loop that returns when a run fails. *)
RunEndsLoop(j, err) ==
    /\ loop[j] \in {"run", "run-reset"}
    /\ EndRun(j, err)
    /\ loop' = [loop EXCEPT ![j] = IF err THEN "exited" ELSE "select"]
    /\ UNCHANGED <<owner, next, ticked, token>>

(* Reset also drains the channel of a tick that is already there (Go 1.23).*)
RunEnds(j, err) ==
    /\ loop[j] \in {"run", "run-reset"}
    /\ EndRun(j, err)
    /\ ticked' = [ticked EXCEPT ![j] = @ /\ loop[j] = "run"]
    /\ loop' = [loop EXCEPT ![j] = "select"]
    /\ UNCHANGED <<owner, next, token>>

OnStop(j) ==
    /\ loop[j] = "select" /\ Stopping
    /\ IF j \in RunAtStop
       THEN BeginRun(j) /\ loop' = [loop EXCEPT ![j] = "drain"]
       ELSE loop' = [loop EXCEPT ![j] = "exited"] /\ UNCHANGED <<running, flying, asked, work, owed>>
    /\ UNCHANGED <<owner, next, ticked, token, failed, passed>>

(* Mutant: the loop does not return after its last run. *)
DrainEndsContinue(j, err) ==
    /\ loop[j] = "drain"
    /\ EndRun(j, err)
    /\ loop' = [loop EXCEPT ![j] = "select"]
    /\ UNCHANGED <<owner, next, ticked, token>>

DrainEnds(j, err) ==
    /\ loop[j] = "drain"
    /\ EndRun(j, err)
    /\ loop' = [loop EXCEPT ![j] = "exited"]
    /\ UNCHANGED <<owner, next, ticked, token>>

-----------------------------------------------------------------------------
(* Mutant: the trigger channel has no buffer. *)
TriggerUnbuffered(j) ==
    /\ token' = [token EXCEPT ![j] = @ \/ loop[j] = "select"]
    /\ asked' = [asked EXCEPT ![j] = TRUE]
    /\ UNCHANGED <<owner, next, loop, ticked, running, failed, flying, passed, work, owed>>

(* Group.Trigger: a send that is dropped when the channel holds a token.   *)
Trigger(j) ==
    /\ token' = [token EXCEPT ![j] = TRUE]
    /\ asked' = [asked EXCEPT ![j] = TRUE]
    /\ UNCHANGED <<owner, next, loop, ticked, running, failed, flying, passed, work, owed>>

(* A request leaves something for the job's next run (external to worker). *)
HandWork(j) ==
    /\ owner # "new"
    /\ work' = [work EXCEPT ![j] = TRUE]
    /\ UNCHANGED <<owner, next, loop, ticked, token, running, failed, flying, passed, asked, owed>>

-----------------------------------------------------------------------------
(* Group.Shutdown. *)

ShutdownBegin ==
    /\ owner = "started"
    /\ owner' = "stopping"
    /\ owed' = work
    /\ UNCHANGED <<next, loop, ticked, token, running, failed, flying, passed, asked, work>>

(* Mutant: Shutdown does not wait. *)
ShutdownNoWait ==
    /\ owner = "stopping"
    /\ owner' = "stopped"
    /\ UNCHANGED <<next, loop, ticked, token, running, failed, flying, passed, asked, work, owed>>

(* wg.Wait() returned: Shutdown returns nil. *)
ShutdownDone ==
    /\ owner = "stopping" /\ \A j \in Jobs : loop[j] = "exited"
    /\ owner' = "stopped"
    /\ UNCHANGED <<next, loop, ticked, token, running, failed, flying, passed, asked, work, owed>>

(* Its context ended first: Shutdown returns an error, the loops go on.    *)
ShutdownTimeout ==
    /\ owner = "stopping"
    /\ owner' = "timed-out"
    /\ UNCHANGED <<next, loop, ticked, token, running, failed, flying, passed, asked, work, owed>>

-----------------------------------------------------------------------------
AllJobs(v) == [j \in Jobs |-> v]

Init ==
    /\ owner = "new" /\ next = 1
    /\ loop = AllJobs("none")
    /\ ticked = AllJobs(FALSE) /\ token = AllJobs(FALSE)
    /\ running = AllJobs(FALSE) /\ failed = AllJobs(FALSE)
    /\ flying = AllJobs(0) /\ passed = AllJobs(FALSE)
    /\ asked = AllJobs(FALSE) /\ work = AllJobs(FALSE) /\ owed = AllJobs(FALSE)

Owner ==
    \/ Start \/ StartSkip \/ StartBegin \/ (\E err \in BOOLEAN : StartEnd(err)) \/ Launch
    \/ ShutdownBegin \/ ShutdownDone \/ ShutdownTimeout

RunReturns(j) == \E err \in BOOLEAN : RunEnds(j, err) \/ DrainEnds(j, err)

Loop(j) == OnTick(j) \/ OnTrigger(j) \/ OnStop(j) \/ RunReturns(j)

Next ==
    \/ Owner
    \/ \E j \in Jobs : Tick(j) \/ Loop(j) \/ Trigger(j) \/ HandWork(j)

Spec == Init /\ [][Next]_vars

(* Every run returns (its store calls end or fail), the tickers tick, a    *)
(* ready case of a select is taken sooner or later (Go picks one of them   *)
(* at random), and Start goes through its jobs.                            *)
Fairness ==
    /\ WF_vars(StartSkip \/ StartBegin \/ (\E err \in BOOLEAN : StartEnd(err)) \/ Launch)
    /\ WF_vars(ShutdownDone \/ ShutdownTimeout)
    /\ \A j \in Jobs : /\ WF_vars(Tick(j)) /\ WF_vars(Loop(j)) /\ SF_vars(OnStop(j))

FairSpec == Spec /\ Fairness

-----------------------------------------------------------------------------
(* Properties. *)

Owners == {"new", "starting", "running-at-start", "failed", "started",
           "stopping", "stopped", "timed-out"}

(* Every variable has the type its Go counterpart gives it. *)
TypeOK ==
    /\ owner \in Owners /\ next \in 1..(NumJobs + 1)
    /\ loop \in [Jobs -> {"none", "select", "run", "run-reset", "drain", "exited"}]
    /\ ticked \in [Jobs -> BOOLEAN] /\ token \in [Jobs -> BOOLEAN]
    /\ running \in [Jobs -> BOOLEAN] /\ failed \in [Jobs -> BOOLEAN]
    /\ flying \in [Jobs -> Nat] /\ passed \in [Jobs -> BOOLEAN]
    /\ asked \in [Jobs -> BOOLEAN] /\ work \in [Jobs -> BOOLEAN] /\ owed \in [Jobs -> BOOLEAN]

(* A job never runs twice at a time, not at start, on its ticker, on a     *)
(* trigger or at stop, and JobStats.Running says when it runs.  The flush  *)
(* jobs keep state without a lock because of this (MetricsEngine.retry,    *)
(* Budget.LastFlushed).                                                    *)
SingleFlight == \A j \in Jobs : flying[j] = (IF running[j] THEN 1 ELSE 0)

(* No loop starts before every RunAtStart job has succeeded, and a Start   *)
(* that failed leaves no loop behind: the gateway does not serve before    *)
(* its caches are loaded.                                                  *)
LoopsOnlyAfterStartJobs ==
    /\ (\E j \in Jobs : loop[j] # "none") => \A j \in RunAtStart : passed[j]
    /\ owner = "failed" => \A j \in Jobs : loop[j] = "none" /\ ~running[j]

(* A trigger is not lost: while no run has begun since, the channel holds  *)
(* it, also when it came during a run or before Start.                     *)
TriggerNotLost == \A j \in Jobs : asked[j] => token[j]

(* The group's state is sound: types, one run of a job at a time, no loop  *)
(* before the jobs of Start, no trigger lost.                              *)
WorkerInv == TypeOK /\ SingleFlight /\ LoopsOnlyAfterStartJobs /\ TriggerNotLost

(* A Shutdown that returned nil has drained: no loop is left, nothing      *)
(* runs, and a job with RunAtStop has seen all the work that was handed to *)
(* it before Shutdown.                                                     *)
ShutdownDrains ==
    owner = "stopped" =>
        \A j \in Jobs : loop[j] = "exited" /\ ~running[j] /\ (j \in RunAtStop => ~owed[j])

(* A job that was triggered runs, unless the group failed to start or was  *)
(* told to stop.                                                           *)
TriggersHonoured ==
    \A j \in Jobs : (asked[j] /\ owner = "started") ~> (~asked[j] \/ Stopping)

(* Once the stop channel is closed every loop ends, although tickers and   *)
(* triggers stay ready.                                                    *)
LoopsExit == Stopping ~> \A j \in Jobs : loop[j] = "exited"
=============================================================================
