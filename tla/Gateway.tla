------------------------------ MODULE Gateway ------------------------------
(***************************************************************************)
(* The life of the process: main initializes the gateway, starts its       *)
(* components, waits for a signal or for the server to fail, and stops     *)
(* them in five stages.                                                    *)
(*                                                                         *)
(* It is composed with what it has to keep.  A request leaves a usage      *)
(* record, a charge on its budget and a metrics event behind, in memory,   *)
(* if there is room for it; a job of a worker group makes each of them     *)
(* durable, or gives it up.  The three are taken at what they promise,     *)
(* module Delivery, which UsageHistory and MetricsEngine implement: when a *)
(* buffer is full and which attempt was the last are left open here.  Of a *)
(* worker group (module WorkerGroup) the loops and their last runs are     *)
(* kept.  The http server and its connections are those of net/http, as    *)
(* server.go uses it.                                                      *)
(***************************************************************************)
EXTENDS Integers

CONSTANTS
    Requests,
    Admin,            \* those of the admin API that delete a budget
    StreamGrace,      \* how long Stop waits before it cancels the requests
    ShutdownTimeout,  \* how long it waits for them in all
    MaxFaults         \* bound on failing runs, and on what finds no room or no budget

(* gateway_test.go holds the two durations to their order. *)
ASSUME GatewayAssumption ==
    /\ StreamGrace \in Nat /\ ShutdownTimeout \in Nat /\ MaxFaults \in Nat
    /\ StreamGrace < ShutdownTimeout
    /\ Admin \subseteq Requests

VARIABLES
    main,       \* where the main goroutine is
    isRunning,  \* gatewayImpl.isRunning
    source,     \* gatewayImpl.source with its database: "none", "open", "closed"
    metrics,    \* gatewayImpl.metrics with its event store: the same
    job,        \* where the loop of each job is
    stop,       \* the groups whose stop channel is closed
    http,       \* the http server
    elapsed,    \* the time since server.Shutdown began
    cancelled,  \* DiffractLLMServer.baseCtx is done
    phase,      \* where the handler of each request is
    records,    \* Delivery of the usage records,
    charges,    \*   of the charges,
    events,     \*   of the metrics events
    stopErr,    \* the stages that Stop reports errors of
    faults,
    failed,     \* history: <<j, "tick">>, <<j, "last">>: a run, the last run of j failed
    abandoned   \* history: requests that ran on after server.Shutdown returned

lifecycle == <<main, isRunning, source, metrics>>
server == <<http, elapsed, cancelled, abandoned>>
kept == <<records, charges, events>>
vars == <<lifecycle, job, stop, server, phase, kept, stopErr, faults, failed>>

GroupOf ==
    [budget_sync |-> "governance", virtual_keys_sync |-> "governance",
     usage_flush |-> "governance", budget_flush_roll |-> "governance",
     events_flush |-> "metrics", catalog_sync |-> "catalog"]
RunAtStop == {"usage_flush", "budget_flush_roll", "events_flush"}
Jobs == DOMAIN GroupOf
Groups == {GroupOf[j] : j \in Jobs}
JobsOf(group) == {j \in Jobs : GroupOf[j] = group}

Usage == INSTANCE Delivery WITH Items <- Requests, status <- records
Spend == INSTANCE Delivery WITH Items <- Requests, status <- charges
Event == INSTANCE Delivery WITH Items <- Requests, status <- events

Held(status) == {r \in Requests : status[r] = "held"}
Busy == {r \in Requests : phase[r] \in {"open", "settling"}}
Alive == main \notin {"exited", "killed"}

-----------------------------------------------------------------------------
(* Requests. *)

Handler(r, next) ==
    /\ Alive
    /\ phase' = [phase EXCEPT ![r] = next]
    /\ UNCHANGED <<lifecycle, job, stop, server, stopErr, failed>>

(* A request on a connection the server has: also on one that was accepted *)
(* before the listener closed and had not sent anything yet, which         *)
(* Shutdown leaves open for five seconds, less than StreamGrace.           *)
Arrive(r) ==
    /\ phase[r] = "none"
    /\ http \in {"listening", "failed"} \/ (http = "closing" /\ elapsed < StreamGrace)
    /\ Handler(r, "open")
    /\ UNCHANGED <<kept, faults>>

(* Something found no room or no budget, or a run failed. *)
Mishap == faults < MaxFaults /\ faults' = faults + 1

(* The answer is over, complete or cut short: RecordHook appends the       *)
(* record and charges the budget.  It ignores that the buffer was full,    *)
(* and charges nobody when the budget has no entry in the cache.           *)
Settle(r) ==
    /\ r \notin Admin /\ phase[r] = "open"
    /\ \E record, charge \in {"held", "refused"} :
          /\ Usage!Move({r}, "new", record)
          /\ Spend!Move({r}, "new", charge)
          /\ IF "refused" \in {record, charge} THEN Mishap ELSE UNCHANGED faults
    /\ Handler(r, "settling")
    /\ UNCHANGED events

(* EventHook, which is registered when metrics are enabled, and the end of *)
(* the request; at once when there is no usage to record, as the request   *)
(* was refused or failed.  AddEvent lets go of an event for which there is *)
(* no room.  The server keeps its pointer to the metrics engine after Stop *)
(* has closed that.                                                        *)
EndRequest(r) ==
    /\ r \notin Admin /\ phase[r] \in {"open", "settling"}
    /\ \/ metrics = "none" /\ UNCHANGED <<events, faults>>
       \/ metrics # "none" /\ Event!Move({r}, "new", "held") /\ UNCHANGED faults
       \/ metrics # "none" /\ Event!Move({r}, "new", "refused") /\ Mishap
    /\ Handler(r, "ended")
    /\ UNCHANGED <<records, charges>>

(* A request of the admin API deletes a budget: the entry leaves the cache *)
(* with the charges that were not flushed, if there are any.               *)
DeleteBudget(r) ==
    /\ r \in Admin /\ phase[r] = "open"
    /\ UNCHANGED charges \/ \E S \in SUBSET Held(charges) : Spend!Move(S, "held", "lost")
    /\ Handler(r, "ended")
    /\ UNCHANGED <<records, events, faults>>

Request == \E r \in Requests : Arrive(r) \/ Settle(r) \/ EndRequest(r) \/ DeleteBudget(r)

-----------------------------------------------------------------------------
(* The jobs. *)

Stopped(j) == GroupOf[j] \in stop

(* There is nothing to write; the other jobs write nothing of a request.   *)
Empty(j) ==
    CASE j = "usage_flush" -> Held(records) = {}
      [] j = "budget_flush_roll" -> Held(charges) = {}
      [] j = "events_flush" -> Held(events) = {}
      [] OTHER -> TRUE

(* A run of the job writes what there is, which takes an open store.  The  *)
(* run of budget_sync drops the entries of budgets that have no row, with  *)
(* what they were charged since the last flush.                            *)
Write(j) ==
    \/ /\ j = "usage_flush" /\ source = "open"
       /\ Usage!Move(Held(records), "held", "stored")
       /\ UNCHANGED <<charges, events>>
    \/ /\ j = "budget_flush_roll" /\ source = "open"
       /\ Spend!Move(Held(charges), "held", "stored")
       /\ UNCHANGED <<records, events>>
    \/ /\ j = "events_flush" /\ metrics = "open"
       /\ Event!Move(Held(events), "held", "stored")
       /\ UNCHANGED <<records, charges>>
    \/ /\ j = "budget_sync" /\ source = "open"
       /\ \E S \in SUBSET Held(charges) : Spend!Move(S, "held", "lost")
       /\ UNCHANGED <<records, events>>

(* A failed run, also one into a closed store, keeps its batch; that is    *)
(* seen here when there is no next run...                                  *)
FailKeeps(j) == Stopped(j) /\ UNCHANGED kept

(* ... or part of it: usage records that no longer fit when they are put   *)
(* back are dropped, a batch of events is given up at its third attempt,   *)
(* and the budgets are flushed one by one.                                 *)
FailKeepsPart(j) ==
    \/ /\ j = "usage_flush"
       /\ \E S \in SUBSET Held(records) : Usage!Move(S, "held", "lost")
       /\ UNCHANGED <<charges, events>>
    \/ /\ j = "events_flush"
       /\ \E S \in SUBSET Held(events) : Event!Move(S, "held", "lost")
       /\ UNCHANGED <<records, charges>>
    \/ /\ j = "budget_flush_roll" /\ source = "open"
       /\ \E S \in SUBSET Held(charges) : Spend!Move(S, "held", "stored")
       /\ UNCHANGED <<records, events>>

Fail(j) ==
    /\ ~Empty(j)
    /\ FailKeeps(j) \/ FailKeepsPart(j)
    /\ Mishap
    /\ failed' = failed \union {<<j, IF Stopped(j) THEN "last" ELSE "tick">>}

RunJob(j) ==
    /\ Alive /\ job[j] = "loop"
    /\ \/ Write(j) /\ UNCHANGED <<faults, failed>>
       \/ Fail(j)
       \/ Empty(j) /\ Stopped(j) /\ UNCHANGED <<kept, faults, failed>>
    /\ UNCHANGED <<lifecycle, stop, server, phase, stopErr>>

(* Mutant: the last run is left out. *)
RunLeftOut(j) ==
    /\ Alive /\ job[j] = "loop"
    /\ \/ Write(j) /\ UNCHANGED <<faults, failed, job>>
       \/ Stopped(j) /\ job' = [job EXCEPT ![j] = "exited"] /\ UNCHANGED <<kept, faults, failed>>
    /\ UNCHANGED <<lifecycle, stop, server, phase, stopErr>>

(* The job's loop: a run on its ticker, and the last one, of a job with    *)
(* RunAtStop, when it sees its stop channel closed.                        *)
Run(j) ==
    /\ RunJob(j)
    /\ \/ ~Stopped(j) /\ UNCHANGED job
       \/ Stopped(j) /\ job' = [job EXCEPT ![j] = "exited"]

-----------------------------------------------------------------------------
(* main: Initialize and Start, each of which may fail at any of its steps; *)
(* main then calls Stop and exits.                                         *)

(* The configuration and the database first; the metrics engine, if it is  *)
(* enabled, last, with its store opened and its hook registered.           *)
Initialize ==
    /\ main = "initialize"
    /\ source' \in {"none", "open"}
    /\ metrics' \in IF source' = "open" THEN {"none", "open"} ELSE {"none"}
    /\ main' \in IF source' = "open" THEN {"start catalog", "http"} ELSE {"http"}
    /\ UNCHANGED <<isRunning, job, stop, server, phase, kept, stopErr, faults, failed>>

StartOf == [catalog |-> "start catalog", governance |-> "start governance", metrics |-> "start metrics"]
AfterStart == [catalog |-> StartOf.governance, governance |-> StartOf.metrics, metrics |-> "start server"]

(* ModelCatalog.Start, Governance.Start and MetricsEngine.Start: a group   *)
(* whose RunAtStart jobs succeed has its loops, one that fails has none.   *)
StartGroup(group) ==
    /\ main = StartOf[group]
    /\ \/ /\ main' = AfterStart[group]
          /\ job' = IF group = "metrics" /\ metrics = "none" THEN job
                    ELSE [j \in Jobs |-> IF GroupOf[j] = group THEN "loop" ELSE job[j]]
       \/ main' = "http" /\ UNCHANGED job
    /\ UNCHANGED <<isRunning, source, metrics, stop, server, phase, kept, stopErr, faults, failed>>

(* DiffractLLMServer.Start listens and serves; then the gateway runs. *)
StartServer ==
    /\ main = "start server"
    /\ \/ main' = "serving" /\ http' = "listening" /\ isRunning' = TRUE
       \/ main' = "http" /\ UNCHANGED <<http, isRunning>>
    /\ UNCHANGED <<source, metrics, job, stop, elapsed, cancelled, abandoned, phase, kept, stopErr, faults, failed>>

(* Serve returns an error, which waits in the channel of ServeError. *)
ServeFails ==
    /\ http = "listening"
    /\ http' = "failed"
    /\ UNCHANGED <<lifecycle, job, stop, elapsed, cancelled, abandoned, phase, kept, stopErr, faults, failed>>

(* WaitForSignal: a signal, or the error of Serve.  Either leads to Stop,  *)
(* and server.Shutdown closes the listener.                                *)
LeaveSelect ==
    /\ main' = "http" /\ http' = "closing"
    /\ UNCHANGED <<isRunning, source, metrics, job, stop, elapsed, cancelled, abandoned, phase, kept, stopErr, faults, failed>>

Signal == main = "serving" /\ LeaveSelect
ServeError == main = "serving" /\ http = "failed" /\ LeaveSelect

-----------------------------------------------------------------------------
(* Stop: five stages, none of which an error of another makes it skip. *)

AfterStop ==
    [http |-> "metrics", metrics |-> "governance", governance |-> "catalog", catalog |-> "store", store |-> "exit"]
Stages == DOMAIN AfterStop

(* What each stage is conditional on. *)
HasStage(stage) ==
    CASE stage = "metrics" -> metrics = "open"
      [] stage = "store" -> source = "open"
      [] OTHER -> isRunning

(* The stage is over, without or with an error. *)
EndStage(stage, errs) ==
    /\ main' = AfterStop[stage]
    /\ isRunning' = (isRunning /\ stage # "catalog")
    /\ stopErr' = stopErr \union errs

SkipStage ==
    /\ main \in Stages /\ ~HasStage(main)
    /\ EndStage(main, {})
    /\ UNCHANGED <<source, metrics, job, stop, server, phase, kept, faults, failed>>

(* server.Shutdown: every connection is idle, and closed. *)
HttpDrained ==
    /\ main = "http" /\ http = "closing" /\ Busy = {}
    /\ EndStage("http", {})
    /\ http' = "closed"
    /\ UNCHANGED <<source, metrics, job, stop, elapsed, cancelled, abandoned, phase, kept, faults, failed>>

(* StreamGrace is over: the base context of all requests is cancelled. *)
GraceEnds ==
    /\ main = "http" /\ http = "closing" /\ elapsed >= StreamGrace /\ ~cancelled
    /\ cancelled' = TRUE
    /\ UNCHANGED <<lifecycle, job, stop, http, elapsed, abandoned, phase, kept, stopErr, faults, failed>>

(* Mutant: StreamGrace is taken for the timeout of Shutdown. *)
HttpDeadlineAtGrace ==
    /\ main = "http" /\ http = "closing" /\ elapsed >= StreamGrace
    /\ EndStage("http", {"http"})
    /\ http' = "closed" /\ abandoned' = Busy
    /\ UNCHANGED <<source, metrics, job, stop, elapsed, cancelled, phase, kept, faults, failed>>

(* Mutant: Shutdown waits for the handlers although its time is over. *)
HttpNoDeadline ==
    /\ main = "http" /\ http = "closing" /\ elapsed >= ShutdownTimeout /\ Busy = {}
    /\ EndStage("http", {"http"})
    /\ http' = "closed" /\ abandoned' = Busy
    /\ UNCHANGED <<source, metrics, job, stop, elapsed, cancelled, phase, kept, faults, failed>>

(* ShutdownTimeout is over: Shutdown returns, and the handlers run on. *)
HttpDeadline ==
    /\ main = "http" /\ http = "closing" /\ elapsed >= ShutdownTimeout
    /\ EndStage("http", {"http"})
    /\ http' = "closed" /\ abandoned' = Busy
    /\ UNCHANGED <<source, metrics, job, stop, elapsed, cancelled, phase, kept, faults, failed>>

(* Time passes; a timer that is due is served before the next unit.        *)
Tick ==
    /\ main = "http" /\ http = "closing" /\ elapsed < ShutdownTimeout
    /\ elapsed >= StreamGrace => cancelled
    /\ elapsed' = elapsed + 1
    /\ UNCHANGED <<lifecycle, job, stop, http, cancelled, abandoned, phase, kept, stopErr, faults, failed>>

(* Shutdown of a group, under DrainBudget: the stop channel is closed. *)
DrainBegin(group) ==
    /\ main = group /\ HasStage(group) /\ group \notin stop
    /\ stop' = stop \union {group}
    /\ UNCHANGED <<lifecycle, job, server, phase, kept, stopErr, faults, failed>>

(* MetricsEngine.Shutdown closes its store as well, drained or not, and    *)
(* returns the first error.                                                *)
CloseMetrics(group) == metrics' = IF group = "metrics" THEN "closed" ELSE metrics
CloseErrors(group) == IF group = "metrics" THEN {{}, {group}} ELSE {{}}

(* The loops have ended (there are none when Start did not get so far)... *)
DrainEnd(group) ==
    /\ main = group /\ group \in stop
    /\ \A j \in JobsOf(group) : job[j] # "loop"
    /\ \E errs \in CloseErrors(group) : EndStage(group, errs)
    /\ CloseMetrics(group)
    /\ UNCHANGED <<source, job, stop, server, phase, kept, faults, failed>>

(* ... or DrainBudget has: the group's loops go on. *)
DrainTimeout(group) ==
    /\ main = group /\ group \in stop
    /\ \E j \in JobsOf(group) : job[j] = "loop"
    /\ EndStage(group, {group})
    /\ CloseMetrics(group)
    /\ UNCHANGED <<source, job, stop, server, phase, kept, faults, failed>>

CloseStore ==
    /\ main = "store" /\ HasStage("store")
    /\ \/ EndStage("store", {}) \/ EndStage("store", {"store"})
    /\ source' = "closed"
    /\ UNCHANGED <<metrics, job, stop, server, phase, kept, faults, failed>>

(* main returns, or exits with the error of Initialize or Start. *)
Return ==
    /\ main = "exit"
    /\ main' = "exited"
    /\ UNCHANGED <<isRunning, source, metrics, job, stop, server, phase, kept, stopErr, faults, failed>>

(* The process is killed: by a crash, or by a signal while main is not in  *)
(* WaitForSignal, such as a second one during Stop.                        *)
Kill ==
    /\ Alive
    /\ main' = "killed"
    /\ UNCHANGED <<isRunning, source, metrics, job, stop, server, phase, kept, stopErr, faults, failed>>

-----------------------------------------------------------------------------
Init ==
    /\ main = "initialize" /\ isRunning = FALSE
    /\ source = "none" /\ metrics = "none"
    /\ job = [j \in Jobs |-> "none"] /\ stop = {}
    /\ http = "down" /\ elapsed = 0 /\ cancelled = FALSE /\ abandoned = {}
    /\ phase = [r \in Requests |-> "none"]
    /\ Usage!Init /\ Spend!Init /\ Event!Init
    /\ stopErr = {} /\ faults = 0 /\ failed = {}

Boot == Initialize \/ (\E g \in Groups : StartGroup(g)) \/ StartServer

Shutdown ==
    \/ SkipStage \/ HttpDrained \/ GraceEnds \/ HttpDeadline \/ Tick
    \/ \E g \in Groups : DrainBegin(g) \/ DrainEnd(g) \/ DrainTimeout(g)
    \/ CloseStore \/ Return

Next ==
    \/ Boot \/ ServeFails \/ Signal \/ ServeError \/ Shutdown \/ Kill
    \/ Request \/ \E j \in Jobs : Run(j)

Spec == Init /\ [][Next]_vars

(* main goes on and its timers fire.  Nothing is asked of the handlers: a  *)
(* client that does not read may hold one for ever, nor of the jobs.       *)
FairSpec == Spec /\ WF_vars(Shutdown) /\ WF_vars(ServeError)

-----------------------------------------------------------------------------
(* Properties. *)

(* Every variable has the type its Go counterpart gives it. *)
TypeOK ==
    /\ main \in {"initialize", "start catalog", "start governance", "start metrics", "start server",
                 "serving", "exit", "exited", "killed"} \union Stages
    /\ isRunning \in BOOLEAN /\ cancelled \in BOOLEAN
    /\ {source, metrics} \subseteq {"none", "open", "closed"}
    /\ job \in [Jobs -> {"none", "loop", "exited"}]
    /\ stop \subseteq Groups /\ stopErr \subseteq Stages /\ failed \subseteq Jobs \X {"tick", "last"}
    /\ http \in {"down", "listening", "failed", "closing", "closed"}
    /\ elapsed \in 0..ShutdownTimeout
    /\ phase \in [Requests -> {"none", "open", "settling", "ended"}]
    /\ {records, charges, events} \subseteq [Requests -> Usage!Statuses]
    /\ abandoned \subseteq Requests /\ faults \in 0..MaxFaults

(* No request is taken before the catalog, the keys and the budgets are    *)
(* loaded and their jobs run.                                              *)
ServesWhenReady ==
    http # "down" => \A j \in JobsOf("catalog") \union JobsOf("governance") : job[j] # "none"

(* No job is left with a store that was closed under it, unless Stop has   *)
(* reported that the job did not end, or nothing was ever served.          *)
StoresOutliveJobs ==
    \A j \in Jobs :
        LET store == IF GroupOf[j] = "metrics" THEN metrics ELSE source
        IN store = "closed" /\ job[j] = "loop" =>
               GroupOf[j] \in stopErr \/ http = "down"

(* A request that outlives server.Shutdown had its context cancelled first,*)
(* so that it is on its way to settle: the deadline of Shutdown never      *)
(* comes before cancelBase.                                                *)
CancelledBeforeAbandoned == abandoned # {} => cancelled /\ "http" \in stopErr

(* The state of the process is sound: types, nothing served before the     *)
(* components are up, stores closed after their jobs, and no request       *)
(* abandoned without having been cancelled.                                *)
GatewayInv == TypeOK /\ ServesWhenReady /\ StoresOutliveJobs /\ CancelledBeforeAbandoned

(* What has become of what the job had to make durable of r. *)
Outcome(j, r) ==
    CASE j = "usage_flush" -> records[r]
      [] j = "budget_flush_roll" -> charges[r]
      [] j = "events_flush" -> events[r]

(* A Stop that came to its end has left nothing in memory that had been    *)
(* taken, no record, charge or event, except of requests that outlived     *)
(* server.Shutdown, of a job whose last run failed, which Stop does not    *)
(* report (the loop drops the error of its last run), and of a group that  *)
(* Stop reported not to have ended in time.  Records and events were given *)
(* up on the way only by runs that failed.  No handler is left but those   *)
(* that outlived server.Shutdown.                                          *)
StopKeepsWork ==
    main = "exited" =>
        /\ \A r \in Requests, j \in RunAtStop :
              /\ Outcome(j, r) = "held" =>
                    r \in abandoned \/ <<j, "last">> \in failed \/ GroupOf[j] \in stopErr
              /\ Outcome(j, r) = "lost" /\ j # "budget_flush_roll" =>
                    {<<j, "tick">>, <<j, "last">>} \intersect failed # {}
        /\ Busy \subseteq abandoned

(* Once the server has failed or Stop has begun the process ends, whatever *)
(* handlers, jobs and stores do.                                           *)
StopReturns == (http = "failed" \/ main \in Stages) ~> ~Alive
=============================================================================
