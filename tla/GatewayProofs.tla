--------------------------- MODULE GatewayProofs ---------------------------
(***************************************************************************)
(* Proofs about Gateway, for any number of requests and faults and any     *)
(* durations with StreamGrace below ShutdownTimeout.                       *)
(***************************************************************************)
EXTENDS Gateway, TLAPS

Booting == {"initialize", "start catalog", "start governance", "start metrics", "start server"}

(* The places of main after each stage of Stop. *)
AfterHttp == {"metrics", "governance", "catalog", "store", "exit", "exited"}
AfterMetrics == {"governance", "catalog", "store", "exit", "exited"}
AfterGovernance == {"catalog", "store", "exit", "exited"}
AfterCatalog == {"store", "exit", "exited"}

(* How main, the server and the stores go together. *)
Order ==
    /\ main \in Booting => http = "down" /\ ~isRunning
    /\ main = "initialize" => metrics = "none"
    /\ main = "serving" => http \in {"listening", "failed"} /\ isRunning
    /\ main \in {"http", "metrics", "governance", "catalog"} /\ ~isRunning => http = "down"
    /\ main \in AfterHttp => http \in {"down", "closed"}
    /\ source = "closed" => main \in {"exit", "exited", "killed"}
    /\ metrics = "closed" => main \in AfterMetrics \union {"killed"}

(* What has loops. *)
Ready ==
    /\ main = "start governance" => job["catalog_sync"] # "none"
    /\ main \in {"start metrics", "start server"} \/ http # "down" =>
         \A j \in {"catalog_sync", "budget_sync", "virtual_keys_sync", "usage_flush", "budget_flush_roll"} : job[j] # "none"
    /\ (main = "start server" \/ http # "down") /\ metrics # "none" => job["events_flush"] # "none"
    /\ metrics = "none" => job["events_flush"] = "none"

(* Nothing is left by requests before there are any, and no event without  *)
(* metrics.                                                                *)
Quiet ==
    /\ http = "down" => \A r \in Requests :
          phase[r] = "none" /\ records[r] = "new" /\ charges[r] = "new" /\ events[r] = "new"
    /\ metrics = "none" => \A r \in Requests : events[r] = "new"

(* What is stopped, and what may still loop. *)
Stops ==
    /\ "metrics" \in stop => main \in {"metrics", "killed"} \union AfterMetrics /\ metrics # "none"
    /\ "governance" \in stop => main \in {"governance", "killed"} \union AfterGovernance
    /\ "catalog" \in stop => main \in {"catalog", "killed"} \union AfterCatalog
    /\ job["events_flush"] = "exited" => "metrics" \in stop
    /\ job["budget_sync"] = "exited" => "governance" \in stop
    /\ job["virtual_keys_sync"] = "exited" => "governance" \in stop
    /\ job["usage_flush"] = "exited" => "governance" \in stop
    /\ job["budget_flush_roll"] = "exited" => "governance" \in stop
    /\ job["catalog_sync"] = "exited" => "catalog" \in stop

Loops ==
    /\ main \in AfterMetrics /\ job["events_flush"] = "loop" => "metrics" \in stopErr \/ http = "down"
    /\ main \in AfterGovernance /\ job["budget_sync"] = "loop" => "governance" \in stopErr \/ http = "down"
    /\ main \in AfterGovernance /\ job["virtual_keys_sync"] = "loop" => "governance" \in stopErr \/ http = "down"
    /\ main \in AfterGovernance /\ job["usage_flush"] = "loop" => "governance" \in stopErr \/ http = "down"
    /\ main \in AfterGovernance /\ job["budget_flush_roll"] = "loop" => "governance" \in stopErr \/ http = "down"
    /\ main \in AfterCatalog /\ job["catalog_sync"] = "loop" => "catalog" \in stopErr \/ http = "down"

(* The grace comes before the deadline. *)
Timers == (elapsed > StreamGrace => cancelled) /\ CancelledBeforeAbandoned

(* Nothing that requests left before their connections were closed is in   *)
(* memory once the job has ended, unless its last run failed; records and  *)
(* events are given up by failed runs only.                                *)
Kept ==
    /\ main \in AfterHttp => Busy \subseteq abandoned
    /\ \A j \in RunAtStop, r \in Requests \ abandoned :
          job[j] = "exited" /\ Outcome(j, r) = "held" => <<j, "last">> \in failed
    /\ \A r \in Requests :
          /\ records[r] = "lost" => {<<"usage_flush", "tick">>, <<"usage_flush", "last">>} \intersect failed # {}
          /\ events[r] = "lost" => {<<"events_flush", "tick">>, <<"events_flush", "last">>} \intersect failed # {}

Parts == Order /\ Ready /\ Quiet /\ Stops /\ Loops /\ StoresOutliveJobs /\ Timers /\ Kept

-----------------------------------------------------------------------------
(* The names the model uses, spelled out for the provers. *)
LEMMA Names ==
    /\ Jobs = {"budget_sync", "virtual_keys_sync", "usage_flush", "budget_flush_roll", "events_flush", "catalog_sync"}
    /\ Groups = {"governance", "metrics", "catalog"}
    /\ GroupOf["budget_sync"] = "governance" /\ GroupOf["virtual_keys_sync"] = "governance"
    /\ GroupOf["usage_flush"] = "governance" /\ GroupOf["budget_flush_roll"] = "governance"
    /\ GroupOf["events_flush"] = "metrics" /\ GroupOf["catalog_sync"] = "catalog"
    /\ StartOf["catalog"] = "start catalog" /\ StartOf["governance"] = "start governance"
    /\ StartOf["metrics"] = "start metrics"
    /\ AfterStart["catalog"] = "start governance" /\ AfterStart["governance"] = "start metrics"
    /\ AfterStart["metrics"] = "start server"
    /\ Stages = {"http", "metrics", "governance", "catalog", "store"}
    /\ AfterStop["http"] = "metrics" /\ AfterStop["metrics"] = "governance"
    /\ AfterStop["governance"] = "catalog" /\ AfterStop["catalog"] = "store" /\ AfterStop["store"] = "exit"
<1>1. Jobs = {"budget_sync", "virtual_keys_sync", "usage_flush", "budget_flush_roll", "events_flush", "catalog_sync"}
  BY DEF Jobs, GroupOf
<1>2. /\ GroupOf["budget_sync"] = "governance" /\ GroupOf["virtual_keys_sync"] = "governance"
      /\ GroupOf["usage_flush"] = "governance" /\ GroupOf["budget_flush_roll"] = "governance"
      /\ GroupOf["events_flush"] = "metrics" /\ GroupOf["catalog_sync"] = "catalog"
  BY DEF GroupOf
<1>3. Groups = {"governance", "metrics", "catalog"}
  BY <1>1, <1>2 DEF Groups
<1>4. Stages = {"http", "metrics", "governance", "catalog", "store"}
  BY DEF Stages, AfterStop
<1> QED BY <1>1, <1>2, <1>3, <1>4 DEF StartOf, AfterStart, AfterStop

(* The clock and the faults at the beginning. *)
LEMMA TimeZero ==
    ASSUME elapsed = 0, faults = 0
    PROVE  elapsed \in 0..ShutdownTimeout /\ faults \in 0..MaxFaults /\ ~(elapsed > StreamGrace)
BY GatewayAssumption

(* The initial state has every part. *)
LEMMA InitParts == Init => TypeOK /\ Parts
<1> SUFFICES ASSUME Init PROVE TypeOK /\ Parts
  OBVIOUS
<1> USE Names
<1>0. elapsed = 0 /\ faults = 0
  BY DEF Init
<1>1. /\ main = "initialize" /\ isRunning = FALSE /\ cancelled = FALSE /\ source = "none" /\ metrics = "none"
      /\ stop = {} /\ stopErr = {} /\ failed = {} /\ http = "down" /\ elapsed = 0 /\ abandoned = {} /\ faults = 0
      /\ job = [j \in Jobs |-> "none"] /\ phase = [r \in Requests |-> "none"]
      /\ records = [r \in Requests |-> "new"] /\ charges = [r \in Requests |-> "new"]
      /\ events = [r \in Requests |-> "new"]
  BY DEF Init, Usage!Init, Spend!Init, Event!Init
<1>2. TypeOK
  <2>1. isRunning \in BOOLEAN /\ cancelled \in BOOLEAN
    BY <1>1
  <2>2. elapsed \in 0..ShutdownTimeout /\ faults \in 0..MaxFaults
    BY <1>0, TimeZero
  <2>3. job \in [Jobs -> {"none", "loop", "exited"}]
    BY <1>1
  <2>4. phase \in [Requests -> {"none", "open", "settling", "ended"}]
    BY <1>1, Zenon
  <2>5. "new" \in Usage!Statuses
    BY DEF Usage!Statuses
  <2>6. [r \in Requests |-> "new"] \in [Requests -> Usage!Statuses]
    BY <2>5, Zenon
  <2>7. {records, charges, events} \subseteq [Requests -> Usage!Statuses]
    BY <1>1, <2>6, Zenon
  <2> QED BY <1>1, <2>1, <2>2, <2>3, <2>4, <2>7, Zenon DEF TypeOK
<1>3. Order
  BY <1>1 DEF Order, AfterHttp
<1>6. Timers
  <2>1. ~(elapsed > StreamGrace)
    BY <1>0, TimeZero
  <2> QED BY <1>1, <2>1, Zenon DEF Timers, CancelledBeforeAbandoned
<1>7. Stops /\ Loops
  BY <1>1 DEF Stops, Loops, AfterMetrics, AfterGovernance, AfterCatalog
<1>8. StoresOutliveJobs
  BY <1>1 DEF StoresOutliveJobs
<1>4. Ready /\ Quiet
  BY <1>1 DEF Ready, Quiet
<1>5. Kept
  BY <1>1 DEF Kept, AfterHttp, RunAtStop
<1> QED BY <1>2, <1>3, <1>4, <1>5, <1>6, <1>7, <1>8 DEF Parts

-----------------------------------------------------------------------------
(* What a step of a request leaves alone... *)
LEMMA RequestFrame ==
    ASSUME Request
    PROVE  UNCHANGED <<main, isRunning, source, metrics, job, stop, http, elapsed, cancelled, abandoned, stopErr, failed>>
BY DEF Request, Arrive, Settle, EndRequest, DeleteBudget, Handler, lifecycle, server

(* ... and a run of a job. *)
LEMMA RunFrame ==
    ASSUME NEW j \in Jobs, Run(j)
    PROVE  UNCHANGED <<main, isRunning, source, metrics, stop, http, elapsed, cancelled, abandoned, phase, stopErr>>
BY DEF Run, RunJob, lifecycle, server

(* A step is a step of main, of a request or of a job. *)
MainStep ==
    \/ Initialize \/ (\E g \in Groups : StartGroup(g)) \/ StartServer
    \/ ServeFails \/ Signal \/ ServeError
    \/ SkipStage \/ HttpDrained \/ GraceEnds \/ HttpDeadline \/ Tick
    \/ (\E g \in Groups : DrainBegin(g) \/ DrainEnd(g) \/ DrainTimeout(g))
    \/ CloseStore \/ Return \/ Kill

LEMMA Steps == Next => MainStep \/ Request \/ \E j \in Jobs : Run(j)
BY DEF Next, Boot, Shutdown, MainStep

(* main keeps the order of its stages, one step per operation. *)
LEMMA MainOrder == TypeOK /\ Parts /\ MainStep => Order'
<1> SUFFICES ASSUME TypeOK, Parts, MainStep PROVE Order'
  OBVIOUS
<1>p. Order
  BY DEF Parts
<1> USE Names DEF server, lifecycle, Order, AfterHttp, AfterMetrics, Booting
<1>1. CASE Initialize
  BY <1>1, <1>p DEF Initialize
<1>2. CASE StartServer
  BY <1>2, <1>p DEF StartServer
<1>3. CASE ServeFails
  BY <1>3, <1>p DEF ServeFails
<1>4. CASE Signal \/ ServeError
  BY <1>4, <1>p DEF Signal, ServeError, LeaveSelect
<1>5. CASE SkipStage
  BY <1>5, <1>p DEF SkipStage, EndStage, HasStage
<1>6. CASE HttpDrained
  BY <1>6, <1>p DEF HttpDrained, EndStage
<1>7. CASE GraceEnds
  BY <1>7, <1>p DEF GraceEnds
<1>8. CASE HttpDeadline
  BY <1>8, <1>p DEF HttpDeadline, EndStage
<1>9. CASE Tick
  BY <1>9, <1>p DEF Tick
<1>10. CASE CloseStore
  BY <1>10, <1>p DEF CloseStore, EndStage
<1>11. CASE Return
  BY <1>11, <1>p DEF Return
<1>12. CASE Kill
  BY <1>12, <1>p DEF Kill
<1>13. ASSUME NEW g \in Groups, StartGroup(g) PROVE Order'
  BY <1>13, <1>p DEF StartGroup
<1>14. ASSUME NEW g \in Groups, DrainBegin(g) PROVE Order'
  BY <1>14, <1>p DEF DrainBegin, HasStage
<1>15. ASSUME NEW g \in Groups, DrainEnd(g) PROVE Order'
  BY <1>15, <1>p DEF DrainEnd, EndStage, CloseMetrics
<1>16. ASSUME NEW g \in Groups, DrainTimeout(g) PROVE Order'
  BY <1>16, <1>p DEF DrainTimeout, EndStage, CloseMetrics
<1> QED BY <1>1, <1>2, <1>3, <1>4, <1>5, <1>6, <1>7, <1>8, <1>9, <1>10, <1>11, <1>12, <1>13, <1>14, <1>15, <1>16 DEF MainStep

(* Only StartGroup gives a group its loops. *)
LEMMA MainReady == TypeOK /\ Parts /\ MainStep => Ready'
<1> SUFFICES ASSUME TypeOK, Parts, MainStep PROVE Ready'
  OBVIOUS
<1>p. Order /\ Ready /\ Stops
  BY DEF Parts
<1> USE Names DEF server, lifecycle, Order, Ready, Stops, Booting
<1>1. CASE Initialize
  BY <1>1, <1>p DEF Initialize
<1>2. CASE StartServer
  BY <1>2, <1>p DEF StartServer
<1>3. CASE ServeFails
  BY <1>3, <1>p DEF ServeFails
<1>4. CASE Signal \/ ServeError
  BY <1>4, <1>p DEF Signal, ServeError, LeaveSelect
<1>5. CASE SkipStage
  BY <1>5, <1>p DEF SkipStage, EndStage, HasStage
<1>6. CASE HttpDrained
  BY <1>6, <1>p DEF HttpDrained, EndStage
<1>7. CASE GraceEnds
  BY <1>7, <1>p DEF GraceEnds
<1>8. CASE HttpDeadline
  BY <1>8, <1>p DEF HttpDeadline, EndStage
<1>9. CASE Tick
  BY <1>9, <1>p DEF Tick
<1>10. CASE CloseStore
  BY <1>10, <1>p DEF CloseStore, EndStage
<1>11. CASE Return
  BY <1>11, <1>p DEF Return
<1>12. CASE Kill
  BY <1>12, <1>p DEF Kill
<1>13. ASSUME NEW g \in Groups, StartGroup(g) PROVE Ready'
  <2>1. /\ main = StartOf[g] /\ http' = http /\ metrics' = metrics
        /\ \/ main' = AfterStart[g] /\ g = "metrics" /\ metrics = "none" /\ job' = job
           \/ /\ main' = AfterStart[g] /\ (g = "metrics" => metrics # "none")
              /\ job' = [j \in Jobs |-> IF GroupOf[j] = g THEN "loop" ELSE job[j]]
           \/ main' = "http" /\ job' = job
    BY <1>13 DEF StartGroup
  <2>2. CASE job' = job /\ (main' = "http" \/ (g = "metrics" /\ metrics = "none" /\ main' = AfterStart[g]))
    <3>1. CASE main' = "http"
      BY <1>p, <2>1, <2>2, <3>1
    <3>2. CASE g = "metrics" /\ metrics = "none" /\ main' = AfterStart[g]
      BY <1>p, <2>1, <2>2, <3>2
    <3> QED BY <2>2, <3>1, <3>2
  <2>3. CASE job' = [j \in Jobs |-> IF GroupOf[j] = g THEN "loop" ELSE job[j]] /\ main' = AfterStart[g]
             /\ (g = "metrics" => metrics # "none")
    <3>1. CASE g = "catalog"
      BY <1>p, <2>1, <2>3, <3>1
    <3>2. CASE g = "governance"
      BY <1>p, <2>1, <2>3, <3>2
    <3>3. CASE g = "metrics"
      BY <1>p, <2>1, <2>3, <3>3
    <3> QED BY <3>1, <3>2, <3>3
  <2> QED BY <2>1, <2>2, <2>3
<1>14. ASSUME NEW g \in Groups, DrainBegin(g) PROVE Ready'
  BY <1>14, <1>p DEF DrainBegin, HasStage
<1>15. ASSUME NEW g \in Groups, DrainEnd(g) PROVE Ready'
  BY <1>15, <1>p DEF DrainEnd, EndStage, CloseMetrics
<1>16. ASSUME NEW g \in Groups, DrainTimeout(g) PROVE Ready'
  BY <1>16, <1>p DEF DrainTimeout, EndStage, CloseMetrics
<1> QED BY <1>1, <1>2, <1>3, <1>4, <1>5, <1>6, <1>7, <1>8, <1>9, <1>10, <1>11, <1>12, <1>13, <1>14, <1>15, <1>16 DEF MainStep

(* main does nothing to what requests leave behind. *)
LEMMA MainQuiet == TypeOK /\ Parts /\ MainStep => Quiet'
<1> SUFFICES ASSUME TypeOK, Parts, MainStep PROVE Quiet'
  OBVIOUS
<1>p. Order /\ Quiet
  BY DEF Parts
<1> USE Names DEF server, lifecycle, Order, Quiet, kept, Booting
<1>1. CASE Initialize
  BY <1>1, <1>p DEF Initialize
<1>2. CASE StartServer
  BY <1>2, <1>p DEF StartServer
<1>3. CASE ServeFails
  BY <1>3, <1>p DEF ServeFails
<1>4. CASE Signal \/ ServeError
  <2>1. http' = "closing" /\ metrics' = metrics /\ events' = events
    BY <1>4 DEF Signal, ServeError, LeaveSelect
  <2> QED BY <1>p, <2>1
<1>5. CASE SkipStage
  BY <1>5, <1>p DEF SkipStage, EndStage, HasStage
<1>6. CASE HttpDrained
  BY <1>6, <1>p DEF HttpDrained, EndStage
<1>7. CASE GraceEnds
  BY <1>7, <1>p DEF GraceEnds
<1>8. CASE HttpDeadline
  BY <1>8, <1>p DEF HttpDeadline, EndStage
<1>9. CASE Tick
  BY <1>9, <1>p DEF Tick
<1>10. CASE CloseStore
  BY <1>10, <1>p DEF CloseStore, EndStage
<1>11. CASE Return
  BY <1>11, <1>p DEF Return
<1>12. CASE Kill
  BY <1>12, <1>p DEF Kill
<1>13. ASSUME NEW g \in Groups, StartGroup(g) PROVE Quiet'
  BY <1>13, <1>p DEF StartGroup
<1>14. ASSUME NEW g \in Groups, DrainBegin(g) PROVE Quiet'
  BY <1>14, <1>p DEF DrainBegin, HasStage
<1>15. ASSUME NEW g \in Groups, DrainEnd(g) PROVE Quiet'
  BY <1>15, <1>p DEF DrainEnd, EndStage, CloseMetrics
<1>16. ASSUME NEW g \in Groups, DrainTimeout(g) PROVE Quiet'
  BY <1>16, <1>p DEF DrainTimeout, EndStage, CloseMetrics
<1> QED BY <1>1, <1>2, <1>3, <1>4, <1>5, <1>6, <1>7, <1>8, <1>9, <1>10, <1>11, <1>12, <1>13, <1>14, <1>15, <1>16 DEF MainStep

(* A group is stopped in its own stage, while main is there. *)
LEMMA MainStops == TypeOK /\ Parts /\ MainStep => Stops'
<1> SUFFICES ASSUME TypeOK, Parts, MainStep PROVE Stops'
  OBVIOUS
<1>p. Order /\ Stops
  BY DEF Parts
<1> USE Names DEF server, lifecycle, Order, Stops, Booting, AfterMetrics, AfterGovernance, AfterCatalog
<1>1. CASE Initialize
  BY <1>1, <1>p DEF Initialize
<1>2. CASE StartServer
  BY <1>2, <1>p DEF StartServer
<1>3. CASE ServeFails
  BY <1>3, <1>p DEF ServeFails
<1>4. CASE Signal \/ ServeError
  BY <1>4, <1>p DEF Signal, ServeError, LeaveSelect
<1>5. CASE SkipStage
  BY <1>5, <1>p DEF SkipStage, EndStage, HasStage
<1>6. CASE HttpDrained
  BY <1>6, <1>p DEF HttpDrained, EndStage
<1>7. CASE GraceEnds
  BY <1>7, <1>p DEF GraceEnds
<1>8. CASE HttpDeadline
  BY <1>8, <1>p DEF HttpDeadline, EndStage
<1>9. CASE Tick
  BY <1>9, <1>p DEF Tick
<1>10. CASE CloseStore
  BY <1>10, <1>p DEF CloseStore, EndStage
<1>11. CASE Return
  BY <1>11, <1>p DEF Return
<1>12. CASE Kill
  BY <1>12, <1>p DEF Kill
<1>13. ASSUME NEW g \in Groups, StartGroup(g) PROVE Stops'
  <2>1. /\ main = StartOf[g] /\ stop' = stop /\ metrics' = metrics
        /\ \A j \in Jobs : job'[j] \in {job[j], "loop"}
    BY <1>13 DEF StartGroup
  <2>2. stop \subseteq Groups
    BY DEF TypeOK
  <2>3. stop = {}
    BY <1>p, <2>1, <2>2
  <2> QED BY <1>p, <2>1, <2>3
<1>14. ASSUME NEW g \in Groups, DrainBegin(g) PROVE Stops'
  BY <1>14, <1>p DEF DrainBegin, HasStage
<1>15. ASSUME NEW g \in Groups, DrainEnd(g) PROVE Stops'
  <2>1. main = g /\ main' = AfterStop[g] /\ g \in stop /\ stop' = stop /\ job' = job
        /\ metrics' = (IF g = "metrics" THEN "closed" ELSE metrics)
    BY <1>15 DEF DrainEnd, EndStage, CloseMetrics
  <2>2. CASE g = "metrics"
    BY <1>p, <2>1, <2>2
  <2>3. CASE g = "governance"
    BY <1>p, <2>1, <2>3
  <2>4. CASE g = "catalog"
    BY <1>p, <2>1, <2>4
  <2> QED BY <2>2, <2>3, <2>4
<1>16. ASSUME NEW g \in Groups, DrainTimeout(g) PROVE Stops'
  BY <1>16, <1>p DEF DrainTimeout, EndStage, CloseMetrics
<1> QED BY <1>1, <1>2, <1>3, <1>4, <1>5, <1>6, <1>7, <1>8, <1>9, <1>10, <1>11, <1>12, <1>13, <1>14, <1>15, <1>16 DEF MainStep

(* A stage is left with a loop only when that is reported. *)
LEMMA MainLoops == TypeOK /\ Parts /\ MainStep => Loops'
<1> SUFFICES ASSUME TypeOK, Parts, MainStep PROVE Loops'
  OBVIOUS
<1>p. Order /\ Ready /\ Stops /\ Loops
  BY DEF Parts
<1> USE Names DEF server, lifecycle, Order, Ready, Stops, Loops, Booting, JobsOf, AfterMetrics, AfterGovernance, AfterCatalog
<1>1. CASE Initialize
  BY <1>1, <1>p DEF Initialize
<1>2. CASE StartServer
  BY <1>2, <1>p DEF StartServer
<1>3. CASE ServeFails
  BY <1>3, <1>p DEF ServeFails
<1>4. CASE Signal \/ ServeError
  BY <1>4, <1>p DEF Signal, ServeError, LeaveSelect
<1>5. CASE SkipStage
  <2>1. main \in Stages /\ ~HasStage(main) /\ main' = AfterStop[main] /\ job' = job /\ http' = http /\ metrics' = metrics
        /\ stopErr' = stopErr
    BY <1>5 DEF SkipStage, EndStage
  <2>2. CASE main = "metrics"
    <3>1. metrics # "open"
      BY <2>1, <2>2 DEF HasStage
    <3>2. metrics = "none"
      BY <3>1, <2>2, <1>p DEF TypeOK
    <3> QED BY <1>p, <2>1, <2>2, <3>2
  <2>3. CASE main \in {"governance", "catalog"}
    <3>1. http = "down"
      BY <1>p, <2>1, <2>3 DEF HasStage
    <3> QED BY <2>1, <3>1
  <2>4. CASE main \in {"http", "store"}
    BY <1>p, <2>1, <2>4
  <2> QED BY <2>1, <2>2, <2>3, <2>4
<1>6. CASE HttpDrained
  BY <1>6, <1>p DEF HttpDrained, EndStage
<1>7. CASE GraceEnds
  BY <1>7, <1>p DEF GraceEnds
<1>8. CASE HttpDeadline
  BY <1>8, <1>p DEF HttpDeadline, EndStage
<1>9. CASE Tick
  BY <1>9, <1>p DEF Tick
<1>10. CASE CloseStore
  BY <1>10, <1>p DEF CloseStore, EndStage
<1>11. CASE Return
  BY <1>11, <1>p DEF Return
<1>12. CASE Kill
  BY <1>12, <1>p DEF Kill
<1>13. ASSUME NEW g \in Groups, StartGroup(g) PROVE Loops'
  <2>1. main' \notin AfterMetrics \union AfterGovernance \union AfterCatalog
    BY <1>13 DEF StartGroup
  <2> QED BY <2>1
<1>14. ASSUME NEW g \in Groups, DrainBegin(g) PROVE Loops'
  BY <1>14, <1>p DEF DrainBegin, HasStage
<1>15. ASSUME NEW g \in Groups, DrainEnd(g) PROVE Loops'
  <2>1. /\ main = g /\ main' = AfterStop[g] /\ job' = job /\ http' = http /\ source' = source
        /\ \A j \in Jobs : GroupOf[j] = g => job[j] # "loop"
        /\ stopErr \subseteq stopErr' /\ metrics' = (IF g = "metrics" THEN "closed" ELSE metrics)
    BY <1>15 DEF DrainEnd, EndStage, CloseMetrics
  <2>2. CASE g = "metrics"
    BY <1>p, <2>1, <2>2
  <2>3. CASE g = "governance"
    BY <1>p, <2>1, <2>3
  <2>4. CASE g = "catalog"
    BY <1>p, <2>1, <2>4
  <2> QED BY <2>2, <2>3, <2>4
<1>16. ASSUME NEW g \in Groups, DrainTimeout(g) PROVE Loops'
  BY <1>16, <1>p DEF DrainTimeout, EndStage, CloseMetrics
<1> QED BY <1>1, <1>2, <1>3, <1>4, <1>5, <1>6, <1>7, <1>8, <1>9, <1>10, <1>11, <1>12, <1>13, <1>14, <1>15, <1>16 DEF MainStep

(* A store is closed in the stage after its jobs. *)
LEMMA MainStores == TypeOK /\ Parts /\ MainStep => StoresOutliveJobs'
<1> SUFFICES ASSUME TypeOK, Parts, MainStep PROVE StoresOutliveJobs'
  OBVIOUS
<1>p. Order /\ Stops /\ Loops /\ StoresOutliveJobs
  BY DEF Parts
<1> USE Names DEF server, lifecycle, Order, Stops, Loops, StoresOutliveJobs, Booting, JobsOf, AfterMetrics, AfterGovernance, AfterCatalog
<1>1. CASE Initialize
  BY <1>1, <1>p DEF Initialize
<1>2. CASE StartServer
  BY <1>2, <1>p DEF StartServer
<1>3. CASE ServeFails
  BY <1>3, <1>p DEF ServeFails
<1>4. CASE Signal \/ ServeError
  BY <1>4, <1>p DEF Signal, ServeError, LeaveSelect
<1>5. CASE SkipStage
  BY <1>5, <1>p DEF SkipStage, EndStage, HasStage
<1>6. CASE HttpDrained
  BY <1>6, <1>p DEF HttpDrained, EndStage
<1>7. CASE GraceEnds
  BY <1>7, <1>p DEF GraceEnds
<1>8. CASE HttpDeadline
  BY <1>8, <1>p DEF HttpDeadline, EndStage
<1>9. CASE Tick
  BY <1>9, <1>p DEF Tick
<1>10. CASE CloseStore
  <2>1. main = "store" /\ main' = "exit" /\ job' = job /\ http' = http /\ metrics' = metrics /\ stopErr \subseteq stopErr'
    BY <1>10 DEF CloseStore, EndStage
  <2>2. ASSUME NEW j \in Jobs, job[j] = "loop" PROVE GroupOf[j] \in stopErr \/ http = "down"
    <3>1. CASE j = "budget_sync"
      BY <1>p, <2>1, <2>2, <3>1
    <3>2. CASE j = "virtual_keys_sync"
      BY <1>p, <2>1, <2>2, <3>2
    <3>3. CASE j = "usage_flush"
      BY <1>p, <2>1, <2>2, <3>3
    <3>4. CASE j = "budget_flush_roll"
      BY <1>p, <2>1, <2>2, <3>4
    <3>5. CASE j \in {"events_flush", "catalog_sync"}
      BY <1>p, <2>1, <2>2, <3>5
    <3> QED BY <3>1, <3>2, <3>3, <3>4, <3>5
  <2> QED BY <2>1, <2>2
<1>11. CASE Return
  BY <1>11, <1>p DEF Return
<1>12. CASE Kill
  BY <1>12, <1>p DEF Kill
<1>13. ASSUME NEW g \in Groups, StartGroup(g) PROVE StoresOutliveJobs'
  BY <1>13, <1>p DEF StartGroup
<1>14. ASSUME NEW g \in Groups, DrainBegin(g) PROVE StoresOutliveJobs'
  BY <1>14, <1>p DEF DrainBegin, HasStage
<1>15. ASSUME NEW g \in Groups, DrainEnd(g) PROVE StoresOutliveJobs'
  <2>1. /\ main = g /\ main' = AfterStop[g] /\ job' = job /\ http' = http /\ source' = source
        /\ \A j \in Jobs : GroupOf[j] = g => job[j] # "loop"
        /\ stopErr \subseteq stopErr' /\ metrics' = (IF g = "metrics" THEN "closed" ELSE metrics)
    BY <1>15 DEF DrainEnd, EndStage, CloseMetrics
  <2>2. CASE g = "metrics"
    BY <1>p, <2>1, <2>2
  <2>3. CASE g = "governance"
    BY <1>p, <2>1, <2>3
  <2>4. CASE g = "catalog"
    BY <1>p, <2>1, <2>4
  <2> QED BY <2>2, <2>3, <2>4
<1>16. ASSUME NEW g \in Groups, DrainTimeout(g) PROVE StoresOutliveJobs'
  BY <1>16, <1>p DEF DrainTimeout, EndStage, CloseMetrics
<1> QED BY <1>1, <1>2, <1>3, <1>4, <1>5, <1>6, <1>7, <1>8, <1>9, <1>10, <1>11, <1>12, <1>13, <1>14, <1>15, <1>16 DEF MainStep

(* What a step of main leaves alone. *)
LEMMA MainFrame ==
    ASSUME TypeOK, MainStep
    PROVE  /\ UNCHANGED <<phase, records, charges, events, faults, failed>>
           /\ \A j \in Jobs : job'[j] = "exited" => job[j] = "exited"
           /\ stopErr \subseteq stopErr'
<1> USE Names DEF server, lifecycle, kept, EndStage
<1>1. UNCHANGED <<phase, records, charges, events, faults, failed>>
  BY DEF MainStep, Initialize, StartGroup, StartServer, ServeFails, Signal, ServeError, LeaveSelect, SkipStage,
         HttpDrained, GraceEnds, HttpDeadline, Tick, DrainBegin, DrainEnd, DrainTimeout, CloseStore, Return, Kill
<1>2. job' = job \/ \E g \in Groups : StartGroup(g)
  BY DEF MainStep, Initialize, StartServer, ServeFails, Signal, ServeError, LeaveSelect, SkipStage,
         HttpDrained, GraceEnds, HttpDeadline, Tick, DrainBegin, DrainEnd, DrainTimeout, CloseStore, Return, Kill
<1>3. ASSUME NEW g \in Groups, StartGroup(g) PROVE \A j \in Jobs : job'[j] = "exited" => job[j] = "exited"
  BY <1>3 DEF StartGroup
<1>4. stopErr \subseteq stopErr'
  BY DEF MainStep, Initialize, StartGroup, StartServer, ServeFails, Signal, ServeError, LeaveSelect, SkipStage,
         HttpDrained, GraceEnds, HttpDeadline, Tick, DrainBegin, DrainEnd, DrainTimeout, CloseStore, Return, Kill
<1> QED BY <1>1, <1>2, <1>3, <1>4

(* Which steps of main move the clock of server.Shutdown. *)
LEMMA MainClock ==
    ASSUME MainStep
    PROVE  UNCHANGED <<elapsed, cancelled, abandoned>> \/ GraceEnds \/ HttpDeadline \/ Tick
BY DEF MainStep, Initialize, StartGroup, StartServer, ServeFails, Signal, ServeError, LeaveSelect, SkipStage,
       HttpDrained, DrainBegin, DrainEnd, DrainTimeout, CloseStore, Return, Kill, server, lifecycle, EndStage

(* The arithmetic of the clock: where StreamGrace < ShutdownTimeout is used. *)
LEMMA Clock ==
    ASSUME elapsed \in 0..ShutdownTimeout
    PROVE  /\ Tick => elapsed' \in 0..ShutdownTimeout /\ (elapsed' > StreamGrace => elapsed >= StreamGrace)
           /\ elapsed >= ShutdownTimeout => elapsed > StreamGrace
BY GatewayAssumption DEF Tick

(* The deadline of Shutdown comes after the grace, and the grace cancels. *)
LEMMA MainTimers == TypeOK /\ Parts /\ MainStep => Timers'
<1> SUFFICES ASSUME TypeOK, Parts, MainStep PROVE Timers'
  OBVIOUS
<1>1. (elapsed > StreamGrace => cancelled) /\ (abandoned # {} => cancelled /\ "http" \in stopErr)
  BY Zenon DEF Parts, Timers, CancelledBeforeAbandoned
<1>2. elapsed \in 0..ShutdownTimeout
  BY DEF TypeOK
<1>3. stopErr \subseteq stopErr'
  BY MainFrame
<1>4. CASE UNCHANGED <<elapsed, cancelled, abandoned>>
  BY <1>1, <1>3, <1>4 DEF Timers, CancelledBeforeAbandoned
<1>5. CASE GraceEnds
  <2>1. cancelled' = TRUE /\ abandoned' = abandoned
    BY <1>5 DEF GraceEnds
  <2> QED BY <1>1, <1>3, <2>1 DEF Timers, CancelledBeforeAbandoned
<1>6. CASE HttpDeadline
  <2>1. elapsed >= ShutdownTimeout /\ elapsed' = elapsed /\ cancelled' = cancelled /\ "http" \in stopErr'
    BY <1>6 DEF HttpDeadline, EndStage
  <2>2. cancelled
    BY <1>1, <1>2, <2>1, Clock
  <2> QED BY <2>1, <2>2, Zenon DEF Timers, CancelledBeforeAbandoned
<1>7. CASE Tick
  <2>1. (elapsed >= StreamGrace => cancelled) /\ cancelled' = cancelled /\ abandoned' = abandoned
    BY <1>7 DEF Tick
  <2>2. elapsed' > StreamGrace => elapsed >= StreamGrace
    BY <1>2, <1>7, Clock
  <2> QED BY <1>1, <1>3, <2>1, <2>2, Zenon DEF Timers, CancelledBeforeAbandoned
<1> QED BY <1>4, <1>5, <1>6, <1>7, MainClock

(* The http stage ends with no handler, or abandons those there are. *)
LEMMA MainKept == TypeOK /\ Parts /\ MainStep => Kept'
<1> SUFFICES ASSUME TypeOK, Parts, MainStep PROVE Kept'
  OBVIOUS
<1>p. Order /\ Quiet /\ Stops /\ Kept
  BY DEF Parts
<1>f. /\ UNCHANGED <<phase, records, charges, events, faults, failed>>
      /\ \A j \in Jobs : job'[j] = "exited" => job[j] = "exited"
  BY MainFrame
<1>b. Busy' = Busy /\ \A j \in RunAtStop, r \in Requests : Outcome(j, r)' = Outcome(j, r)
  BY <1>f DEF Busy, Outcome
<1>c. RunAtStop \subseteq Jobs
  BY Names DEF RunAtStop
<1>1. CASE HttpDeadline
  <2>1. main = "http" /\ abandoned' = Busy
    BY <1>1 DEF HttpDeadline
  <2>2. \A j \in Jobs : job[j] # "exited"
    BY <1>p, <2>1, Names DEF Stops, AfterMetrics, AfterGovernance, AfterCatalog
  <2> QED BY <1>p, <1>f, <1>b, <1>c, <2>1, <2>2 DEF Kept
<1>2. CASE ~HttpDeadline
  <2>1. abandoned' = abandoned
    BY <1>2, MainClock DEF GraceEnds, Tick
  <2>2. main' \in AfterHttp => Busy \subseteq abandoned
    <3>1. CASE main \in AfterHttp
      BY <1>p, <3>1 DEF Kept
    <3>2. CASE HttpDrained
      BY <3>2 DEF HttpDrained
    <3>3. CASE SkipStage /\ main = "http"
      <4>1. http = "down"
        BY <1>p, <3>3 DEF SkipStage, HasStage, Order
      <4> QED BY <1>p, <4>1 DEF Quiet, Busy
    <3>4. main' \in AfterHttp => main \in AfterHttp \/ HttpDrained \/ (SkipStage /\ main = "http")
      <4>1. CASE \E g \in Groups : StartGroup(g)
        <5>1. PICK g \in Groups : main' = AfterStart[g] \/ main' = "http"
          BY <4>1 DEF StartGroup
        <5> QED BY <5>1, Names DEF AfterHttp
      <4>2. CASE \E g \in Groups : DrainBegin(g) \/ DrainEnd(g) \/ DrainTimeout(g)
        BY <4>2, Names DEF DrainBegin, DrainEnd, DrainTimeout, AfterHttp
      <4>3. CASE SkipStage
        BY <4>3, Names DEF SkipStage, AfterHttp
      <4>4. CASE Initialize \/ StartServer \/ ServeFails \/ Signal \/ ServeError
        BY <4>4 DEF Initialize, StartServer, ServeFails, Signal, ServeError, LeaveSelect, lifecycle, AfterHttp
      <4>5. CASE GraceEnds \/ Tick \/ CloseStore \/ Return \/ Kill
        BY <4>5 DEF GraceEnds, Tick, CloseStore, Return, Kill, lifecycle, AfterHttp
      <4> QED BY <1>2, <4>1, <4>2, <4>3, <4>4, <4>5 DEF MainStep
    <3> QED BY <3>1, <3>2, <3>3, <3>4
  <2> QED BY <1>p, <1>f, <1>b, <1>c, <2>1, <2>2 DEF Kept
<1> QED BY <1>1, <1>2

-----------------------------------------------------------------------------
(* The bound on faults. *)
LEMMA MishapBounded ==
    ASSUME faults \in 0..MaxFaults, Mishap \/ UNCHANGED faults
    PROVE  faults' \in 0..MaxFaults
BY GatewayAssumption DEF Mishap

(* Items that move: the others stay, and the function keeps its type. *)
LEMMA Moved ==
    ASSUME NEW f \in [Requests -> Usage!Statuses], NEW g, NEW S, NEW to \in Usage!Statuses,
           g = [i \in Requests |-> IF i \in S THEN to ELSE f[i]]
    PROVE  /\ g \in [Requests -> Usage!Statuses]
           /\ \A q \in Requests : g[q] = IF q \in S THEN to ELSE f[q]
OBVIOUS

(* What a step of a request does to what it leaves behind: to its own      *)
(* items, except that a charge of another may be lost.                     *)
LEMMA RequestMoves ==
    ASSUME TypeOK, Request
    PROVE  \E r \in Requests :
             /\ Alive
             /\ \/ phase[r] = "none" /\ http \in {"listening", "failed", "closing"}
                \/ phase[r] \in {"open", "settling"} /\ phase'[r] \in {"settling", "ended"}
             /\ phase' \in [Requests -> {"none", "open", "settling", "ended"}]
             /\ {records', charges', events'} \subseteq [Requests -> Usage!Statuses]
             /\ faults' \in 0..MaxFaults
             /\ \A q \in Requests \ {r} : phase'[q] = phase[q] /\ records'[q] = records[q]
                                          /\ charges'[q] \in {charges[q], "lost"} /\ events'[q] = events[q]
             /\ phase[r] = "none" => records' = records /\ charges' = charges /\ events' = events
             /\ records'[r] = "lost" => records[r] = "lost"
             /\ events'[r] = "lost" => events[r] = "lost"
             /\ metrics = "none" => events' = events
<1>0. /\ phase \in [Requests -> {"none", "open", "settling", "ended"}]
      /\ records \in [Requests -> Usage!Statuses] /\ charges \in [Requests -> Usage!Statuses]
      /\ events \in [Requests -> Usage!Statuses]
      /\ http \in {"down", "listening", "failed", "closing", "closed"}
      /\ faults \in 0..MaxFaults
  BY DEF TypeOK
<1>1. PICK r \in Requests : Arrive(r) \/ Settle(r) \/ EndRequest(r) \/ DeleteBudget(r)
  BY DEF Request
<1>s. "held" \in Usage!Statuses /\ "refused" \in Usage!Statuses /\ "lost" \in Usage!Statuses
  BY DEF Usage!Statuses
<1>f. faults' \in 0..MaxFaults
  <2>1. Mishap \/ UNCHANGED faults
    BY <1>1 DEF Arrive, Settle, EndRequest, DeleteBudget
  <2> QED BY <1>0, <2>1, MishapBounded
<1>2. CASE Arrive(r)
  BY <1>0, <1>2, <1>f DEF Arrive, Handler, kept
<1>3. CASE Settle(r)
  <2>0. PICK record \in {"held", "refused"}, charge \in {"held", "refused"} :
           /\ records' = [i \in Requests |-> IF i \in {r} THEN record ELSE records[i]]
           /\ charges' = [i \in Requests |-> IF i \in {r} THEN charge ELSE charges[i]]
    BY <1>3 DEF Settle, Usage!Move, Spend!Move
  <2>1. Alive /\ phase[r] = "open" /\ phase' = [phase EXCEPT ![r] = "settling"] /\ events' = events
    BY <1>3 DEF Settle, Handler
  <2>2. record \in Usage!Statuses /\ charge \in Usage!Statuses
    BY <1>s, <2>0
  <2>3. /\ records' \in [Requests -> Usage!Statuses] /\ charges' \in [Requests -> Usage!Statuses]
        /\ \A q \in Requests : records'[q] = IF q \in {r} THEN record ELSE records[q]
        /\ \A q \in Requests : charges'[q] = IF q \in {r} THEN charge ELSE charges[q]
    BY <1>0, <2>0, <2>2, Moved
  <2>4. /\ phase' \in [Requests -> {"none", "open", "settling", "ended"}] /\ phase'[r] = "settling"
        /\ \A q \in Requests \ {r} : phase'[q] = phase[q]
    BY <1>0, <2>1
  <2>5. records'[r] # "lost"
    BY <2>0, <2>3
  <2> QED BY <1>0, <1>f, <2>1, <2>3, <2>4, <2>5
<1>4. CASE EndRequest(r)
  <2>1. /\ Alive /\ phase[r] \in {"open", "settling"} /\ phase' = [phase EXCEPT ![r] = "ended"]
        /\ records' = records /\ charges' = charges /\ (metrics = "none" => events' = events)
        /\ \/ events' = events
           \/ \E event \in {"held", "refused"} : events' = [i \in Requests |-> IF i \in {r} THEN event ELSE events[i]]
    BY <1>4 DEF EndRequest, Handler, Event!Move
  <2>2. /\ phase' \in [Requests -> {"none", "open", "settling", "ended"}] /\ phase'[r] = "ended"
        /\ \A q \in Requests \ {r} : phase'[q] = phase[q]
    BY <1>0, <2>1
  <2>3. /\ events' \in [Requests -> Usage!Statuses] /\ \A q \in Requests \ {r} : events'[q] = events[q]
        /\ events'[r] = "lost" => events[r] = "lost"
    <3>1. CASE events' = events
      BY <1>0, <3>1
    <3>2. ASSUME NEW event \in {"held", "refused"}, events' = [i \in Requests |-> IF i \in {r} THEN event ELSE events[i]]
          PROVE  /\ events' \in [Requests -> Usage!Statuses] /\ \A q \in Requests \ {r} : events'[q] = events[q]
                 /\ events'[r] = "lost" => events[r] = "lost"
      <4>1. event \in Usage!Statuses
        BY <1>s
      <4>2. events' \in [Requests -> Usage!Statuses]
            /\ \A q \in Requests : events'[q] = IF q \in {r} THEN event ELSE events[q]
        BY <1>0, <3>2, <4>1, Moved
      <4> QED BY <4>2
    <3> QED BY <2>1, <3>1, <3>2
  <2> QED BY <1>0, <1>f, <2>1, <2>2, <2>3
<1>5. CASE DeleteBudget(r)
  <2>1. /\ Alive /\ phase[r] = "open" /\ phase' = [phase EXCEPT ![r] = "ended"]
        /\ records' = records /\ events' = events
    BY <1>5 DEF DeleteBudget, Handler
  <2>2. /\ phase' \in [Requests -> {"none", "open", "settling", "ended"}] /\ phase'[r] = "ended"
        /\ \A q \in Requests \ {r} : phase'[q] = phase[q]
    BY <1>0, <2>1
  <2>3. charges' \in [Requests -> Usage!Statuses] /\ \A q \in Requests : charges'[q] \in {charges[q], "lost"}
    <3>1. CASE charges' = charges
      BY <1>0, <3>1
    <3>2. ASSUME NEW S, charges' = [i \in Requests |-> IF i \in S THEN "lost" ELSE charges[i]]
          PROVE  charges' \in [Requests -> Usage!Statuses] /\ \A q \in Requests : charges'[q] \in {charges[q], "lost"}
      BY <1>0, <1>s, <3>2
    <3>3. charges' = charges \/ \E S \in SUBSET Held(charges) :
                                   charges' = [i \in Requests |-> IF i \in S THEN "lost" ELSE charges[i]]
      BY <1>5 DEF DeleteBudget, Spend!Move
    <3> QED BY <3>1, <3>2, <3>3
  <2> QED BY <1>0, <1>f, <2>1, <2>2, <2>3
<1> QED BY <1>1, <1>2, <1>3, <1>4, <1>5

(* A handler runs only once the server has listened. *)
LEMMA RequestQuiet == TypeOK /\ Parts /\ Request => Quiet'
<1> SUFFICES ASSUME TypeOK, Parts, Request PROVE Quiet'
  OBVIOUS
<1>1. http' = http /\ metrics' = metrics
  BY RequestFrame
<1>2. Quiet
  BY DEF Parts
<1>3. http # "down"
  BY <1>2, RequestMoves DEF Quiet
<1>4. metrics = "none" => events' = events
  BY RequestMoves
<1> QED BY <1>1, <1>2, <1>3, <1>4 DEF Quiet

(* What is left behind after a last run is left by abandoned requests. *)
LEMMA RequestKept == TypeOK /\ Parts /\ Request => Kept'
<1> SUFFICES ASSUME TypeOK, Parts, Request PROVE Kept'
  OBVIOUS
<1>p. Order /\ Stops /\ Kept
  BY DEF Parts
<1>1. main' = main /\ job' = job /\ abandoned' = abandoned /\ failed' = failed
  BY RequestFrame
<1>2. PICK r \in Requests :
             /\ Alive
             /\ \/ phase[r] = "none" /\ http \in {"listening", "failed", "closing"}
                \/ phase[r] \in {"open", "settling"} /\ phase'[r] \in {"settling", "ended"}
             /\ \A q \in Requests \ {r} : phase'[q] = phase[q] /\ records'[q] = records[q]
                                          /\ charges'[q] \in {charges[q], "lost"} /\ events'[q] = events[q]
             /\ phase[r] = "none" => records' = records /\ charges' = charges /\ events' = events
             /\ records'[r] = "lost" => records[r] = "lost"
             /\ events'[r] = "lost" => events[r] = "lost"
  BY RequestMoves
<1>3. main \in AfterHttp => r \in Busy
  BY <1>2, <1>p DEF Order, Busy
<1>4. main \in AfterHttp => Busy' \subseteq Busy
  BY <1>2, <1>3 DEF Busy
<1>5. ASSUME NEW j \in RunAtStop, NEW q \in Requests \ abandoned, job[j] = "exited", Outcome(j, q)' = "held"
      PROVE  <<j, "last">> \in failed
  <2>0. j \in {"usage_flush", "budget_flush_roll", "events_flush"}
    BY DEF RunAtStop
  <2>1. main \in AfterHttp
    <3>1. main \notin {"exited", "killed"}
      BY <1>2 DEF Alive
    <3> QED BY <1>p, <1>5, <2>0, <3>1 DEF Stops, AfterHttp, AfterMetrics, AfterGovernance, AfterCatalog
  <2>2. q # r
    BY <1>3, <1>p, <2>1, <1>5 DEF Kept
  <2>3. records'[q] = records[q] /\ charges'[q] \in {charges[q], "lost"} /\ events'[q] = events[q]
    BY <1>2, <2>2
  <2>4. Outcome(j, q) = "held"
    BY <1>5, <2>0, <2>3 DEF Outcome
  <2> QED BY <1>p, <1>5, <2>4 DEF Kept
<1>6. \A q \in Requests : (records'[q] = "lost" => records[q] = "lost") /\ (events'[q] = "lost" => events[q] = "lost")
  BY <1>2
<1> QED BY <1>p, <1>1, <1>4, <1>5, <1>6 DEF Kept

(* The parts that only main and the jobs can disturb. *)
LEMMA RequestParts == TypeOK /\ Parts /\ Request => Parts'
<1> SUFFICES ASSUME TypeOK, Parts, Request PROVE Parts'
  OBVIOUS
<1>1. UNCHANGED <<main, isRunning, source, metrics, job, stop, http, elapsed, cancelled, abandoned, stopErr, failed>>
  BY RequestFrame
<1>2. Order' /\ Ready' /\ Stops' /\ Loops' /\ StoresOutliveJobs' /\ Timers'
  <2>1. Order'
    BY <1>1 DEF Parts, Order
  <2>2. Ready'
    BY <1>1 DEF Parts, Ready
  <2>3. Stops'
    BY <1>1 DEF Parts, Stops
  <2>4. Loops'
    BY <1>1 DEF Parts, Loops
  <2>5. StoresOutliveJobs'
    BY <1>1 DEF Parts, StoresOutliveJobs
  <2>6. Timers'
    BY <1>1 DEF Parts, Timers, CancelledBeforeAbandoned
  <2> QED BY <2>1, <2>2, <2>3, <2>4, <2>5, <2>6
<1> QED BY <1>2, RequestQuiet, RequestKept DEF Parts

-----------------------------------------------------------------------------
(* What a run of a job does. *)
LEMMA RunMoves ==
    ASSUME TypeOK, NEW j \in Jobs, Run(j)
    PROVE  /\ Alive /\ job[j] = "loop"
           /\ \A k \in Jobs : job'[k] = job[k] \/ (k = j /\ job'[k] = "exited" /\ Stopped(j))
           /\ job' \in [Jobs -> {"none", "loop", "exited"}]
           /\ failed \subseteq failed' /\ failed' \subseteq Jobs \X {"tick", "last"}
<1>1. job \in [Jobs -> {"none", "loop", "exited"}] /\ failed \subseteq Jobs \X {"tick", "last"}
  BY DEF TypeOK
<1>2. Alive /\ job[j] = "loop" /\ (job' = job \/ (Stopped(j) /\ job' = [job EXCEPT ![j] = "exited"]))
  BY DEF Run, RunJob
<1>3. failed' = failed \/ failed' = failed \union {<<j, IF Stopped(j) THEN "last" ELSE "tick">>}
  BY DEF Run, RunJob, Fail
<1>4. (IF Stopped(j) THEN "last" ELSE "tick") \in {"tick", "last"}
  OBVIOUS
<1> QED BY <1>1, <1>2, <1>3, <1>4

(* A run that moves items moves held ones, of one kind. *)
MovesHeld(f, g, to) ==
    \E S \in SUBSET Held(f) : g = [i \in Requests |-> IF i \in S THEN to ELSE f[i]]

LEMMA HeldMoved ==
    ASSUME NEW f \in [Requests -> Usage!Statuses], NEW g, NEW to \in Usage!Statuses, MovesHeld(f, g, to)
    PROVE  /\ g \in [Requests -> Usage!Statuses]
           /\ \A r \in Requests : g[r] = f[r] \/ (f[r] = "held" /\ g[r] = to)
BY DEF MovesHeld, Held

(* What a run does to the items: none changes but one that was held, and   *)
(* only a failing run gives up a record or an event.                       *)
RunKinds(j) ==
    /\ records' = records \/ (j = "usage_flush" /\ MovesHeld(records, records', "stored"))
         \/ (j = "usage_flush" /\ Fail(j) /\ MovesHeld(records, records', "lost"))
    /\ charges' = charges \/ MovesHeld(charges, charges', "stored") \/ MovesHeld(charges, charges', "lost")
    /\ events' = events \/ (j = "events_flush" /\ MovesHeld(events, events', "stored"))
         \/ (j = "events_flush" /\ Fail(j) /\ MovesHeld(events, events', "lost"))

LEMMA RunMovesHeld == ASSUME NEW j \in Jobs, Run(j) PROVE RunKinds(j)
<1>1. CASE Write(j)
  <2>1. CASE j = "usage_flush"
    BY <1>1, <2>1 DEF Write, RunKinds, MovesHeld, Usage!Move
  <2>2. CASE j = "budget_flush_roll"
    BY <1>1, <2>2 DEF Write, RunKinds, MovesHeld, Spend!Move
  <2>3. CASE j = "events_flush"
    BY <1>1, <2>3 DEF Write, RunKinds, MovesHeld, Event!Move
  <2>4. CASE j = "budget_sync"
    BY <1>1, <2>4 DEF Write, RunKinds, MovesHeld, Spend!Move
  <2> QED BY <1>1, <2>1, <2>2, <2>3, <2>4 DEF Write
<1>2. CASE Fail(j)
  <2>1. CASE FailKeeps(j)
    BY <2>1 DEF FailKeeps, RunKinds, kept
  <2>2. CASE FailKeepsPart(j)
    <3>1. CASE j = "usage_flush"
      BY <1>2, <2>2, <3>1 DEF FailKeepsPart, RunKinds, MovesHeld, Usage!Move
    <3>2. CASE j = "events_flush"
      BY <1>2, <2>2, <3>2 DEF FailKeepsPart, RunKinds, MovesHeld, Event!Move
    <3>3. CASE j = "budget_flush_roll"
      BY <1>2, <2>2, <3>3 DEF FailKeepsPart, RunKinds, MovesHeld, Spend!Move
    <3> QED BY <2>2, <3>1, <3>2, <3>3 DEF FailKeepsPart
  <2> QED BY <1>2, <2>1, <2>2 DEF Fail
<1>3. CASE UNCHANGED kept
  BY <1>3 DEF RunKinds, kept
<1> QED BY <1>1, <1>2, <1>3 DEF Run, RunJob

(* The items after a run. *)
LEMMA RunItems ==
    ASSUME TypeOK, NEW j \in Jobs, Run(j)
    PROVE  /\ records' \in [Requests -> Usage!Statuses] /\ charges' \in [Requests -> Usage!Statuses]
           /\ events' \in [Requests -> Usage!Statuses]
           /\ \A r \in Requests :
                 /\ records'[r] = records[r] \/ (records[r] = "held" /\ records'[r] \in {"stored", "lost"})
                 /\ charges'[r] = charges[r] \/ (charges[r] = "held" /\ charges'[r] \in {"stored", "lost"})
                 /\ events'[r] = events[r] \/ (events[r] = "held" /\ events'[r] \in {"stored", "lost"})
                 /\ records'[r] = "lost" => records[r] = "lost" \/ (j = "usage_flush" /\ Fail(j))
                 /\ events'[r] = "lost" => events[r] = "lost" \/ (j = "events_flush" /\ Fail(j))
<1>1. /\ records \in [Requests -> Usage!Statuses] /\ charges \in [Requests -> Usage!Statuses]
      /\ events \in [Requests -> Usage!Statuses]
  BY DEF TypeOK
<1>2. RunKinds(j)
  BY RunMovesHeld
<1>3. "stored" \in Usage!Statuses /\ "lost" \in Usage!Statuses
  BY DEF Usage!Statuses
<1>4. /\ records' \in [Requests -> Usage!Statuses]
      /\ \A r \in Requests :
            /\ records'[r] = records[r] \/ (records[r] = "held" /\ records'[r] \in {"stored", "lost"})
            /\ records'[r] = "lost" => records[r] = "lost" \/ (j = "usage_flush" /\ Fail(j))
  <2>1. CASE records' = records
    BY <1>1, <2>1
  <2>2. CASE MovesHeld(records, records', "stored")
    BY <1>1, <1>3, <2>2, HeldMoved
  <2>3. CASE j = "usage_flush" /\ Fail(j) /\ MovesHeld(records, records', "lost")
    BY <1>1, <1>3, <2>3, HeldMoved
  <2> QED BY <1>2, <2>1, <2>2, <2>3 DEF RunKinds
<1>5. /\ charges' \in [Requests -> Usage!Statuses]
      /\ \A r \in Requests : charges'[r] = charges[r] \/ (charges[r] = "held" /\ charges'[r] \in {"stored", "lost"})
  <2>1. CASE charges' = charges
    BY <1>1, <2>1
  <2>2. CASE MovesHeld(charges, charges', "stored")
    BY <1>1, <1>3, <2>2, HeldMoved
  <2>3. CASE MovesHeld(charges, charges', "lost")
    BY <1>1, <1>3, <2>3, HeldMoved
  <2> QED BY <1>2, <2>1, <2>2, <2>3 DEF RunKinds
<1>6. /\ events' \in [Requests -> Usage!Statuses]
      /\ \A r \in Requests :
            /\ events'[r] = events[r] \/ (events[r] = "held" /\ events'[r] \in {"stored", "lost"})
            /\ events'[r] = "lost" => events[r] = "lost" \/ (j = "events_flush" /\ Fail(j))
  <2>1. CASE events' = events
    BY <1>1, <2>1
  <2>2. CASE MovesHeld(events, events', "stored")
    BY <1>1, <1>3, <2>2, HeldMoved
  <2>3. CASE j = "events_flush" /\ Fail(j) /\ MovesHeld(events, events', "lost")
    BY <1>1, <1>3, <2>3, HeldMoved
  <2> QED BY <1>2, <2>1, <2>2, <2>3 DEF RunKinds
<1> QED BY <1>4, <1>5, <1>6

(* The last run of a job leaves nothing in memory or has failed. *)
LEMMA LastRun ==
    ASSUME TypeOK, NEW j \in RunAtStop, Run(j), Stopped(j), NEW r \in Requests, Outcome(j, r)' = "held"
    PROVE  <<j, "last">> \in failed'
<1>0. j \in {"usage_flush", "budget_flush_roll", "events_flush"}
  BY DEF RunAtStop
<1>1. CASE Write(j)
  <2>1. CASE j = "usage_flush"
    <3>1. records' = [i \in Requests |-> IF i \in Held(records) THEN "stored" ELSE records[i]]
      BY <1>1, <2>1 DEF Write, Usage!Move
    <3> QED BY <2>1, <3>1 DEF Outcome, Held
  <2>2. CASE j = "budget_flush_roll"
    <3>1. charges' = [i \in Requests |-> IF i \in Held(charges) THEN "stored" ELSE charges[i]]
      BY <1>1, <2>2 DEF Write, Spend!Move
    <3> QED BY <2>2, <3>1 DEF Outcome, Held
  <2>3. CASE j = "events_flush"
    <3>1. events' = [i \in Requests |-> IF i \in Held(events) THEN "stored" ELSE events[i]]
      BY <1>1, <2>3 DEF Write, Event!Move
    <3> QED BY <2>3, <3>1 DEF Outcome, Held
  <2> QED BY <1>0, <2>1, <2>2, <2>3
<1>2. CASE Fail(j)
  BY <1>2 DEF Fail
<1>3. CASE Empty(j) /\ UNCHANGED kept
  BY <1>0, <1>3 DEF Empty, Outcome, Held, kept
<1> QED BY <1>1, <1>2, <1>3 DEF Run, RunJob

LEMMA RunKept == ASSUME TypeOK, Parts, NEW j \in Jobs, Run(j) PROVE Kept'
<1>p. Kept
  BY DEF Parts
<1>1. main' = main /\ abandoned' = abandoned /\ phase' = phase
  BY RunFrame
<1>2. Busy' = Busy
  BY <1>1 DEF Busy
<1>f. failed \subseteq failed'
  BY RunMoves
<1>3. ASSUME NEW k \in RunAtStop, NEW r \in Requests \ abandoned, job'[k] = "exited", Outcome(k, r)' = "held"
      PROVE  <<k, "last">> \in failed'
  <2>0. k \in {"usage_flush", "budget_flush_roll", "events_flush"} /\ k \in Jobs
    BY Names DEF RunAtStop
  <2>1. Outcome(k, r) = "held"
    BY <1>3, <2>0, RunItems DEF Outcome
  <2>2. CASE job[k] = "exited"
    BY <1>p, <1>f, <2>1, <2>2 DEF Kept
  <2>3. CASE job[k] # "exited"
    <3>1. k = j /\ Stopped(j)
      BY <1>3, <2>0, <2>3, RunMoves
    <3> QED BY <1>3, <3>1, LastRun
  <2> QED BY <2>2, <2>3
<1>4. ASSUME NEW r \in Requests, records'[r] = "lost"
      PROVE  {<<"usage_flush", "tick">>, <<"usage_flush", "last">>} \intersect failed' # {}
  <2>1. CASE records[r] = "lost"
    BY <1>p, <1>f, <2>1 DEF Kept
  <2>2. CASE j = "usage_flush" /\ Fail(j)
    BY <2>2 DEF Fail
  <2> QED BY <1>4, <2>1, <2>2, RunItems
<1>5. ASSUME NEW r \in Requests, events'[r] = "lost"
      PROVE  {<<"events_flush", "tick">>, <<"events_flush", "last">>} \intersect failed' # {}
  <2>1. CASE events[r] = "lost"
    BY <1>p, <1>f, <2>1 DEF Kept
  <2>2. CASE j = "events_flush" /\ Fail(j)
    BY <2>2 DEF Fail
  <2> QED BY <1>5, <2>1, <2>2, RunItems
<1>6. main' \in AfterHttp => Busy' \subseteq abandoned'
  BY <1>p, <1>1, <1>2 DEF Kept
<1> QED BY <1>1, <1>3, <1>4, <1>5, <1>6 DEF Kept

(* A run of a job preserves the parts. *)
LEMMA RunParts == ASSUME TypeOK, Parts, NEW j \in Jobs, Run(j) PROVE Parts'
<1>1. /\ main' = main /\ isRunning' = isRunning /\ source' = source /\ metrics' = metrics /\ stop' = stop
      /\ http' = http /\ elapsed' = elapsed /\ cancelled' = cancelled /\ abandoned' = abandoned
      /\ phase' = phase /\ stopErr' = stopErr
  BY RunFrame
<1>2. \A k \in Jobs : job'[k] = job[k] \/ (job[k] = "loop" /\ job'[k] = "exited" /\ GroupOf[k] \in stop)
  <2>1. /\ job[j] = "loop"
        /\ \A k \in Jobs : job'[k] = job[k] \/ (k = j /\ job'[k] = "exited" /\ Stopped(j))
    BY RunMoves
  <2> QED BY <2>1, Zenon DEF Stopped
<1>j. {"budget_sync", "virtual_keys_sync", "usage_flush", "budget_flush_roll", "events_flush", "catalog_sync"} \subseteq Jobs
  BY Names, Zenon
<1>p. Order /\ Ready /\ Quiet /\ Stops /\ Loops /\ StoresOutliveJobs /\ Timers
  BY DEF Parts
<1>3. Order'
  BY <1>1, <1>p, Zenon DEF Order
<1>4. Ready'
  <2>1. \A k \in Jobs : job'[k] = "none" <=> job[k] = "none"
    BY <1>2
  <2> QED BY <1>1, <1>j, <1>p, <2>1 DEF Ready
<1>5. Quiet'
  <2>1. \A r \in Requests : /\ records[r] = "new" => records'[r] = "new"
                            /\ charges[r] = "new" => charges'[r] = "new"
                            /\ events[r] = "new" => events'[r] = "new"
    <3>1. \A r \in Requests :
             /\ records'[r] = records[r] \/ (records[r] = "held" /\ records'[r] \in {"stored", "lost"})
             /\ charges'[r] = charges[r] \/ (charges[r] = "held" /\ charges'[r] \in {"stored", "lost"})
             /\ events'[r] = events[r] \/ (events[r] = "held" /\ events'[r] \in {"stored", "lost"})
      BY RunItems, Zenon
    <3>2. "held" # "new"
      OBVIOUS
    <3> QED BY <3>1, <3>2, Zenon
  <2> QED BY <1>1, <1>p, <2>1, Zenon DEF Quiet
<1>6. Stops'
  BY <1>1, <1>2, <1>p, Names DEF Stops
<1>7. Loops'
  <2>1. \A k \in Jobs : job'[k] = "loop" => job[k] = "loop"
    BY <1>2
  <2> QED BY <1>1, <1>j, <1>p, <2>1 DEF Loops
<1>8. StoresOutliveJobs'
  BY <1>1, <1>2, <1>p DEF StoresOutliveJobs
<1>9. Timers'
  BY <1>1, <1>p, Zenon DEF Timers, CancelledBeforeAbandoned
<1> QED BY <1>3, <1>4, <1>5, <1>6, <1>7, <1>8, <1>9, RunKept DEF Parts

-----------------------------------------------------------------------------
(* A run keeps to the bound on faults. *)
LEMMA FaultsBounded ==
    ASSUME TypeOK, NEW j \in Jobs, Run(j)
    PROVE  faults' \in 0..MaxFaults
<1>1. faults \in 0..MaxFaults
  BY DEF TypeOK
<1>2. Mishap \/ UNCHANGED faults
  BY DEF Run, RunJob, Fail
<1> QED BY <1>1, <1>2, MishapBounded

(* The types after a step of main, by kind of variable. *)
LEMMA MainTypes ==
    ASSUME TypeOK, MainStep
    PROVE  /\ main' \in Booting \union {"serving", "exit", "exited", "killed"} \union Stages
           /\ source' \in {"none", "open", "closed"} /\ metrics' \in {"none", "open", "closed"}
           /\ http' \in {"down", "listening", "failed", "closing", "closed"}
           /\ job' \in [Jobs -> {"none", "loop", "exited"}]
           /\ stop' \subseteq Groups /\ stopErr' \subseteq Stages /\ abandoned' \subseteq Requests
<1> USE Names DEF server, lifecycle, EndStage
<1>0. /\ main \in Booting \union {"serving", "exit", "exited", "killed"} \union Stages
      /\ source \in {"none", "open", "closed"} /\ metrics \in {"none", "open", "closed"}
      /\ http \in {"down", "listening", "failed", "closing", "closed"}
      /\ job \in [Jobs -> {"none", "loop", "exited"}]
      /\ stop \subseteq Groups /\ stopErr \subseteq Stages /\ abandoned \subseteq Requests
  BY DEF TypeOK, Booting
<1>1. main' \in Booting \union {"serving", "exit", "exited", "killed"} \union Stages
  <2>1. CASE Initialize \/ (\E g \in Groups : StartGroup(g)) \/ StartServer \/ ServeFails
    <3>1. CASE Initialize \/ StartServer
      BY <3>1 DEF Initialize, StartServer, Booting
    <3>2. CASE ServeFails
      BY <1>0, <3>2 DEF ServeFails
    <3>3. CASE \E g \in Groups : StartGroup(g)
      <4>0. PICK g \in Groups : main' = AfterStart[g] \/ main' = "http"
        BY <3>3 DEF StartGroup
      <4>1. main' \in {"start governance", "start metrics", "start server", "http"}
        BY <4>0
      <4> QED BY <4>1 DEF Booting
    <3> QED BY <2>1, <3>1, <3>2, <3>3
  <2>2. CASE Signal \/ ServeError \/ GraceEnds \/ Tick \/ Return \/ Kill
    BY <1>0, <2>2 DEF Signal, ServeError, LeaveSelect, GraceEnds, Tick, Return, Kill
  <2>3. CASE \E g \in Groups : DrainBegin(g)
    BY <1>0, <2>3 DEF DrainBegin
  <2>4. CASE \E s \in Stages : main' = AfterStop[s]
    BY <2>4
  <2>5. SkipStage \/ HttpDrained \/ HttpDeadline \/ CloseStore => \E s \in Stages : main' = AfterStop[s]
    BY DEF SkipStage, HttpDrained, HttpDeadline, CloseStore
  <2>6. (\E g \in Groups : DrainEnd(g) \/ DrainTimeout(g)) => \E s \in Stages : main' = AfterStop[s]
    BY DEF DrainEnd, DrainTimeout
  <2> QED BY <2>1, <2>2, <2>3, <2>4, <2>5, <2>6 DEF MainStep
<1>2. source' \in {"none", "open", "closed"} /\ metrics' \in {"none", "open", "closed"}
  BY <1>0 DEF MainStep, Initialize, StartGroup, StartServer, ServeFails, Signal, ServeError, LeaveSelect, SkipStage,
         HttpDrained, GraceEnds, HttpDeadline, Tick, DrainBegin, DrainEnd, DrainTimeout, CloseMetrics, CloseStore, Return, Kill
<1>3. http' \in {"down", "listening", "failed", "closing", "closed"}
  BY <1>0 DEF MainStep, Initialize, StartGroup, StartServer, ServeFails, Signal, ServeError, LeaveSelect, SkipStage,
         HttpDrained, GraceEnds, HttpDeadline, Tick, DrainBegin, DrainEnd, DrainTimeout, CloseStore, Return, Kill
<1>4. job' \in [Jobs -> {"none", "loop", "exited"}]
  <2>1. job' = job \/ \E g \in Groups : job' = [j \in Jobs |-> IF GroupOf[j] = g THEN "loop" ELSE job[j]]
    BY DEF MainStep, Initialize, StartGroup, StartServer, ServeFails, Signal, ServeError, LeaveSelect, SkipStage,
         HttpDrained, GraceEnds, HttpDeadline, Tick, DrainBegin, DrainEnd, DrainTimeout, CloseStore, Return, Kill
  <2> QED BY <1>0, <2>1
<1>5. stop' \subseteq Groups
  BY <1>0 DEF MainStep, Initialize, StartGroup, StartServer, ServeFails, Signal, ServeError, LeaveSelect, SkipStage,
         HttpDrained, GraceEnds, HttpDeadline, Tick, DrainBegin, DrainEnd, DrainTimeout, CloseStore, Return, Kill
<1>6. stopErr' \subseteq Stages
  <2>1. \E errs \in SUBSET Stages : stopErr' = stopErr \union errs
    <3>1. CASE stopErr' = stopErr
      <4>1. stopErr' = stopErr \union {} /\ {} \in SUBSET Stages
        BY <3>1
      <4> QED BY <4>1, Zenon
    <3>2. CASE SkipStage \/ HttpDrained \/ HttpDeadline \/ CloseStore
      BY <3>2 DEF SkipStage, HttpDrained, HttpDeadline, CloseStore
    <3>3. CASE \E g \in Groups : DrainEnd(g) \/ DrainTimeout(g)
      <4>1. PICK g \in Groups : DrainEnd(g) \/ DrainTimeout(g)
        BY <3>3
      <4>2. \E errs \in {{}, {g}} : stopErr' = stopErr \union errs
        BY <4>1, Zenon DEF DrainEnd, DrainTimeout, CloseErrors
      <4>3. g \in Stages
        BY <4>1
      <4> QED BY <4>2, <4>3
    <3>4. CASE ~(SkipStage \/ HttpDrained \/ HttpDeadline \/ CloseStore \/ \E g \in Groups : DrainEnd(g) \/ DrainTimeout(g))
      <4>1. stopErr' = stopErr
        BY <3>4 DEF MainStep, Initialize, StartGroup, StartServer, ServeFails, Signal, ServeError, LeaveSelect,
                    GraceEnds, Tick, DrainBegin, Return, Kill
      <4> QED BY <3>1, <4>1
    <3> QED BY <3>2, <3>3, <3>4
  <2> QED BY <1>0, <2>1
<1>7. abandoned' \subseteq Requests
  BY <1>0, MainClock DEF GraceEnds, HttpDeadline, Tick, Busy
<1> QED BY <1>1, <1>2, <1>3, <1>4, <1>5, <1>6, <1>7

(* The Boolean variables. *)
LEMMA MainBooleans ==
    ASSUME TypeOK, MainStep
    PROVE  isRunning' \in BOOLEAN /\ cancelled' \in BOOLEAN
<1>0. isRunning \in BOOLEAN /\ cancelled \in BOOLEAN
  BY DEF TypeOK
<1>1. isRunning' = isRunning \/ isRunning' = TRUE \/ \E s \in Stages : isRunning' = (isRunning /\ s # "catalog")
  BY Names DEF MainStep, Initialize, StartGroup, StartServer, ServeFails, Signal, ServeError, LeaveSelect, SkipStage,
         HttpDrained, GraceEnds, HttpDeadline, Tick, DrainBegin, DrainEnd, DrainTimeout, CloseStore, Return, Kill, EndStage, lifecycle
<1>2. cancelled' = cancelled \/ cancelled' = TRUE
  BY MainClock DEF GraceEnds, HttpDeadline, Tick
<1> QED BY <1>0, <1>1, <1>2

(* The clock does not pass the deadline. *)
LEMMA MainElapsed ==
    ASSUME TypeOK, MainStep
    PROVE  elapsed' \in 0..ShutdownTimeout
<1>1. elapsed \in 0..ShutdownTimeout
  BY DEF TypeOK
<1>2. elapsed' = elapsed \/ Tick
  BY MainClock DEF GraceEnds, HttpDeadline
<1> QED BY <1>1, <1>2, Clock

(* Every step preserves the types... *)
LEMMA Types == TypeOK /\ Next => TypeOK'
<1> SUFFICES ASSUME TypeOK, Next PROVE TypeOK'
  OBVIOUS
<1>1. CASE MainStep
  <2>1. /\ UNCHANGED <<phase, records, charges, events, faults, failed>>
    BY <1>1, MainFrame
  <2>2. /\ phase' \in [Requests -> {"none", "open", "settling", "ended"}]
        /\ {records', charges', events'} \subseteq [Requests -> Usage!Statuses]
        /\ failed' \subseteq Jobs \X {"tick", "last"}
    BY <2>1 DEF TypeOK
  <2>3. faults' \in 0..MaxFaults
    BY <2>1 DEF TypeOK
  <2>4. {source', metrics'} \subseteq {"none", "open", "closed"}
    BY <1>1, MainTypes
  <2>5. main' \in {"initialize", "start catalog", "start governance", "start metrics", "start server",
                 "serving", "exit", "exited", "killed"} \union Stages
    BY <1>1, MainTypes DEF Booting
  <2> QED BY <1>1, <2>2, <2>3, <2>4, <2>5, MainTypes, MainBooleans, MainElapsed, Zenon DEF TypeOK
<1>2. CASE Request
  <2>1. UNCHANGED <<main, isRunning, source, metrics, job, stop, http, elapsed, cancelled, abandoned, stopErr, failed>>
    BY <1>2, RequestFrame
  <2>2. /\ phase' \in [Requests -> {"none", "open", "settling", "ended"}]
        /\ {records', charges', events'} \subseteq [Requests -> Usage!Statuses]
        /\ faults' \in 0..MaxFaults
    BY <1>2, RequestMoves
  <2> QED BY <2>1, <2>2 DEF TypeOK
<1>3. ASSUME NEW j \in Jobs, Run(j) PROVE TypeOK'
  <2>1. UNCHANGED <<main, isRunning, source, metrics, stop, http, elapsed, cancelled, abandoned, phase, stopErr>>
    BY <1>3, RunFrame
  <2>2. job' \in [Jobs -> {"none", "loop", "exited"}] /\ failed' \subseteq Jobs \X {"tick", "last"}
    BY <1>3, RunMoves
  <2>3. {records', charges', events'} \subseteq [Requests -> Usage!Statuses]
    BY <1>3, RunItems
  <2>4. faults' \in 0..MaxFaults
    BY <1>3, FaultsBounded
  <2> QED BY <2>1, <2>2, <2>3, <2>4 DEF TypeOK
<1> QED BY <1>1, <1>2, <1>3, Steps

(* ... and the parts... *)
LEMMA StepParts == TypeOK /\ Parts /\ Next => Parts'
<1> SUFFICES ASSUME TypeOK, Parts, Next PROVE Parts'
  OBVIOUS
<1>1. CASE MainStep
  BY <1>1, MainOrder, MainReady, MainQuiet, MainStops, MainLoops, MainStores, MainTimers, MainKept DEF Parts
<1>2. CASE Request
  BY <1>2, RequestParts
<1>3. ASSUME NEW j \in Jobs, Run(j) PROVE Parts'
  BY <1>3, RunParts
<1> QED BY <1>1, <1>2, <1>3, Steps

(* ... and so does doing nothing. *)
LEMMA Stutter == TypeOK /\ Parts /\ UNCHANGED vars => TypeOK' /\ Parts'
<1> SUFFICES ASSUME TypeOK, Parts, UNCHANGED vars PROVE TypeOK' /\ Parts'
  OBVIOUS
<1>1. UNCHANGED <<main, isRunning, source, metrics, job, stop, http, elapsed, cancelled, abandoned, phase,
                  records, charges, events, stopErr, faults, failed>>
  BY DEF vars, lifecycle, server, kept
<1>2. TypeOK'
  BY <1>1 DEF TypeOK
<1>3. Order' /\ Ready' /\ Quiet' /\ Stops' /\ Loops'
  <2>1. Order'
    BY <1>1 DEF Parts, Order
  <2>2. Ready' /\ Quiet'
    BY <1>1 DEF Parts, Ready, Quiet
  <2>3. Stops' /\ Loops'
    BY <1>1 DEF Parts, Stops, Loops
  <2> QED BY <2>1, <2>2, <2>3
<1>4. StoresOutliveJobs' /\ Timers'
  BY <1>1 DEF Parts, StoresOutliveJobs, Timers, CancelledBeforeAbandoned
<1>5. Kept'
  BY <1>1 DEF Parts, Kept, Busy, Outcome
<1> QED BY <1>2, <1>3, <1>4, <1>5 DEF Parts

(* The invariant that both theorems rest on. *)
LEMMA Inductive == Spec => [](TypeOK /\ Parts)
<1>1. TypeOK /\ Parts /\ [Next]_vars => TypeOK' /\ Parts'
  BY Types, StepParts, Stutter
<1> QED BY <1>1, InitParts, PTL DEF Spec

-----------------------------------------------------------------------------
(* The state of the process is sound at every moment, whatever fails and   *)
(* whenever the signal comes: gateway.go starts the server last, stops     *)
(* every group before its store unless it reports that the group did not   *)
(* end, and cancels requests before it gives up on them.  The exception is *)
(* a process whose server never started, http = "down": Stop then skips    *)
(* the catalog and governance groups, as isRunning is false, closes the    *)
(* database under their loops, and reports nothing.                        *)
THEOREM GatewayInvariance == Spec => []GatewayInv
<1>1. TypeOK /\ Parts => GatewayInv
  <2> SUFFICES ASSUME TypeOK, Parts PROVE GatewayInv
    OBVIOUS
  <2>1. ServesWhenReady
    BY Names DEF Parts, Ready, ServesWhenReady, JobsOf
  <2> QED BY <2>1 DEF Parts, Timers, GatewayInv
<1> QED BY <1>1, Inductive, PTL

(* When a Stop has come to its end nothing that a buffer or a budget had   *)
(* taken of a request is still in memory, unless the request outlived the  *)
(* server's deadline, the job's last run failed, which Stop does not       *)
(* report, or Stop reported that the job's group did not end: gateway.go   *)
(* stops the producers, the http server, before their consumers, the jobs. *)
(* What was refused, or given up by a failed run or with the entry of a    *)
(* budget, is gone by then; records and events are given up in no other    *)
(* way.                                                                    *)
THEOREM StopKeeps == Spec => []StopKeepsWork
<1>1. TypeOK /\ Parts => StopKeepsWork
  <2> SUFFICES ASSUME TypeOK, Parts, main = "exited"
               PROVE  /\ \A r \in Requests, j \in RunAtStop :
                            /\ Outcome(j, r) = "held" =>
                                  r \in abandoned \/ <<j, "last">> \in failed \/ GroupOf[j] \in stopErr
                            /\ Outcome(j, r) = "lost" /\ j # "budget_flush_roll" =>
                                  {<<j, "tick">>, <<j, "last">>} \intersect failed # {}
                      /\ Busy \subseteq abandoned
    BY DEF StopKeepsWork
  <2>1. Busy \subseteq abandoned
    BY DEF Parts, Kept, AfterHttp
  <2>2. ASSUME NEW r \in Requests, NEW j \in RunAtStop, Outcome(j, r) = "held", r \notin abandoned
        PROVE  <<j, "last">> \in failed \/ GroupOf[j] \in stopErr
    <3>0. j \in {"usage_flush", "budget_flush_roll", "events_flush"} /\ j \in Jobs
      BY Names DEF RunAtStop
    <3>1. http # "down"
      BY <2>2, <3>0 DEF Parts, Quiet, Outcome
    <3>2. job[j] \in {"none", "loop", "exited"}
      BY <3>0 DEF TypeOK
    <3>3. CASE job[j] = "none"
      <4>1. j = "events_flush" /\ metrics = "none"
        BY <3>0, <3>1, <3>3 DEF Parts, Ready
      <4> QED BY <2>2, <4>1 DEF Parts, Quiet, Outcome
    <3>4. CASE job[j] = "loop"
      BY <3>0, <3>1, <3>4, Names DEF Parts, Loops, AfterMetrics, AfterGovernance
    <3>5. CASE job[j] = "exited"
      BY <2>2, <3>5 DEF Parts, Kept
    <3> QED BY <3>2, <3>3, <3>4, <3>5
  <2>3. ASSUME NEW r \in Requests, NEW j \in RunAtStop, Outcome(j, r) = "lost", j # "budget_flush_roll"
        PROVE  {<<j, "tick">>, <<j, "last">>} \intersect failed # {}
    <3>1. CASE j = "usage_flush"
      BY <2>3, <3>1 DEF Outcome, Parts, Kept
    <3>2. CASE j = "events_flush"
      BY <2>3, <3>2 DEF Outcome, Parts, Kept
    <3> QED BY <2>3, <3>1, <3>2 DEF RunAtStop
  <2> QED BY <2>1, <2>2, <2>3
<1> QED BY <1>1, Inductive, PTL
=============================================================================
