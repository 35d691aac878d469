---------------------------- MODULE MetricsReads ----------------------------
(***************************************************************************)
(* What the metrics engine reports of the events it wrote: the tiles, the  *)
(* series by time, the spend of a budget and the pages of the log.         *)
(*                                                                         *)
(* A count, a sum or a quantile over rows is represented by the set of the *)
(* events it is taken over.  Times are natural numbers, microseconds since *)
(* the epoch in the code; durations are multiples of Minute.               *)
(***************************************************************************)
EXTENDS MetricsEngine

CONSTANTS
    Minute,     \* units of time in a minute
    MaxWindow,  \* config.MaxWindow
    StartedAt,  \* Event.Timing.Start of each event
    Outcome,    \* what classify reads of its request
    Provider,   \* LLM.Provider, "" when the request got no model
    KeyOf,      \* Governance.VirtualKeyID, 0 when the request has none
    BudgetOf,   \* Governance.BudgetID
    Cost,       \* CostNanoUSD
    Ranges      \* the pairs <<from, to>> the queries are asked for

Outcomes == [aborted : BOOLEAN, completed : BOOLEAN, error : {"none", "client", "provider", "gateway"}]

ASSUME ReadsAssumption ==
    /\ Minute \in Nat \ {0} /\ MaxWindow \in Nat
    /\ Events \subseteq Nat      \* an event is its id, by which the log is ordered
    /\ StartedAt \in [Events -> Nat] /\ Cost \in [Events -> Nat] /\ KeyOf \in [Events -> Nat]
    /\ Outcome \in [Events -> Outcomes]
    /\ Ranges \subseteq Int \X Int

-----------------------------------------------------------------------------
(* classify, the part of Event.fill the queries read. *)

Classify(o) ==
    CASE o.aborted -> "client_abort"
      [] ~o.aborted /\ o.error = "none" /\ o.completed -> "ok"
      [] ~o.aborted /\ o.error = "client" -> "rejected"
      [] ~o.aborted /\ o.error = "provider" -> "upstream_error"
      [] OTHER -> "gateway_error"

Result(e) == Classify(Outcome[e])
IsError(e) == Result(e) \notin {"ok", "client_abort"}
IsCancelled(e) == Result(e) = "client_abort"

-----------------------------------------------------------------------------
(* The engine: which ranges it takes, and how wide its buckets are. *)

Hour == 60 * Minute
Day == 24 * Hour

CheckRange(from, to) == to - from >= Hour /\ to - from <= MaxWindow

BucketFor(r) ==
    CASE r >= 365 * Day -> 30 * Day
      [] r < 365 * Day /\ r >= 90 * Day -> 7 * Day
      [] r < 90 * Day /\ r >= 30 * Day -> 3 * Day
      [] r < 30 * Day /\ r >= 7 * Day -> Day
      [] r < 7 * Day /\ r >= 3 * Day -> 8 * Hour
      [] r < 3 * Day /\ r >= Day -> Hour
      [] r < Day /\ r >= 2 * Hour -> 10 * Minute
      [] OTHER -> Minute

-----------------------------------------------------------------------------
(* DuckDBStore. *)

(* Go's division, which rounds towards zero. *)
Quotient(a, b) == IF a >= 0 THEN a \div b ELSE -((-a) \div b)

(* bucketStart: the start of the first bucket, a multiple of the width, and *)
(* how many buckets there are.                                             *)
BucketStart(from, b) == Quotient(from, b) * b

(* Mutant: the bucket that the range ends in is not counted. *)
BucketsFloor(from, to, b) == Quotient(to - BucketStart(from, b), b)

Buckets(from, to, b) == Quotient(to - BucketStart(from, b) + b - 1, b)

Window(from, to) == {e \in table : StartedAt[e] >= from /\ StartedAt[e] < to}

(* The expression idx of the two queries by time. *)
Idx(e, from, b) == Quotient(StartedAt[e] - BucketStart(from, b), b)

GetOverviewTiles(from, to) ==
    LET w == Window(from, to)
    IN [requests |-> w, errors |-> {e \in w : IsError(e)}, cancelled |-> {e \in w : IsCancelled(e)}]

GetRequestSummaryByTime(from, to) ==
    LET b == BucketFor(to - from)
        w == Window(from, to)
        at(i) == {e \in w : Idx(e, from, b) = i}
    IN [i \in 0..(Buckets(from, to, b) - 1) |->
          [t |-> BucketStart(from, b) + i * b,
           errors |-> {e \in at(i) : IsError(e)},
           cancelled |-> {e \in at(i) : IsCancelled(e)},
           success |-> {e \in at(i) : Result(e) = "ok" /\ Provider[e] # ""}]]

GetBudgetSpendByTime(budget, from, to) ==
    LET b == BucketFor(to - from)
        w == {e \in Window(from, to) : BudgetOf[e] = budget}
    IN [i \in 0..(Buckets(from, to, b) - 1) |->
          [t |-> BucketStart(from, b) + i * b, spend |-> {e \in w : Idx(e, from, b) = i}]]

(* The log is ordered by time, latest first, and then by id.  The total is *)
(* a column of the rows, so a page past the end reports none.              *)
Newer(f, e) == StartedAt[f] > StartedAt[e] \/ (StartedAt[f] = StartedAt[e] /\ f > e)

GetRequestLogsByTime(from, to, offset, limit) ==
    LET w == Window(from, to)
        rank(e) == Cardinality({f \in w : Newer(f, e)})
        page == {e \in w : rank(e) >= offset /\ rank(e) < offset + limit}
    IN [total |-> IF page = {} THEN {} ELSE w, rows |-> page]

(* The sum of their costs, counted by the nano dollar. *)
Spent(S) == Cardinality(UNION {{e} \X (1 .. Cost[e]) : e \in S})

(* One row per key, the largest spend first, then the most requests.       *)
GetTopVirtualKeys(from, to, limit) ==
    LET w == {e \in Window(from, to) : KeyOf[e] # 0}
        of(k) == {e \in w : KeyOf[e] = k}
        spend(k) == Spent(of(k))
        keys == {KeyOf[e] : e \in w}
        before(j, k) ==
            \/ spend(j) > spend(k)
            \/ spend(j) = spend(k) /\ Cardinality(of(j)) > Cardinality(of(k))
            \/ spend(j) = spend(k) /\ Cardinality(of(j)) = Cardinality(of(k)) /\ j < k
    IN {[key |-> k, requests |-> of(k), errors |-> {e \in of(k) : IsError(e)}] :
          k \in {k \in keys : Cardinality({j \in keys : before(j, k)}) < limit}}

-----------------------------------------------------------------------------
(* Properties. *)

(* Every event of the range has a point of the series, so indexing Points  *)
(* with idx never fails, and lies in the interval the point begins.        *)
EventsHavePoints(from, to) ==
    LET b == BucketFor(to - from)
    IN \A e \in Window(from, to) :
         /\ Idx(e, from, b) \in 0..(Buckets(from, to, b) - 1)
         /\ StartedAt[e] >= BucketStart(from, b) + Idx(e, from, b) * b
         /\ StartedAt[e] < BucketStart(from, b) + (Idx(e, from, b) + 1) * b

(* The series has the tiles' errors and cancelled requests, and what is    *)
(* left is the successes: no request is in two of them, none in no point.  *)
SeriesMatchesTiles(from, to) ==
    LET tiles == GetOverviewTiles(from, to)
        series == GetRequestSummaryByTime(from, to)
        over(f) == UNION {series[i][f] : i \in DOMAIN series}
        ok == {e \in tiles.requests : Result(e) = "ok" /\ Provider[e] = ""}
    IN /\ over("errors") = tiles.errors /\ over("cancelled") = tiles.cancelled
       /\ over("success") = tiles.requests \ (tiles.errors \union tiles.cancelled \union ok)

(* The points of a budget add up to what its events in the range cost.     *)
SpendAddsUp(from, to) ==
    \A budget \in {BudgetOf[e] : e \in table} :
      LET points == GetBudgetSpendByTime(budget, from, to)
      IN UNION {points[i].spend : i \in DOMAIN points} = {e \in Window(from, to) : BudgetOf[e] = budget}

(* Turning pages of a fixed size shows each request of the range once.     *)
PagesCover(from, to) ==
    \A limit \in 1..Cardinality(Events) :
      LET pages == [n \in 0..Cardinality(Events) |-> GetRequestLogsByTime(from, to, n * limit, limit).rows]
      IN \A e \in Window(from, to) : \E n \in DOMAIN pages : {m \in DOMAIN pages : e \in pages[m]} = {n}

(* The top n keys are among the top n + 1, n rows or all of them.          *)
TopKeysNest(from, to) ==
    \A n \in 1..Cardinality(Events) :
      LET top(k) == GetTopVirtualKeys(from, to, k)
      IN /\ top(n) \subseteq top(n + 1)
         /\ Cardinality(top(n)) = n \/ top(n) = top(n + 1)

(* When every event has settled, whatever became of its writes, the       *)
(* reports over a range the engine accepts agree with one another.         *)
ReportsAgree ==
    (table \union lost \union dropped = Events) =>
        \A r \in Ranges : CheckRange(r[1], r[2]) =>
            /\ EventsHavePoints(r[1], r[2])
            /\ SeriesMatchesTiles(r[1], r[2])
            /\ SpendAddsUp(r[1], r[2])
            /\ PagesCover(r[1], r[2])
            /\ TopKeysNest(r[1], r[2])
=============================================================================
