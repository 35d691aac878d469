-------------------------- MODULE MCMetricsEngine --------------------------
(* Instance of MetricsEngine and its reports for TLC.  The unit of time is *)
(* a minute; the events lie on the edges of the ranges and of buckets.     *)
EXTENDS MetricsReads

MCStartedAt == <<7, 136, 60>>
MCOutcome ==
    <<[aborted |-> FALSE, completed |-> TRUE, error |-> "none"],
      [aborted |-> FALSE, completed |-> TRUE, error |-> "provider"],
      [aborted |-> TRUE, completed |-> FALSE, error |-> "client"]>>
MCProvider == <<"openai", "openai", "">>
MCKeyOf == <<1, 2, 1>>
MCBudgetOf == <<1, 2, 1>>
MCCost == <<1, 2, 1>>

(* Buckets of a minute, ten minutes, an hour and a day, whose multiples    *)
(* the ranges miss; a range that begins before the epoch; two refused.     *)
MCRanges ==
    {<<7, 67>>, <<-25, 137>>, <<60, 60 + 1440>>, <<1, 1 + 10080>>, <<60, 119>>, <<0, 20000>>}
=============================================================================
