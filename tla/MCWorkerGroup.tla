--------------------------- MODULE MCWorkerGroup ---------------------------
(* Instance of WorkerGroup for TLC: the configs give it jobs that run at   *)
(* start, at stop, and at both.                                            *)
EXTENDS WorkerGroup
=============================================================================
