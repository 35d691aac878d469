----------------------------- MODULE MCGateway -----------------------------
(* Instance of Gateway for TLC: one chat request and one request of the    *)
(* admin API that deletes its budget, one fault, and one unit of time      *)
(* before the requests are cancelled and one after it.                     *)
EXTENDS Gateway
=============================================================================
