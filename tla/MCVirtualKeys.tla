--------------------------- MODULE MCVirtualKeys ---------------------------
(* Instance of VirtualKeys for TLC; without symmetry, as it checks liveness. *)
EXTENDS VirtualKeys
=============================================================================
