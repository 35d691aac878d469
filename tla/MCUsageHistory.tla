--------------------------- MODULE MCUsageHistory ---------------------------
(* Instance of UsageHistory for TLC. *)
EXTENDS UsageHistory, TLC

RecordSymmetry == Permutations(Records)
=============================================================================
