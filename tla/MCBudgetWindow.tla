--------------------------- MODULE MCBudgetWindow ---------------------------
(* Instance of BudgetWindow for TLC. *)
EXTENDS BudgetWindow, TLC

RequestSymmetry == Permutations(Requests)
=============================================================================
