------------------------------ MODULE MCBudget ------------------------------
(* Model values and symmetry for the runs of Budget.                       *)
EXTENDS Budget, TLC

CONSTANTS j1, j2, r1, r2

Symmetry == Permutations(Jobs) \cup Permutations(Runs)
=============================================================================
