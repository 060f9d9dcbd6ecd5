----------------------------- MODULE MCJobQueue -----------------------------
(* Model values and symmetry for the runs of JobQueue.                     *)
EXTENDS JobQueue, TLC

CONSTANTS w1, w2, t1, t2

OneJob == {1}

Symmetry == Permutations(Workers) \cup Permutations(Tasks)
=============================================================================
