---------------------------- MODULE MCCheckpoint ----------------------------
(* Model values and symmetry for the runs of Checkpoint.                   *)
EXTENDS Checkpoint, TLC

CONSTANTS r1, r2, docs, main, docker

Symmetry == Permutations(Runs) \cup Permutations(Sources)
=============================================================================
