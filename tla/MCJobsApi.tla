----------------------------- MODULE MCJobsApi -----------------------------
(* Model values for the run of JobsApi and of the reads beside it.         *)
EXTENDS JobReads

CONSTANTS r1, r2, k, b1, b2, ours, theirs, s1, s2
=============================================================================
