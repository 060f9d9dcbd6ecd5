--------------------------- MODULE MCEventStream ---------------------------
(* Model values for the runs of EventStream.                               *)
EXTENDS EventStream

CONSTANTS here, away
=============================================================================
