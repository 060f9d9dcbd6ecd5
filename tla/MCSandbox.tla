----------------------------- MODULE MCSandbox -----------------------------
(* Model values for the run of Sandbox.                                    *)
EXTENDS Sandbox

CONSTANTS c1, c2, h1, h2, h3
=============================================================================
