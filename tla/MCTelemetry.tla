----------------------------- MODULE MCTelemetry -----------------------------
(***************************************************************************)
(* Telemetry on small instances.                                           *)
(***************************************************************************)
EXTENDS Telemetry, TLC

CONSTANTS t1, t2

TaskSymmetry == Permutations({t1, t2})
=============================================================================
