------------------------------ MODULE MCEvalRun ------------------------------
(***************************************************************************)
(* EvalRun on small instances.                                             *)
(***************************************************************************)
EXTENDS EvalRun

CONSTANTS h1
=============================================================================
