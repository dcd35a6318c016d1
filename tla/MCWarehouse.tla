---------------------------- MODULE MCWarehouse ----------------------------
(***************************************************************************)
(* Warehouse on a small instance.                                          *)
(***************************************************************************)
EXTENDS Warehouse, TLC

CONSTANTS b1, b2
BuildSymmetry == Permutations(Builds)
=============================================================================
