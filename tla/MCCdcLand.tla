------------------------------ MODULE MCCdcLand ------------------------------
(***************************************************************************)
(* CdcLand on small instances.                                             *)
(***************************************************************************)
EXTENDS CdcLand, TLC

CONSTANTS k1, k2, p0, p1, l1, l2

OnePartition  == [id \in Ids |-> p0]

LanderSymmetry == Permutations(Landers)
=============================================================================
