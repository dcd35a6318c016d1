----------------------------- MODULE MCFlinkJobs -----------------------------
(***************************************************************************)
(* FlinkJobs on small instances.                                           *)
(***************************************************************************)
EXTENDS FlinkJobs

CONSTANTS raw, agg

BothInOrder == {<<raw, agg>>, <<agg>>}
=============================================================================
