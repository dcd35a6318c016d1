----------------------------- MODULE MCRagIngest -----------------------------
(***************************************************************************)
(* RagIngest on small instances.                                           *)
(***************************************************************************)
EXTENDS RagIngest, TLC

CONSTANTS d1, d2, kafka, flink, r1, r2, a, b, c

OneProject  == [d \in Docs |-> kafka]

\* Documents pinned by commit: one revision each, of three chunks and of one.
Pinned  == (d1 :> <<<<a, b, c>>>>) @@ (d2 :> <<<<a>>>>)
\* A document that changes, shrinks and grows, without showing a content twice.
Changing == (d1 :> <<<<a, b>>, <<a>>, <<c, b, a>>>>)

RunnerSymmetry == Permutations(Runners)
=============================================================================
