------------------------------ MODULE MCEvalGate ------------------------------
(***************************************************************************)
(* EvalGate on a small instance.  With two examples one flip by a point    *)
(* moves a mean by a half, which has to lie between floor and declared     *)
(* threshold as 0.25, six flips of 25, does between 0.20 and 0.30.         *)
(***************************************************************************)
EXTENDS EvalGate

SmallFloors   == [m \in Metrics |-> IF m = "faithfulness_mean" THEN 40 ELSE IF m = "hit_at_5_rate" THEN 8 ELSE 0]
SmallDeclared == [m \in Metrics |-> IF m = "faithfulness_mean" THEN 60 ELSE IF m = "hit_at_5_rate" THEN 10 ELSE 0]
=============================================================================
