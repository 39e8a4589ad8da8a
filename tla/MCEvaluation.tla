---------------------------- MODULE MCEvaluation ----------------------------
(* Instances of EvaluationEngine for TLC. *)
EXTENDS EvaluationEngine

CONSTANTS j1, j2, j3, j4

TwoJobs == {j1, j2}
ThreeJobs == {j1, j2, j3}
FourJobs == {j1, j2, j3, j4}
NoJob == {}
FirstJob == {j1}
FirstTwoJobs == {j1, j2}
(* the later jobs are the more urgent ones *)
Rising ==
  [j \in Jobs |-> IF j = j1 THEN 2 ELSE IF j = j2 THEN 3 ELSE IF j = j3 THEN 1 ELSE 0]
=============================================================================
