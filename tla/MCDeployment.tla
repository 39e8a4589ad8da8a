---------------------------- MODULE MCDeployment ----------------------------
(***************************************************************************)
(* Instances of DeploymentSystem for TLC: the whole system of one rollback, *)
(* and two slices of a larger one, as everything at once is too much:       *)
(* "rollbacks", every strategy and two rollbacks but no start of a monitor  *)
(* by hand, split by hand or crash, and "monitors", with these, a strategy  *)
(* that splits traffic and one rollback.                                    *)
(***************************************************************************)
EXTENDS DeploymentSystem, TLC

CONSTANTS d1, d2, r1, r2

VARIABLE slice

OneDeployment == {d1}
TwoDeployments == {d1, d2}
NoRollback == {}
OneRollback == {r1}
TwoRollbacks == {r1, r2}
AllStrategies == DeploymentStrategy
RollingOnly == {"rolling"}
CanaryOnly == {"canary"}
NoSplit == {}
SomeSplits == {0, 50}
RollbackSymmetry == Permutations(TwoRollbacks)

InSlice ==
  /\ slice = "rollbacks" =>
       /\ \A d \in Deployments : asked'[d] = 0
       /\ crashes' = 0
       /\ split' = {}
  /\ slice = "monitors" => \E r \in Rollbacks : \A q \in Rollbacks \ {r} : rpc'[q] = "none"

SliceInit ==
  /\ slice \in {"rollbacks", "monitors"}
  /\ Init
  /\ slice = "monitors" => \A d \in Deployments : strategy[d] \in ShiftingStrategy

SliceNext == Next /\ InSlice /\ UNCHANGED slice

SliceSpec == SliceInit /\ [][SliceNext]_<<slice, vars>>

Whole == slice = "whole" /\ Init
WholeSpec == Whole /\ [][Next /\ UNCHANGED slice]_<<slice, vars>>
WholeFairSpec == Whole /\ [][Running /\ UNCHANGED slice]_<<slice, vars>> /\ Fairness
=============================================================================
