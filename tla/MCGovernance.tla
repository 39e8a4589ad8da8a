----------------------------- MODULE MCGovernance -----------------------------
(***************************************************************************)
(* Instances of Governance for TLC, in four slices: two promotion checks   *)
(* at once, or one and a dry run, with one change to policies, exceptions  *)
(* or the version meanwhile; one check with two changes; and one check     *)
(* while the version moves.                                                *)
(***************************************************************************)
EXTENDS Governance, TLC

CONSTANTS g1, g2, e1, v1, p1, p2

VARIABLE slice

OneGateRuns == \E g \in Gates : \A h \in Gates \ {g} : pc'[h] = "idle"

InSlice ==
  /\ slice # "moves" => UNCHANGED lifecycleVars
  /\ slice # "checks" => OneGateRuns
  /\ slice # "dry run" => pc'[e1] = "idle"
  /\ changes' <= CASE slice = "changes" -> 2 [] slice = "moves" -> 0 [] OTHER -> 1

SliceInit == slice \in {"checks", "dry run", "changes", "moves"} /\ Init
SliceNext == Next /\ InSlice /\ UNCHANGED slice
SliceSpec == SliceInit /\ [][SliceNext]_<<slice, vars>>

GateSymmetry == Permutations(Gates)
=============================================================================
