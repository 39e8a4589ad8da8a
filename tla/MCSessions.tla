----------------------------- MODULE MCSessions -----------------------------
(* Instances of Sessions for TLC. *)
EXTENDS Sessions, TLC

CONSTANTS u1, s1, s2, c1, c2, c3, c4

OneUser == {u1}
TwoIds == {s1, s2}
FourCalls == {c1, c2, c3, c4}
Symmetry == Permutations(TwoIds) \cup Permutations(FourCalls)
=============================================================================
