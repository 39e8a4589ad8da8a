\* No call fails: the token of a login is presented and refused.
CONSTANTS
  u1 = u1  s1 = s1  s2 = s2
  c1 = c1  c2 = c2  c3 = c3  c4 = c4
  Users <- OneUser
  Ids <- TwoIds
  Calls <- FourCalls
  None = None
  MaxAge = 1
  Failing = FALSE
  MaxTime = 2
SPECIFICATION Spec
SYMMETRY Symmetry
INVARIANTS
  LoginTokenIsAccepted
CHECK_DEADLOCK FALSE
