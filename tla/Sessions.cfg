\* A login, a refresh, a logout or a deactivation and a validation, overlapping.
CONSTANTS
  u1 = u1  s1 = s1  s2 = s2
  c1 = c1  c2 = c2  c3 = c3  c4 = c4
  Users <- OneUser
  Ids <- TwoIds
  Calls <- FourCalls
  None = None
  MaxAge = 2
  Failing = TRUE
  MaxTime = 2
SPECIFICATION Spec
SYMMETRY Symmetry
INVARIANTS
  LoggedOutStaysOut
  DeactivatedIsOut
PROPERTIES
  ExpiryIsGranted
CHECK_DEADLOCK FALSE
