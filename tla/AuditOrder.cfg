\* Three transactions of one row each.
CONSTANTS
  t1 = t1  t2 = t2  t3 = t3
  Txns <- ThreeTxns
  Ids <- FourIds
  Genesis = Genesis
  None = None
  Rows <- Singles
  MaxTime = 2
SPECIFICATION Spec
INVARIANTS
  UndisturbedIsVerified
CHECK_DEADLOCK FALSE
