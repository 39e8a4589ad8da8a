\* A bulk of two rows and two single rows, in every order, over two ticks.
CONSTANTS
  t1 = t1  t2 = t2  t3 = t3
  Txns <- ThreeTxns
  Ids <- FourIds
  Genesis = Genesis
  None = None
  Rows <- BulkAndSingles
  MaxTime = 2
SPECIFICATION FairSpec
INVARIANTS
  VerifiedIsWhole
  VerdictIsOrder
PROPERTIES
  AppendOnly
  TransactionsEnd
CHECK_DEADLOCK FALSE
