\* Three jobs for one place, two of which may be cancelled, writes in any order, fair timers.
CONSTANTS
  j1 = j1  j2 = j2  j3 = j3  j4 = j4
  Jobs <- ThreeJobs
  Cancellable <- FirstTwoJobs
  Priority <- Rising
  MaxConcurrent = 1
  Tests = 2
  OrderedWrites = FALSE
CHECK_DEADLOCK FALSE
SPECIFICATION FairSpec
INVARIANTS
  LimitErosion
  QueueIsExact
PROPERTIES
  QueueDrains
