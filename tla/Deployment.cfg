\* One deployment of every strategy: two rollbacks, or one with monitors, splits by hand and a crash.
CONSTANTS
  d1 = d1  d2 = d2  r1 = r1  r2 = r2
  Deployments <- OneDeployment
  Rollbacks <- TwoRollbacks
  Strategies <- AllStrategies
  ManualSplits <- SomeSplits
  Cancellable <- TwoRollbacks
  MaxCriticals = 1
  MaxStarts = 2
  HealthCheckRetries = 1
  CanaryIncrement = 60
  Replicas = 2
  BatchSize = 1
  MaxCrashes = 1
SPECIFICATION SliceSpec
SYMMETRY RollbackSymmetry
INVARIANTS
  RolloutExcludesRollback
  UnsplitHasAllTraffic
  RolloutSeesNoAlert
CHECK_DEADLOCK FALSE
