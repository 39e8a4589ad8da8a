\* Fair schedules of two rollbacks of a canary, one of which may be cancelled, deletes and an alert; no kill.
CONSTANTS
  d1 = d1  d2 = d2  r1 = r1  r2 = r2
  Deployments <- OneDeployment
  Rollbacks <- TwoRollbacks
  Strategies <- CanaryOnly
  ManualSplits <- NoSplit
  Cancellable <- OneRollback
  MaxCriticals = 1
  MaxStarts = 0
  HealthCheckRetries = 1
  CanaryIncrement = 100
  Replicas = 2
  BatchSize = 1
  MaxCrashes = 0
SPECIFICATION WholeFairSpec
PROPERTIES
  RollbackEnds
  RolloutEnds
CHECK_DEADLOCK FALSE
