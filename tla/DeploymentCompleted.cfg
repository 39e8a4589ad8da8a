\* One rollback whose verification may pass.
CONSTANTS
  d1 = d1  d2 = d2  r1 = r1  r2 = r2
  Deployments <- OneDeployment
  Rollbacks <- OneRollback
  Strategies <- AllStrategies
  ManualSplits <- NoSplit
  Cancellable <- NoRollback
  MaxCriticals = 1
  MaxStarts = 0
  HealthCheckRetries = 1
  CanaryIncrement = 60
  Replicas = 2
  BatchSize = 1
  MaxCrashes = 0
SPECIFICATION WholeSpec
PROPERTIES
  CompletedIsFinal
CHECK_DEADLOCK FALSE
