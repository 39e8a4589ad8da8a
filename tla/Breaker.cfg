\* Three calls that keep coming while an operator forces the breaker; two instances behind the
\* gateway; two calls of a pool with two clients.  Time, answers and timers are fair.
CONSTANTS
  c1 = c1  c2 = c2  c3 = c3  i1 = i1  i2 = i2  r1 = r1  r2 = r2  k1 = k1  k2 = k2
  Calls <- ThreeCalls
  FailureThreshold = 2
  ResetTimeout = 1
  MonitoringPeriod = 1
  Retries = 1
  Operated = TRUE
  MaxCount = 3
  Instances = {i1, i2}
  Proxied = {r1, r2}
  MaxFailures = 2
  Turns = 2
  NoInstance = NoInstance
  DbClients = {k1, k2}
  DbCalls = {c1, c2}
  MaxColumns = 2
SPECIFICATION AllSpec
INVARIANTS
  ClientsAreReturned
PROPERTIES
  OpensOnStreak
  ClosesOnSuccess
  Recovers
  ServiceComesBack
  EveryCallEnds
