\* Eight components, one at a time: two calls that overlap, few rows, and the smallest depth and pages that matter.
CONSTANTS
  m1 = m1  m2 = m2  d1 = d1  k1 = k1  a1 = a1  n1 = n1
  s1 = s1  s2 = s2  j1 = j1  j2 = j2  x1 = x1  c1 = c1  c2 = c2
  Models = {m1, m2}
  Queries = {s1}
  Readers = {c1}
  Writers = {c2}
  MaxEdits = 1
  NoEntry = NoEntry
  Versions = {m1, m2}
  Subjects = {d1, k1, a1}
  Kind <- KindOf
  Tracks = {c1, c2}
  Reach = 2
  MaxRows = 3
  MaxLinks = 2
  RecordModels = {m1}
  Numbers = {n1}
  Uploads = {a1}
  Contents = {x1}
  Clients = {c1, c2}
  NoHash = NoHash
  Suites = {s1, s2}
  EvalJobs = {j1, j2}
  Evaluated = {m1}
  Metrics = {x1}
  Thresholds <- ThresholdSets
  Measured <- MeasuredSets
  Malformed = Malformed
  Unmeasured = Unmeasured
  NotCreated = NotCreated
  Deleted = Deleted
  Bundles = {s1}
  Reports = {s2}
  MaxSweeps = 3
  MaxLogs = 2
  Columns = {1, 2}
  Requests = {a1}
  Officers = {c1, c2}
  Policies <- SomePolicies
  Contexts <- SomeContexts
  MaxRow = 3
  Limits = {1, 2}
  Moments <- SomeMoments
  MaxOffset = 3
SPECIFICATION AllSpec
CHECK_DEADLOCK FALSE
INVARIANTS SearchIsComplete CyclesAreLong OneRowPerUpload ReportsAgree BundleFilesAgree GatesAgree PagesMissNothing
PROPERTIES RequestsAreWhole
