\* Six components, one at a time: two of everybody who may overlap, three migration tools, few failures.
CONSTANTS
  p1 = p1  p2 = p2  p3 = p3  e1 = e1  e2 = e2  x1 = x1  x2 = x2  r1 = r1  r2 = r2
  c1 = c1  c2 = c2  s1 = s1  k1 = k1  v1 = v1  v2 = v2  w1 = w1  w2 = w2  w3 = w3  w4 = w4
  a1 = a1  a2 = a2  i1 = i1  i2 = i2  ann = ann  bob = bob
  Processes = {p1, p2}
  Events = {x2}
  MaxPosts = 2
  Platforms = {p1}
  Kinds = {"huggingface"}
  Externals = {x1}
  Replicas = {r1, r2}
  Callers = {c1, c2}
  Watched <- TheEvents
  NotThere = NotThere
  Providers = {p1}
  ProviderTypes = {"github"}
  Secrets = {s1}
  Commits = {k1}
  Mentions <- TheMention
  Validations = {v1, v2}
  Workers = {w1, w2}
  MaxFaults = 2
  NoRow = NoRow
  Tools = {p1, p2, p3}
  Editions = {e1, e2}
  Release <- TheReleases
  MaxRuns = 4
  Unapplied = Unapplied
  Versions = {x1}
  Absent = Absent
  People = {ann, bob}
  Identities = {i1, i2}
  PersonOf <- OneMail
  Accounts = {a1, a2}
  RoleSets <- TwoRoles
  Visits = {w3, w4}
  MaxRoleEdits = 1
  NoAccount = NoAccount
SPECIFICATION AllSpec
CHECK_DEADLOCK FALSE
INVARIANTS HeldBack RecordsAreAudited SuccessIsAudited MigratedInOrder LoginIsOwn OffersFollowLifecycle
PROPERTIES RightsAreCurrent
