SPECIFICATION Spec
CONSTANTS
  m1 = m1
  m2 = m2
  px = px
  py = py
  ca = ca
  cb = cb
  None = None
  Models = {m1, m2}
  MaxLength = 2
  MaxRules = 2
  Requests = {r1, r2}
  Keys = {k1}
  Providers = {px, py}
  Candidates = {ca, cb}
  Documents <- SavedPolicies
  Reloads <- SomeReloads
  Failures <- SomeFailures
  Duration = 7205
  MaxEdits = 1
  Queries <- SomeQueries
  Lower <- SomeLower
  Json <- SomeJson
  Delays = {0, 5, 9000}
SYMMETRY Symmetry
INVARIANTS
  MostSpecificServes
  ValidatedNeverEmpty
  OneEventEach
  SourcesAgree
  StatsPartition
CHECK_DEADLOCK FALSE
