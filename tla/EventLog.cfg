SPECIFICATION Spec
CONSTANTS
  None = None
  Observers = {o1, o2}
  Operators = {p1}
  Sinks = {s1, s2}
  Configs <- Settings
  MaxEvents = 2
  MaxExpired = 2
  MaxFailures = 1
  QueueSize = 1
  CleanupEvery = 2
INVARIANTS
  SourceComplete
  RestartLosesNothing
  SingleWriter
  NoOrphanedAttempts
SYMMETRY Symmetry
