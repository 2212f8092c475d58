SPECIFICATION Spec
CONSTANTS
  None = None
  Observers = {o1, o2}
  Operators = {p1}
  Sinks = {s1, s2}
  Configs <- AlwaysOn
  MaxEvents = 2
  MaxExpired = 0
  MaxFailures = 0
  QueueSize = 1
  CleanupEvery = 2
PROPERTIES
  QueueLossDegrades
SYMMETRY Symmetry
