SPECIFICATION Spec
CONSTANTS
  InitialCooldown = 1
  RateLimitCooldown = 2
  UnauthorizedCooldown = 3
  MaxCooldown = 3
  MaxLevel = 3
  Disabled = Disabled
  Absent = Absent
  None = None
  Candidates = {c1}
  Attempts = {a1, a2, a3}
  Configs = {v1, v2, v3}
  RetryAfters = {0, 4}
  MaxGeneration = 2
  RestoreWhileInFlight = FALSE
SYMMETRY Symmetry
PROPERTIES
  OnlyHolderReturnsLease
  BackoffOnlyByProbe
  ImplementsCircuitBreaker
