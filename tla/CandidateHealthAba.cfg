SPECIFICATION Spec
CONSTANTS
  InitialCooldown = 1
  RateLimitCooldown = 2
  UnauthorizedCooldown = 3
  MaxCooldown = 3
  MaxLevel = 1
  Disabled = Disabled
  Absent = Absent
  None = None
  Candidates = {c1}
  Attempts = {a1, a2}
  Configs = {v1, v2}
  RetryAfters = {0}
  MaxGeneration = 2
  RestoreWhileInFlight = TRUE
PROPERTIES
  OnlyHolderReturnsLease
