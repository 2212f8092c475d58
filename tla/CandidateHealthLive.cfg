SPECIFICATION FairSpec
CONSTANTS
  InitialCooldown = 1
  RateLimitCooldown = 1
  UnauthorizedCooldown = 2
  MaxCooldown = 2
  MaxLevel = 0
  Disabled = Disabled
  Absent = Absent
  None = None
  Candidates = {c1, c2}
  Attempts = {a1, a2}
  Configs = {v1, v2}
  RetryAfters = {0}
  MaxGeneration = 2
  RestoreWhileInFlight = TRUE
INVARIANTS
  LeaseHeld
  NoInheritedFailure
PROPERTIES
  DeadlineNeverShortened
  RecoveryOnlyByLease
  RecoveryPossible
