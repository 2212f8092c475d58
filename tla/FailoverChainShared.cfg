SPECIFICATION Spec
CONSTANTS
  InitialCooldown = 1
  RateLimitCooldown = 2
  UnauthorizedCooldown = 1
  MaxCooldown = 2
  MaxLevel = 1
  c1 = c1
  c2 = c2
  c3 = c3
  None = None
  Requests = {r1, r2}
  Candidates = {c1, c2}
  Priority <- PriorityOfTwo
  Rankings <- SharedRankings
  Failovers <- SharedFailovers
  Affinities = {"off"}
  Modes = {"stream", "whole"}
  RetryAfters = {0}
SYMMETRY Symmetry
INVARIANTS
  LeaseOwned
PROPERTIES
  NoVerdictWithoutClaim
  ImplementsCircuitBreaker
