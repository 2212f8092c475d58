SPECIFICATION FairSpec
CONSTANTS
  InitialCooldown = 1
  RateLimitCooldown = 1
  UnauthorizedCooldown = 1
  MaxCooldown = 1
  MaxLevel = 0
  c1 = c1
  c2 = c2
  c3 = c3
  None = None
  Requests = {r1}
  Candidates = {c1, c2, c3}
  Priority <- MCPriority
  Rankings <- PolicyRankings
  Failovers <- PolicyFailovers
  Affinities = {"off", "unknown"}
  Modes = {"stream", "whole"}
  RetryAfters = {0}
INVARIANTS
  AttemptsOnce
  OneSource
  LeftClean
  NoReplayAfterLoss
PROPERTIES
  RequestsEnd
