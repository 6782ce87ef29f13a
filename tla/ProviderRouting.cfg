SPECIFICATION FairSpec
CONSTANTS
  p1 = p1
  p2 = p2
  r1 = r1
  r2 = r2
  Provider = {p1, p2}
  Configured = {p1, p2}
  Role = {r1, r2}
  Chain <- FallbackChains
  DegradedThreshold = 1
  FailureThreshold = 2
  Cooldown = 1
  OpenDuration = 1
  ProbeInterval = 1
  MaxRetries = 1
  PostAttempts = 2
INVARIANT ThresholdTrips
PROPERTIES CooldownIsSkipped RolesFinish Recovery
