SPECIFICATION MCSpec
CONSTANTS
  Providers = {1, 2}
  Healthy = {2}
  Gateways = {g1, g2}
  Nobody = nobody
  Threshold = 2
  Window = 1
  Cooldowns = {1, 3}
  Faults = {"get", "set", "crash"}
  MaxTime = 8
  MaxSharedTime = 4
SYMMETRY MCSymmetry
INVARIANT TypeOK
INVARIANT OpenJustified
INVARIANT HealthyNeverRefused
INVARIANT OpensOnTimeAlone
PROPERTY ClosedEarlyOnlyByOverlap
PROPERTY OpenUntilCooldownAlone
