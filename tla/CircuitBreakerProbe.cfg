SPECIFICATION Spec
CONSTANTS
  Providers = {1}
  Healthy = {}
  Gateways = {g1}
  Threshold = 3
  Window = 4
  Cooldowns = {2, 6}
  Faults = {}
  MaxTime = 10
PROPERTY ProbeFailureReopens
