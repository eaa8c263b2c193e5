SPECIFICATION Spec
CONSTANTS
  Jobs = {1}
  Tenants = {t1}
  TenantOf <- MCTenantOf
  Workers = {w1}
  Apis = {a1}
  MaxAttempts = 2
  MaxTaskRetries = 0
  BatchLimit = 2
  Erring = {}
  Faults = {"crash", "database"}
  MaxFaults = 2
  MaxOutages = 0
  MaxRequeues = 0
  MaxBackfills = 1
INVARIANT DeadLetterReplayable
