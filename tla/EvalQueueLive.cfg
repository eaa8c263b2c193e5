SPECIFICATION LiveSpec
CONSTANTS
  Jobs = {1, 2}
  Tenants = {t1}
  TenantOf <- MCTenantOf
  Workers = {w1, w2}
  Apis = {a1}
  MaxAttempts = 2
  MaxTaskRetries = 0
  BatchLimit = 2
  Erring = {1}
  Faults = {"crash", "broker"}
  MaxFaults = 1
  MaxOutages = 1
  MaxRequeues = 0
  MaxBackfills = 1
INVARIANT OneResultPerWorker
PROPERTY LifecycleSpec
PROPERTY Settles
