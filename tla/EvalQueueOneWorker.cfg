SPECIFICATION Spec
CONSTANTS
  Jobs = {1, 2}
  Tenants = {t1}
  TenantOf <- MCTenantOf
  Workers = {w1}
  Apis = {a1}
  MaxAttempts = 2
  MaxTaskRetries = 1
  BatchLimit = 2
  Erring = {1, 2}
  Faults = {"crash", "database"}
  MaxFaults = 2
  MaxOutages = 0
  MaxRequeues = 1
  MaxBackfills = 1
 
INVARIANT RowConsistent
PROPERTY FailedIsTerminal
PROPERTY BackfillOnlyDue
