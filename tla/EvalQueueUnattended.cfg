SPECIFICATION FairSpec
CONSTANTS
  Jobs = {1}
  Tenants = {t1}
  TenantOf <- MCTenantOf
  Workers = {w1}
  Apis = {a1}
  MaxAttempts = 2
  MaxTaskRetries = 1
  BatchLimit = 2
  Erring = {1}
  Faults = {}
  MaxFaults = 0
  MaxOutages = 0
  MaxRequeues = 0
  MaxBackfills = 1
PROPERTY Settles
