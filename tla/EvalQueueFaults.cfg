SPECIFICATION FaultsSpec
CONSTANTS
  Jobs = {1, 2, 3}
  Tenants = {t1}
  TenantOf <- MCTenantOf
  Workers = {w1, w2}
  Apis = {a1}
  MaxAttempts = 2
  MaxTaskRetries = 1
  BatchLimit = 3
  Erring = {1}
  Faults = {"crash", "database", "commit", "broker"}
  MaxFaults = 1
  MaxOutages = 1
  MaxRequeues = 1
  MaxBackfills = 1
ACTION_CONSTRAINT FaultsAllowed
SYMMETRY MCSymmetry
INVARIANT TypeOK
INVARIANT NeverStuckProcessing
INVARIANT OutcomeBacked
INVARIANT NoSilentLoss
PROPERTY ResultsComeWithOutcome
