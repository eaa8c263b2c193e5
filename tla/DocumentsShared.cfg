SPECIFICATION FairSpec
CONSTANTS
  Docs = {d1}
  Tenants = {t1, t2}
  TenantOf <- MCTenantOf
  Processes = {p1, p2}
  Faults = {"crash", "database"}
INVARIANT TypeOK
INVARIANT ReferencesKept
INVARIANT ReturnedWereClean
INVARIANT LastScanDecides
PROPERTY DeletedForGood
PROPERTY EventuallyIndexed
