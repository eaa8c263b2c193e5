SPECIFICATION Spec
CONSTANTS
  Requests = {r1, r2}
  Processes = {p1, p2}
  Purgers = {w1, w2}
  TTL = 1
  MaxTime = 2
  MaxFaults = 2
SYMMETRY MCSymmetry
INVARIANT TypeOK
INVARIANT NothingHalfDone
INVARIANT BlockedGoesNowhere
PROPERTY PurgedOnlyExpired
PROPERTY LedgerSpec
