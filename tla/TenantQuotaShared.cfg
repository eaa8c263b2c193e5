SPECIFICATION Spec
CONSTANTS
  Processes = {p1, p2}
  Workers = {w1}
  MonthlyBudget = 1
  DailyBudget = 1
  Costs = {1}
  MaxCost = 1
  DaysInMonth = 2
  Faults = {"crash", "judge", "provider"}
  MaxDay = 2
  MaxInvoiced = 2
  MaxDaily = 1
SYMMETRY MCSymmetry
INVARIANT TypeOK
INVARIANT SpendExact
INVARIANT OverspendBounded
INVARIANT SpendBacked
INVARIANT ChargeFindsRow
PROPERTY RefusedOnlyWhenSpent
