SPECIFICATION Spec
CONSTANTS
  Processes = {p1}
  Workers = {w1}
  MonthlyBudget = 2
  DailyBudget = 1
  Costs = {1}
  MaxCost = 1
  DaysInMonth = 1
  Faults = {}
  MaxDay = 1
  MaxInvoiced = 2
  MaxDaily = 1
INVARIANT SpendNotLost
