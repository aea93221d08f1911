CONSTANTS
  MaxScore = 2
  MaxCalibrated = 7
  Budgets <- MCBudgets
SPECIFICATION CalSpec
INVARIANTS
  NeverOverBudget
CHECK_DEADLOCK FALSE
