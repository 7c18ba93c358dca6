CONSTANTS
  turn = turn  quota = quota  review = review
  c1 = c1  c2 = c2
  Budgets <- MCBudgets
  Kept = {quota, review}
  Calls = {c1, c2}
  Gates <- MCGates
  CallsMode <- MCCallsMode
  Bytes <- MCBytes
  MaxCalls = 2
  MaxRequest = 2
  MaxTotal = 3
  Sizes = {1, 2, 3}
  Milestones = {m1}
  MaxSpent = 3
  MaxMishaps = 2
SPECIFICATION BudgetSpec
INVARIANT LimitsHold
PROPERTY StoppedForGood
CHECK_DEADLOCK FALSE
