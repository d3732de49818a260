SPECIFICATION Spec
CONSTANTS
  o1 = o1
  o2 = o2
  o3 = o3
  k1 = k1
  Ops = {o1}
  Turns = {o1}
  ClassOf <- OneClass
  Kids = {}
  PolicyOf <- NoChildren
  Units = {1}
  Budgets <- Budget
  MaxEpoch = 3
  MaxIteration = 1
  MaxAttempt = 1
INVARIANT CancelSurvivesRecovery
CHECK_DEADLOCK FALSE
