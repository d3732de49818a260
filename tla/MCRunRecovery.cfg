SPECIFICATION FairSpec
CONSTANTS
  o1 = o1
  o2 = o2
  o3 = o3
  k1 = k1
  Ops = {o1, o2, o3}
  Turns = {o1, o2}
  ClassOf <- EachOnce
  Kids = {k1}
  PolicyOf <- RequiredChild
  Units = {1}
  Budgets <- Tight
  MaxEpoch = 3
  MaxIteration = 1
  MaxAttempt = 1
PROPERTY RecoveryEnds
CHECK_DEADLOCK FALSE
