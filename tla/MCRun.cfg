SPECIFICATION Spec
CONSTANTS
  o1 = o1
  o2 = o2
  o3 = o3
  k1 = k1
  Ops = {o1, o2}
  Turns = {o1}
  ClassOf <- TwoClasses
  Kids = {k1}
  PolicyOf <- DetachedChild
  Units = {1}
  Budgets <- SmallAndLarge
  MaxEpoch = 3
  MaxIteration = 2
  MaxAttempt = 2
INVARIANTS TypeOK ValidateNeverRefuses NeverBlindlyRepeated BudgetRespected ReservedIsLive TurnUsageRecorded CompleteOnlyIfAccepted PauseSurvivesRecovery
PROPERTIES SettledIsFinal RefinesLifecycle
CHECK_DEADLOCK FALSE
