SPECIFICATION Spec
CONSTANTS
  t1 = t1
  t2 = t2
  t3 = t3
  o1 = o1
  None = None
  Stop = Stop
  Turns = {t1, t2, t3}
  Operations = {o1}
  Prompts = {t1, t2, t3}
  PromptOf <- OwnPrompt
  Rich = {t3}
  MaxFaults = 2
SYMMETRY Plain
INVARIANTS TypeOK LedgerNeverRefused AbsentNeverDispatched NotAppliedIsTrue CompletedSurvivesCrash
PROPERTIES EntriesAreForever
CHECK_DEADLOCK FALSE
