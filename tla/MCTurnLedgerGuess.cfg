SPECIFICATION Spec
CONSTANTS
  t1 = t1
  t2 = t2
  t3 = t3
  o1 = o1
  None = None
  Stop = Stop
  Turns = {t1, t2}
  Operations = {o1}
  Prompts = {t1, t2, t3}
  PromptOf <- OwnPrompt
  Rich = {t1}
  MaxFaults = 1
INVARIANT NeverGuessed
CHECK_DEADLOCK FALSE
