SPECIFICATION Spec
CONSTANTS
  i1 = i1
  i2 = i2
  interrupted = interrupted
  cancelled = cancelled
  Inputs = {i1}
  Reasons = {interrupted, cancelled}
  Interrupted = interrupted
  MaxUpdates = 2
  MaxRepeats = 1
  MaxLog = 2
  MaxCompactions = 2
  MaxFaults = 1
INVARIANT StartsFromCheckpoint
CHECK_DEADLOCK FALSE
