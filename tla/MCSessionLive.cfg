SPECIFICATION FairSpec
CONSTANTS
  i1 = i1
  i2 = i2
  interrupted = interrupted
  cancelled = cancelled
  Inputs = {i1, i2}
  Reasons = {interrupted, cancelled}
  Interrupted = interrupted
  MaxUpdates = 1
  MaxRepeats = 0
  MaxLog = 2
  MaxCompactions = 1
  MaxFaults = 1
PROPERTIES FenceLifts
CHECK_DEADLOCK FALSE
