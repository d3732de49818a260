SPECIFICATION FairSpec
CONSTANTS
  Items = {1}
  Workers = {w1, w2}
  NoWorker = NoWorker
  Payloads = {1, 2}
  LeaseMs = {1, 2}
  Limit = 1
  MaxClock = 2
  MaxStorable = 4
  MaxToken = 3
  Skew = 0
INVARIANT NoLostWake
PROPERTY CrashedLeaseIsTakenOver
CHECK_DEADLOCK FALSE
