SPECIFICATION Spec
CONSTANTS
  Items = {1, 2}
  Workers = {w1, w2}
  NoWorker = NoWorker
  Payloads = {1}
  LeaseMs = {1}
  Limit = 1
  MaxClock = 0
  MaxStorable = 2
  MaxToken = 2
  Skew = 2
SYMMETRY Symmetry
INVARIANTS TypeOK RowsDecodable AlreadySettledIsTrue OneHonouredHandle DroppedOnlyWhenSettled
PROPERTY RefinesFencedQueue
CHECK_DEADLOCK FALSE
