SPECIFICATION MCSpec
CONSTANTS
  Wide = wide
  Mid = mid
  Narrow = narrow
  Filters = {wide, narrow}
  Covers <- Pair
  MaxQos = 0
  RuleQos = 0
  Refusable = {}
  None = none
  Readers = {r1, r2}
  Sup = sup
  Brokers = {b1}
  Reasons = {closed}
  Closed = closed
  Lost = lost
  MaxLate = 1
  Parts = {"sequential"}
INVARIANT NoDoubling
VIEW View
CHECK_DEADLOCK FALSE
