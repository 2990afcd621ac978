SPECIFICATION MCSpec
CONSTANTS
  Wide = wide
  Mid = mid
  Narrow = narrow
  Filters = {wide, mid, narrow}
  Covers <- Chain
  MaxQos = 0
  RuleQos = 0
  Refusable = {}
  None = none
  Readers = {r1, r2}
  Sup = sup
  Brokers = {b1}
  Reasons = {closed}
  Closed = closed
  Lost = lost
  MaxLate = 1
  Parts = {"sequential", "concurrent", "people"}
INVARIANTS HeldIsHeard NoneStandsUnderAnother Abortable
PROPERTIES ClaimsAreKept
VIEW View
CHECK_DEADLOCK FALSE
