SPECIFICATION LinkSpec
CONSTANTS
  Brokers = {b1}
  Reasons = {lost}
  DeclinedReasons = {}
  None = None
  ConnectOnStart = TRUE
  MaxAttempts = 1
  Backoff <- MCBackoff
  Readers = {r1}
  Sup = sup
  Closed = closed
  Lost = over
  Parts = {"ladder", "dials"}
INVARIANT OneTry
PROPERTIES TriesEnd KeepsClimbing DialsEnd HangUpsLand
CHECK_DEADLOCK FALSE
