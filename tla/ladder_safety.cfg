SPECIFICATION NoTryNowSpec
CONSTANTS
  Brokers = {b1, b2}
  Reasons = {lost, denied}
  DeclinedReasons = {denied}
  None = None
  ConnectOnStart = TRUE
  MaxAttempts = 2
  Backoff <- MCBackoff
PROPERTY OutageRemembered
PROPERTY StopHolds
SYMMETRY Symmetric
