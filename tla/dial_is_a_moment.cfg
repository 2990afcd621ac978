SPECIFICATION NoTryNowSpec
CONSTANTS
  Brokers = {b1}
  Reasons = {lost}
  DeclinedReasons = {}
  None = None
  ConnectOnStart = TRUE
  MaxAttempts = 1
  Backoff <- MCBackoff
PROPERTY DialIsAMoment
