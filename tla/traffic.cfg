SPECIFICATION Spec
CONSTANTS
  None = None
  Sent = {s, t}
  PerFrame = 2
  QueueCeiling = 3
  MaxMessages = 5
  MaxOutages = 3
  MaxPresses = 2
  Weights = {1, 3}
  Budgets = {4, 20}
  Depth = 2
  MinEntries = 1
  TopicBytes = 2
  LogCeiling = 2
  MaxBatch = 2
  MaxArrivals = 5
  TreeCeiling = 2
  Spare = 0
  MaxHeard = 3
  MaxHolds = 2
  MaxQueue = 1
  MaxClears = 1
  Filters = {"#", "a", "$SYS"}
  FilterTopics = {"a", "sys"}
  Covers <- MCCovers
  System = "$SYS"
  Batch = 1
  MaxElse = 1
  MaxPicks = 1
  RowTopics <- MCRowTopics
  Looks = {1}
  Broker = Broker
  Limit = 4
  MaxTurns = 2
  MaxClicks = 4
  MaxOthers = 1
  Logged = {ta, tb, tc}
  Parts = {"queue", "hub", "log", "holds", "reader", "others", "rows"}
INVARIANTS TrafficAddsUp
PROPERTIES BreadthLast HeldStandsStill PrunesTheDeaf RowsKeepTheirPromise
VIEW View
CHECK_DEADLOCK FALSE
