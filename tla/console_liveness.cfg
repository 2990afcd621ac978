SPECIFICATION Spec
CONSTANTS
  None = None
  StartId = StartId
  MaxPushes = 3
  MaxWay = 2
  MaxTests = 1
  States = 3
  MaxPlace = 1
  PerFrame = 2
  Ceiling = 3
  MaxMessages = 3
  MaxOutages = 2
  MaxPresses = 1
  MaxEdits = 0
  MaxDials = 3
  MaxMoves = 2
  Batch = 1
  MaxAsks = 2
  MaxElse = 1
  MaxPicks = 1
  Parts = {"tests", "picks", "routes", "intake", "beat", "filters"}
PROPERTIES ButtonsComeBack CanvasSettles IntakeGoesOn AnswersSettle
CHECK_DEADLOCK FALSE
