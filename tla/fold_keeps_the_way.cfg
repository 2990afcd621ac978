SPECIFICATION MCSpec
CONSTANTS
  Messages = {"m1"}
  MinW = 5
  MinH = 4
  HeldPx = 2
  Snap = 1
  Step = 2
  Viewports <- MCViewports
  Pulls <- MCPulls
  None = None
  MaxWindows = 3
  MaxMoves = 2
  Brokers = {a, b}
  MaxSessions = 2
  MaxLinkMoves = 2
  Hosts = {"a", "b"}
  Home = "a"
  OwnPort = 9
  Texts <- MCTexts
  Names = {"n"}
  MaxEdits = 2
  MaxDials = 3
  MaxPanelMoves = 2
  Topics = {"ta"}
  Places = {"pa"}
  Ways = {"q0", "q2"}
  Modes = {"text", "hex"}
  Keep0 = Keep
  Typed0 = Typed
  Default <- MCDefault
  MaxMessages = 2
  MaxSheetMoves = 4
  MaxPresses = 1
  x = x
  Alarms = {x, y}
  Depth = 1
  MaxLoads = 3
  MaxOutages = 1
  MaxTotal = 1
  MaxMutes = 1
  MaxWire = 2
  MaxAsked = 3
  Parts = {"publish"}
PROPERTIES FoldKeepsTheWay
SYMMETRY Symmetry
VIEW View
CHECK_DEADLOCK FALSE
