SPECIFICATION Spec
CONSTANTS
  Nodes = {n0, n1, n2, n3}
  StartId = n0
  Placed = {"end", "step", "if", "loop"}
  Width = 2
  Gap = 1
  Room = 1
  MaxX = 3
  MaxY = 1
  MaxText = 2
  MaxPresses = 2
  MaxTyped = 2
  MaxPanels = 3
  MaxDrafts = 1
  MaxLost = 1
  Reads <- MCReads
  Text <- MCText
  Junk = "x"
  Ways <- MCWays
  Names <- MCNames
  Patterns <- MCPatterns
  Lines <- MCLines
  Filters <- MCFilters
  Addresses <- MCAddresses
  Headers <- MCHeaders
  Secrets <- MCSecrets
  Topics <- MCTopics
  Prefix <- MCPrefix
  PrefixesHeard <- MCPrefixes
  Widest = 4000
  Rules <- MCRules
  MaxEdits = 2
  Parts = {"graph", "place", "form", "writers", "drafts"}
INVARIANTS FormsKeepTheRule OneDraftOneRule
PROPERTIES DrawingsStayWhole WritesTouchTheirOwn
SYMMETRY Symmetry
VIEW View
CHECK_DEADLOCK FALSE
