SPECIFICATION Spec
CONSTANTS
  t1 = t1
  t2 = t2
  f1 = f1
  Flows = {f1, f2}
  Tabs = {t1, t2}
  Drawings = {d1, d2, d3}
  None = None
  Fresh = Fresh
  Unread = Unread
  OfDraft = OfDraft
  Whole = Whole
  MaxHeard = 2
  MaxOthers = 1
  MaxPushes = 3
  MaxWay = 2
  MaxTests = 2
  MaxAdrift = 1
  Parts = {"edit", "page", "tabs", "test"}
INVARIANTS PagesAgree
PROPERTIES ChangesStayOnScreen NoBlindOverwrite TestsAreAnswered
VIEW View
SYMMETRY Symmetry
CHECK_DEADLOCK FALSE
