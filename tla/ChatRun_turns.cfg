SPECIFICATION Spec
CONSTANTS
  r1 = r1
  r2 = r2
  NoTool = NoTool
  Tools = {"plain"}
  Replies = {r1, r2}
  Scheduled = {}
  MaxSteps = 2
  MaxActive = 2
  Fails = TRUE
  Clears = TRUE
SYMMETRY Symmetry
CONSTRAINT HistoryBound
INVARIANT TypeOK
INVARIANT StoredIsSuffix
INVARIANT DeliveredAnswered
INVARIANT NeverBlank
CHECK_DEADLOCK FALSE
