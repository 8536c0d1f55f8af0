SPECIFICATION FairSpec
CONSTANTS
  r1 = r1
  s1 = s1
  NoTool = NoTool
  Tools = {"plain", "unknown"}
  Replies = {r1}
  Scheduled = {s1}
  MaxSteps = 2
  MaxActive = 2
  Fails = TRUE
  Clears = FALSE
PROPERTY TurnsEnd
CHECK_DEADLOCK FALSE
