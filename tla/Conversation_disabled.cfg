SPECIFICATION Spec
CONSTANTS
  u1 = u1
  Absent = Absent
  Words <- Words_
  Updates = {u1}
  Jobs = {}
  Messages <- OneMessage
  Calls <- FewCalls
  Enabled <- Web
  MCPTools <- MCP
  MaxCalls = 1
  MaxActive = 1
  Fails = FALSE
INVARIANT NeverPanics
\* The turns of the instance come to an end.
CHECK_DEADLOCK FALSE
