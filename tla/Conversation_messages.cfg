SPECIFICATION FairSpec
CONSTANTS
  u1 = u1
  j1 = j1
  Absent = Absent
  Words <- Words_
  Updates = {u1}
  Jobs = {j1}
  Messages <- AllMessages
  Calls <- FewCalls
  Enabled <- Web
  MCPTools <- MCP
  MaxCalls = 3
  MaxActive = 2
  Fails = TRUE
INVARIANT TypeOK
INVARIANT PromptReadsBack
INVARIANT NeverEmptyRequest
INVARIANT FactsKept
PROPERTY TypingEnds
\* The turns of the instance come to an end.
CHECK_DEADLOCK FALSE
