SPECIFICATION Spec
CONSTANTS
  Words = {"a", "b", "t"}
  Prefixes <- AlikePrefixes
  ToolNames <- AlikeTools
  Fails = TRUE
INVARIANT TypeOK
INVARIANT AllClosed
INVARIANT CallsListed
INVARIANT RoutesHome
