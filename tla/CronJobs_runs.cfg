SPECIFICATION FairSpec
CONSTANTS
  c1 = c1
  h1 = h1
  j1 = j1
  j2 = j2
  f1 = f1
  f2 = f2
  f3 = f3
  NoChat = NoChat
  NoFlag = NoFlag
  NoTask = NoTask
  Chats = {c1}
  Handlers = {h1}
  Jobs = {j1, j2}
  Flags = {f1, f2, f3}
  MaxTask = 1
  MaxEntry = 3
  DbFails = FALSE
INVARIANT FlagExclusive
INVARIANT RunsExclude
PROPERTY StopDrains
