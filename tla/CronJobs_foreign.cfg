SPECIFICATION Spec
CONSTANTS
  c1 = c1
  c2 = c2
  h1 = h1
  h2 = h2
  j1 = j1
  f1 = f1
  f2 = f2
  NoChat = NoChat
  NoFlag = NoFlag
  NoTask = NoTask
  Chats = {c1, c2}
  Handlers = {h1, h2}
  Jobs = {j1}
  Flags = {f1, f2}
  MaxTask = 1
  MaxEntry = 3
  DbFails = FALSE
SYMMETRY Symmetry
PROPERTY DeletesOwnRows
