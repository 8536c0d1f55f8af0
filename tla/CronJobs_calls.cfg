SPECIFICATION Spec
CONSTANTS
  c1 = c1
  c2 = c2
  h1 = h1
  h2 = h2
  f1 = f1
  f2 = f2
  NoChat = NoChat
  NoFlag = NoFlag
  NoTask = NoTask
  Chats = {c1, c2}
  Handlers = {h1, h2}
  Jobs = {}
  Flags = {f1, f2}
  MaxTask = 2
  MaxEntry = 3
  DbFails = TRUE
SYMMETRY Symmetry
INVARIANT TypeOK
INVARIANT EntriesTracked
INVARIANT RestoreMirrorsRows
INVARIANT EntriesMirrorRows
PROPERTY KeepsPromise
