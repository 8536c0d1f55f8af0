SPECIFICATION Spec
CONSTANTS
  Pieces <- ReplyPieces
  MaxLen = 4
INVARIANT TypeOK
INVARIANT ShownOnce
INVARIANT MarkupNeverFatal
PROPERTY KeepsPromise
\* A delivery ends.
CHECK_DEADLOCK FALSE
