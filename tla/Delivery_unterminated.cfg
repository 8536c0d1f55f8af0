SPECIFICATION Spec
CONSTANTS
  Pieces <- PlainPieces
  MaxLen = 3
INVARIANT ShownWhole
CHECK_DEADLOCK FALSE
