SPECIFICATION Spec
CONSTANTS
  Limits = {0, 4}
  Size <- MCSize
  Share = 2
  MaxFrames = 4
  MaxMoves = 1
INVARIANT NewestRequestWins
CHECK_DEADLOCK FALSE
