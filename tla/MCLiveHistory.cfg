SPECIFICATION FairSpec
CONSTANTS
  Limits = {0, 5}
  Size <- MCSize
  Share = 2
  MaxFrames = 6
  MaxMoves = 2
PROPERTIES
  PausedStays
  FollowsNewest
CHECK_DEADLOCK FALSE
INVARIANT HistorySound
INVARIANT ShownIsOnScreen
