SPECIFICATION FairSpec
CONSTANTS
  p1 = p1
  p2 = p2
  Pairs <- MCPairs
  Hidden <- MCHidden
  States <- MCStates
  kHoldFrames = 3
PROPERTY
  FollowsNetwork
CHECK_DEADLOCK FALSE
INVARIANT DecorationExact
