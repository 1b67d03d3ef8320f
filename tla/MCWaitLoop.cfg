SPECIFICATION FairSpec
CONSTANTS
  w = w
  far = far
  l1 = l1
  NoEntry = NoEntry
  Endpoints = {w, far}
  Writers = {w}
  OwnEndpoints = {}
  Participants = {p1}
  Contents <- MCContents
  TopicOf <- MCTopicOf
  ProcessOf <- MCProcessOf
  StatWriters = {s1}
  Locators = {l1}
  Options <- MCOptions
  SettleMin = 1
  MeasuredQuiet = 1
  MaxEvents = 2
  MaxClock = 3
INVARIANT FreshDestinations
INVARIANT SettledOnCurrentPicture
INVARIANT QuietMeansQuiet
PROPERTY WaitEnds
PROPERTY InterruptEnds
CHECK_DEADLOCK FALSE
