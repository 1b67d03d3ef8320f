SPECIFICATION FairSpec
CONSTANTS
  a = a
  p1 = p1
  NoEntry = NoEntry
  Endpoints = {a}
  Participants = {p1}
  ParticipantOf <- OneProcess
  Contents = {data}
  HasNames = TRUE
  SeparateReader = FALSE
  Grace = 0
  GraphLag = 0
  MaxEvents = 4
  MaxClock = 1
INVARIANT TypeOK
INVARIANT CompleteMeansNothingMissed
INVARIANT SkipIsSafe
PROPERTY IncompleteClears
PROPERTY NamedEventually
CHECK_DEADLOCK FALSE
