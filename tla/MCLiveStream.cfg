SPECIFICATION FairSpec
CONSTANTS
  Clients = {c1}
  Buffer = 1
  MaxDocs = 3
  MaxCuts = 1
  MaxEpochs = 2
PROPERTY ImplementsLatestValue
PROPERTY CatchesUp
CHECK_DEADLOCK FALSE
INVARIANT CountSound
