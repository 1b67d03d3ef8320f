SPECIFICATION FairSpec
CONSTANTS
  Participants = {"a", "b", "c"}
  Places <- MCPlaces
  Machines <- MCMachines
  ProofPorts = {1, 2, 3}
  FlowPorts = {71, 72, 73}
  OwnPort = 1
  Early = {"a", "b"}
  MaxEnds = 1
PROPERTY SplitSettles
INVARIANT ScanSound
