SPECIFICATION FairSpec
CONSTANTS
  sent = sent
  count = count
  Instances = {sent, count}
  ReaderOf <- MCReaderOf
  Readers = 2
  Batch = 2
  MaxCount = 2
  MaxErrors = 1
INVARIANT SweepComplete
INVARIANT SnapshotCoherent
INVARIANT NoTakeAfterDelete
PROPERTY CounterForward
CHECK_DEADLOCK FALSE
PROPERTY CatchesUp
PROPERTY CallsReturn
