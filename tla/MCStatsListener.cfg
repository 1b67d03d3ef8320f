SPECIFICATION Spec
CONSTANTS
  Threads = {t1, t2}
  Writers = {w1}
  Grace = 1
  MaxClock = 1
  MaxReported = 3
INVARIANT TypeOK
INVARIANT LossAccounted
INVARIANT SnapshotLossesSound
CHECK_DEADLOCK FALSE
