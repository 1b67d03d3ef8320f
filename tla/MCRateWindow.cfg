SPECIFICATION RateSpec
CONSTANTS
  Pairs = {a, b}
  Watch = {TRUE, FALSE}
  Window = 2
  Depth = 2
  MaxSeq = 5
  MaxSecond = 3
INVARIANT GapsExact
CHECK_DEADLOCK FALSE
INVARIANT RateSound
