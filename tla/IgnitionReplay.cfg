SPECIFICATION IgnSpec
CONSTANTS
  Handlers = {h1}
  Window = 1
  Asleep = 1
  Recent = 2
  Ahead = 1
  MaxTime = 2
  MaxArrivals = 3
  MaxIgnFaults = 0
INVARIANT
  ReplayRaisesNothing
CHECK_DEADLOCK FALSE
