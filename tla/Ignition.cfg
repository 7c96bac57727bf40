SPECIFICATION IgnSpec
CONSTANTS
  Handlers = {h1, h2}
  Window = 1
  Asleep = 1
  Recent = 2
  Ahead = 0
  MaxTime = 2
  MaxArrivals = 3
  MaxIgnFaults = 1
SYMMETRY HandlerSymmetry
INVARIANTS
  FlipWasHeld
  CacheTracksStable
  AlertsAlternate
  ToldOnIsOn
CHECK_DEADLOCK FALSE
