SPECIFICATION FuelSpec
CONSTANTS
  Handlers = {h1, h2}
  Levels <- MCLevels
  StartDelta = 1
  SettleTolerance = 0
  RefillThreshold = 2
  SettleTime = 1
  JumpLimit = 1
  RollbackSlack = 1
  MaxTime = 1
  MaxArrivals = 4
  MaxRefillFaults = 1
  Ids <- MCIds
  MaxAlertFaults = 1
  TheftThreshold = 3
SYMMETRY HandlerSymmetry
INVARIANTS
  OneRowPerFill
  RefillTypeOK
  RefillGoesForward
  HotCoversSession
PROPERTY
  Implements
CHECK_DEADLOCK FALSE
