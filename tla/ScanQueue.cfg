SPECIFICATION FairSpec
CONSTANTS
  w1 = w1
  none = none
  Scans <- TwoScans
  Contents <- SameOrOther
  Unlucky = {1}
  Workers = {w1}
  NoScan = none
  NoWorker = none
  MaxAttempts = 2
INVARIANTS
  TypeOK
  NoStrandedScan
  NoOrphanFile
  PurgedKeepsNothing
PROPERTIES
  EventuallySettles
  Implements
CHECK_DEADLOCK FALSE
