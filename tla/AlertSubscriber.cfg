SPECIFICATION AlertSpec
CONSTANTS
  Ids <- MCIds
  MaxAlertFaults = 2
INVARIANTS
  AlertTypeOK
  LatchTold
  BatteryAlternates
  OncePerCooldown
  DroppedHasOriginal
  TheftOncePerKey
CHECK_DEADLOCK FALSE
