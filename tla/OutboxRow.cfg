SPECIFICATION Spec
CONSTANTS
  r1 = r1
  w1 = w1
  w2 = w2
  Messages <- OneRow
  Recipients = {r1}
  RecipientOf <- ToR1
  KindOf <- AnAlert
  Workers = {w1, w2}
  MaxAttempts = 2
  BatchLimit = 1
  DailyCap = 1
  MaxCopies = 2
  MaxFaults = 1
  Faults = {"crash", "db", "connect", "timeout", "async", "operator", "consent"}
SYMMETRY WorkerSymmetry
INVARIANTS
  TypeOK
  NoStrandedRow
  DuplicateOnlyWhenExcused
  ExclusiveHold
PROPERTIES
  Implements
  OptOutRespected
CHECK_DEADLOCK FALSE
