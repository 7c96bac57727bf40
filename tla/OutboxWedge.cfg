SPECIFICATION FairSpec
CONSTANTS
  r1 = r1
  w1 = w1
  w2 = w2
  Messages <- OneRow
  Recipients = {r1}
  RecipientOf <- ToR1
  KindOf <- AnAlert
  Workers = {w1}
  MaxAttempts = 2
  BatchLimit = 1
  DailyCap = 1
  MaxCopies = 2
  MaxFaults = 1
  Faults = {"connect"}
PROPERTY
  WorkerKeepsPolling
CHECK_DEADLOCK FALSE
