SPECIFICATION FairSpec
CONSTANTS
  r1 = r1
  w1 = w1
  w2 = w2
  Messages <- TwoRows
  Recipients = {r1}
  RecipientOf <- ToR1
  KindOf <- Reports
  Workers = {w1}
  MaxAttempts = 2
  BatchLimit = 2
  DailyCap = 1
  MaxCopies = 2
  MaxFaults = 1
  Faults = {"crash", "db", "timeout", "operator"}
INVARIANT
  CapRespected
PROPERTY
  EventuallySettles
