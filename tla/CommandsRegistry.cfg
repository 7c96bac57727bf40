SPECIFICATION FairSpec
CONSTANTS
  s1 = s1
  s2 = s2
  s3 = s3
  none = none
  NoSocket = none
  Protocols = {"CONCOX", "PT06", "EC08"}
  Sockets = {s1, s2, s3}
  NumRequests = 1
  MaxRestarts = 1
  MaxDbErrors = 0
PROPERTY
  RegistryConverges
