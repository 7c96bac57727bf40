SPECIFICATION Spec
CONSTANTS
  s1 = s1
  s2 = s2
  s3 = s3
  none = none
  NoSocket = none
  Protocols = {"AIS140"}
  Sockets = {s1, s2, s3}
  NumRequests = 3
  MaxRestarts = 1
  MaxDbErrors = 1
SYMMETRY Connections
INVARIANTS
  TypeOK
  PendingMeansOffline
  RegistryTracksSession
  CommandOrder
  RowMatchesDevice
PROPERTY
  Implements
