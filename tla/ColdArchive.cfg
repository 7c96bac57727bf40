SPECIFICATION ColdSpec
CONSTANTS
  v1 = v1
  r1 = r1
  r2 = r2
  u1 = u1
  Vehicles = {v1}
  NoVehicle = NoVehicle
  MaxToday = 3
  MaxFaults = 1
  FreezeAge = 1
  ThawedDays = 2
  Histories <- MCHistories
  ChunkDays = 2
  DropLag = 1
  RetentionLag = 1
  Requests = {r1, r2}
  NoRequest = NoRequest
  Users = {u1}
  Lengths = {2}
  RouteLag = 0
  Cutoff = 1
INVARIANTS
  ReadyIsComplete
PROPERTIES
  NotifiedWhenThawed
  Implements
  PendingSettles
