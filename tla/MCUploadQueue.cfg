SPECIFICATION MCSpec
CONSTANTS
  b1 = b1
  b2 = b2
  b3 = b3
  Backup <- MCPair
  Device = {1}
  DeviceOf <- MCPairOf
  Time = {0, 1}
  Refused = {}
  NoTime = NoTime
  Absent = Absent
  Torn = Torn
  MaxFaults = 3
  MaxCrashes = 1
INVARIANTS
  TypeOK
  HeldFilesStay
  LossesAreKnown
  CompletedMeansStored
  RedeliveredTogether
  OrphansAreKnown
  SentOnce
PROPERTIES
  PromiseKept
  QueueDrains
CHECK_DEADLOCK FALSE
