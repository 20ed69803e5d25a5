SPECIFICATION Spec
CONSTANTS
  b1 = b1
  b2 = b2
  b3 = b3
  Backup <- MCPair
  Device = {1}
  DeviceOf <- MCPairOf
  Time = {0}
  Refused = {1}
  NoTime = NoTime
  Absent = Absent
  Torn = Torn
  MaxFaults = 0
  MaxCrashes = 0
INVARIANTS
  QueuedLocallyIsKept
CHECK_DEADLOCK FALSE
