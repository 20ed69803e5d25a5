SPECIFICATION FairSpec
CONSTANTS
  b1 = b1
  b2 = b2
  b3 = b3
  Backup <- MCSpread
  Device = {1, 2}
  DeviceOf <- MCSpreadOf
  Time = {0}
  Refused = {1}
  NoTime = NoTime
  Absent = Absent
  Torn = Torn
  MaxFaults = 1
  MaxCrashes = 0
PROPERTIES
  QueueDrains
CHECK_DEADLOCK FALSE
