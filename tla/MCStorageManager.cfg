SPECIFICATION Spec
CONSTANTS
  b1 = b1
  b2 = b2
  Backup <- MCBackup
  Device = {1}
  DeviceOf <- MCDeviceOf
  Refused = {}
  Limit = {0, 1}
  NoTime = NoTime
  Absent = Absent
  Torn = Torn
  Queue = Queue
  MaxClock = 1
  MaxSetBacks = 1
  MaxFaults = 1
  MaxCrashes = 1
INVARIANTS
  RawCopySurvives
SYMMETRY MCSymmetry
CHECK_DEADLOCK FALSE
