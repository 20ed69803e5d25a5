SPECIFICATION Spec
CONSTANTS
  b1 = b1
  b2 = b2
  b3 = b3
  Backup <- MCBackup
  Device = {1}
  DeviceOf <- MCDeviceOf
  Pruner = {1, 2}
  Limit = {0, 1, 2}
  Absent = Absent
  Torn = Torn
  MaxClock = 3
  MaxSetBacks = 1
INVARIANTS
  TypeOK
  NewestSurvives
PROPERTIES
  PruneKeepsLimit
SYMMETRY MCSymmetry
CHECK_DEADLOCK FALSE
