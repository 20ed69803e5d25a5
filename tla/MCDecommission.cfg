SPECIFICATION FairSpec
CONSTANTS
  b1 = b1
  b2 = b2
  b3 = b3
  Backup <- MCBackup
  Scheduled <- MCScheduled
  Slots = 2
  Stuck = {b1}
  Outside = {}
PROPERTIES
  DecommissionClears
CHECK_DEADLOCK FALSE
