SPECIFICATION FairSpec
CONSTANTS
  b1 = b1
  b2 = b2
  b3 = b3
  Backup <- MCBackup
  Scheduled <- MCScheduled
  Slots = 2
  Stuck = {b1}
  Outside = {"stop", "kill", "error"}
INVARIANTS
  TypeOK
  CountersMatch
  StopWaitsForAll
PROPERTIES
  NoBackupAfterReturn
  BackupsEnd
  StopEnds
CHECK_DEADLOCK FALSE
