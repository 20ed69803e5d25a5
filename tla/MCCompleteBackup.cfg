SPECIFICATION Spec
CONSTANTS
  InitCommands = 2
  Outputs <- MCOutputs
  MaxNoise = 0
  MaxLooks = 0
INVARIANTS
  BackupIsComplete
CHECK_DEADLOCK FALSE
