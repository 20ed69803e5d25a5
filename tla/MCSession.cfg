SPECIFICATION FairSpec
CONSTANTS
  InitCommands = 2
  Outputs <- MCOutputs
  MaxNoise = 1
  MaxLooks = 1
INVARIANTS
  TypeOK
  BackupIsAnswer
  TypesAtPrompts
  PasswordWhereAsked
PROPERTIES
  SessionSucceeds
CHECK_DEADLOCK FALSE
