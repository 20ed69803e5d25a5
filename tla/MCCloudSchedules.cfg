SPECIFICATION MCSpec
CONSTANTS
  hourly = hourly
  daily = daily
  garbled = garbled
  Device = {1, 2}
  Schedule <- MCSchedule
  Valid <- MCValid
  Empty = Empty
  Missing = Missing
  Unset = Unset
  Broken = Broken
  NoJob = NoJob
  MaxEdits = 2
  MaxRestarts = 2
INVARIANTS
  TypeOK
  EntriesMatchJobs
PROPERTIES
  SyncApplies
  SchedulesSettle
CHECK_DEADLOCK FALSE
