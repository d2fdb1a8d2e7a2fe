SPECIFICATION FairSpec
CONSTANTS
  Processes = {1, 2}
  Databases = {"sql", "mongodb"}
  Relations <- MCRelations
  Stored <- MCStored
  Fresh = 8
  Replicas = FALSE
  Troubles = 1
  Workloads <- MCWorkloads
  Single = {"setting"}
  Guarded = {"profile"}
INVARIANTS WrittenAsSent
PROPERTIES SystemKept OthersUntouched WritesEnd
CHECK_DEADLOCK FALSE
