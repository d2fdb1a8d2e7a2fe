SPECIFICATION BootFairSpec
CONSTANTS
  Instances = {i1, i2}
  Deployments = {"postgres", "mysql", "mongodb"}
  Order <- MCOrder
  Obsolete <- MCObsolete
  Snapshot <- MCSnapshot
  Migration <- MCMigration
  Versions <- MCVersions
  Moved <- MCMoved
  Defaults <- MCDefaults
  Default <- MCDefault
  Enabled = {"route"}
INVARIANTS ScriptConverges InitialisedOnce
PROPERTIES BootEnds
CHECK_DEADLOCK FALSE
