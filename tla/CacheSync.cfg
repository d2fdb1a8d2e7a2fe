SPECIFICATION Spec
CONSTANTS
  i1 = i1  i2 = i2  c1 = c1  c2 = c2  c3 = c3
  Instances = {i1, i2}
  Calls = {c1, c2, c3}
  Home <- MCHome
  Kinds = {"route", "package", "metadata"}
  NumSources = 2
  NodeName = FALSE
  Free = Free
  Orphan = Orphan
  MaxWrites = 1
  MaxTroubles = 1
INVARIANTS StaleOnlyByLoss DependentsFollow
PROPERTIES ForeignLockSafe
CONSTRAINT OneReload
CHECK_DEADLOCK FALSE
