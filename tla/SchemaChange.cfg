SPECIFICATION FairSpec
CONSTANTS
  i1 = i1
  i2 = i2
  c1 = c1
  c2 = c2
  t = t
  u = u
  a = a
  Instances = {i1, i2}
  Calls = {c1, c2}
  Master = master
  Readers = {master}
  PoolSize = 2
  PoolMin = 1
  Dialects = {"postgres", "mysql"}
  Names = {t, u}
  NoName = none
  Columns = {a}
  Ids = {1, 2}
  NoId = 0
  Plans <- MCPlans
INVARIANTS OneInstance DoneMeansDone FailureKeepsAgreement
PROPERTIES EveryChangeEnds
CHECK_DEADLOCK FALSE
