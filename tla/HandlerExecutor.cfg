SPECIFICATION FairSpec
CONSTANTS
  r1 = r1  r2 = r2  r3 = r3  c1 = c1  c2 = c2
  Runs = {r1, r2}
  Children = {c1, c2}
  NoRun = NoRun  NoChild = NoChild
  PoolMin = 1
  PoolMax = 1
  MaxCalls = 1
  MaxMishaps = 2
INVARIANTS OwnChild CrossedOnlyByStray
PROPERTIES RunsSettle
CHECK_DEADLOCK FALSE
