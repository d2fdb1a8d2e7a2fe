SPECIFICATION Spec
CONSTANTS
  Count = 3
  Clouds = {"cloud"}
  NoStore = nowhere
  NoRow = gone
  NoContent = nothing
  Databases = {"sql", "mongodb"}
  Plans <- MCPlans
INVARIANTS RowsTrue NothingLeft ReadsServe
CHECK_DEADLOCK FALSE
