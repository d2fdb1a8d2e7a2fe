SPECIFICATION Spec
CONSTANTS
  c1 = c1
  c2 = c2
  user = user
  post = post
  Calls = {c1, c2}
  NoCall = none
  Names = {user, post}
  NoName = nothing
  ColumnNames = {a, b}
  RelationName = r
  Ids = {1, 2, 3}
  Plans <- MCPlans
INVARIANTS Exclusive Agreement ValuesKept
CHECK_DEADLOCK FALSE
