SPECIFICATION TablesSpec
CONSTANTS
  Workers = {1, 2}
  Plans <- MCPlans
  Names = {"users", "posts", "notes"}
  Stored <- MCStored
  Absent = Absent
  NotGiven = NotGiven
  KeyOf <- MCKeyOf
  Automatic = {"createdAt", "updatedAt"}
  MaxRetries = 3
  BatchSize = 2
  MaxStumbles = 2
INVARIANTS UpdatesKeep SchemaSound HonestReport
CHECK_DEADLOCK FALSE
