SPECIFICATION FairSpec
CONSTANTS
  Count = 3
  Emails = {"a", "b"}
  First = "a"
  People = {"p"}
  Instances = {"i", "j"}
  NoInstance = "none"
  ShortLife = 1
  LongLife = 3
  Batch = 2
  Plans <- MCPlans
INVARIANTS TokensServe LogoutSticks OneSelf
PROPERTIES AllEnd
CHECK_DEADLOCK FALSE
