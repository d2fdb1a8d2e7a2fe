SPECIFICATION ChatSpec
CONSTANTS
  i1 = i1
  i2 = i2
  Count = 3
  Instances <- MCInstances
  Setups <- MCSetups
  Page = 10
  Together = 2
  MaxMishaps = 2
  Ahead = 2
INVARIANTS Answered AsksLatest InOrder NothingForgotten
CHECK_DEADLOCK FALSE
