SPECIFICATION Spec
CONSTANTS
  NumPre = 1
  NumPost = 2
  MaxMoves = 4
INVARIANTS HookSeesOutcome EditsArrive
PROPERTIES DoneBeforeAnswer
CHECK_DEADLOCK FALSE
