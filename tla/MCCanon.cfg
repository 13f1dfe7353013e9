CONSTANTS
  Inputs = {"a", "f", "v"}
  MaxEvents = 2
  MaxTurns = 5
  Bodies <- MCFunctions
  CodesOf <- MCCodesOf
  Trees <- MCTrees
SPECIFICATION Spec
INVARIANTS SameBehaviour BlocksNest FallsOffSeen
PROPERTIES Shrinks
CHECK_DEADLOCK FALSE
