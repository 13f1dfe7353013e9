CONSTANTS
  CodeTrees <- MCCodeTrees
  Ids <- MCIds
  Temporaries = {5}
  Cells <- MCCells
  Zeroed = {1, 2}
  Pointers = {4}
  Targets = {1, 2, 3}
  FirstMemory <- MCFirst
  MaxNodes = 7
  MaxCodes = 4
  Returned = {3}
SPECIFICATION Spec
INVARIANTS SharedRight PoolFresh
CHECK_DEADLOCK FALSE
