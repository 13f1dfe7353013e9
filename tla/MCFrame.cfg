\* Deadlock is not checked: a function's list of triples ends.
CONSTANTS
  d1 = d1
  d2 = d2
  d3 = d3
  NoDag = NoDag
  Dags <- MCDags
  DagSize <- MCDagSize
  VarSizes <- MCVarSizes
  MaxSeq = 5
  MaxLevel = 2
SPECIFICATION Spec
INVARIANTS TypeOK NoOverlap FrameReserved
PROPERTIES SlotStable LeaveReclaims
CHECK_DEADLOCK FALSE
