\* Deadlock is not checked: a file ends, and a failed one is given up.
CONSTANT MaxBlocks = 7
SPECIFICATION CSSpec
INVARIANTS CSTypeOK OneBranch AllTaken ElseLast
PROPERTY RefinesGroups
CHECK_DEADLOCK FALSE
