CONSTANT Programs <- MCCopies
SPECIFICATION Spec
INVARIANT AsProsser
CHECK_DEADLOCK FALSE
