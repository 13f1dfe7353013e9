CONSTANT Programs <- MCPrograms
SPECIFICATION Spec
INVARIANTS AsProsser OwnNameHidden
PROPERTY Terminates
CHECK_DEADLOCK FALSE
