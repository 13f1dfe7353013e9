\* Deadlock is not checked: a variable is initialized once.
CONSTANTS
  Declarations <- MCDeclarations
  Objects <- MCObjects
SPECIFICATION DeclarationSpec
INVARIANTS StructTypeOK FieldsWithin FieldsApart UnitAligned PartsInitialized AcceptedExactly
CHECK_DEADLOCK FALSE
