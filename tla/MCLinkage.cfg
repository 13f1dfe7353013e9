CONSTANTS
  x = x
  y = y
  f = f
  g = g
  t = t
  int = int
  char = char
  Fun = Fun
  Generated = Generated
  Nothing = Nothing
  Ids = {x, y, f, g, t}
  Types = {int, char}
  Programs <- MCPrograms
  OmitInline = TRUE
  MaxSymbols = 6
  MaxLevel = 6
SPECIFICATION Spec
INVARIANTS Kept NamesResolved
PROPERTY RefinesScopes
CHECK_DEADLOCK FALSE
