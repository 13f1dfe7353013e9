CONSTANTS
  main = main
  head = head
  other = other
  NoName = NoName
  Files = {main, head, other}
  Main = main
  Programs <- MCPrograms
  MaxOpen = 7
SPECIFICATION Spec
INVARIANTS LinesAgree OnceOnly
PROPERTY Ends
CHECK_DEADLOCK FALSE
