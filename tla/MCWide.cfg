\* Deadlock is not checked: a function's list of triples ends.
CONSTANTS
  va = va
  vb = vb
  vs = vs
  ck = ck
  ap = ap
  v1 = v1
  v2 = v2
  v3 = v3
  la = la
  l1 = l1
  l2 = l2
  fa = fa
  f1 = f1
  f2 = f2
  i1 = i1
  i2 = i2
  i3 = i3
  is = is
  none = none
  NoDag = none
  Dags <- WideDags
  Parts <- WideParts
  Ty <- WideTy
  Imms <- MCImms
  Addrs <- MCAddrs
  Vars <- WideVars
  Values <- WideValues
  Kid <- WideKid
  Inds <- WideInds
  Functions = {"longs", "tests", "floats", "pointers", "structures", "pressure"}
  Triples <- WideTriples
  Length <- WideLength
  MaxSeq = 5
SPECIFICATION Spec
INVARIANTS PartsApart WideHolds
CHECK_DEADLOCK FALSE
