\* Deadlock is not checked: a function's list of triples ends.
CONSTANTS
  va = va
  vb = vb
  vs = vs
  ck = ck
  ap = ap
  v1 = v1
  v2 = v2
  v3 = v3
  la = la
  l1 = l1
  l2 = l2
  fa = fa
  f1 = f1
  f2 = f2
  i1 = i1
  i2 = i2
  i3 = i3
  is = is
  none = none
  NoDag = none
  Dags <- IntegerDags
  Parts <- IntegerParts
  Ty <- IntegerTy
  Imms <- MCImms
  Addrs <- MCAddrs
  Vars <- IntegerVars
  Values <- MCValues
  Kid <- NoKid
  Inds = {}
  Functions = {"arithmetic", "division", "calls"}
  Triples <- IntegerTriples
  Length <- IntegerLength
  MaxSeq = 5
SPECIFICATION Spec
SYMMETRY Symmetric
INVARIANTS TypeOK UsersMatch ValuesKept OperandsHold NothingLost NothingSetAside NoAssertionFails
CHECK_DEADLOCK FALSE
