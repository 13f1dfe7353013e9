------------------------------ MODULE MCGenX86 ------------------------------
(* Instances of GenX86 for TLC: functions of a few triples over a few      *)
(* nodes, over words only, or over nodes of all types and memory.          *)
EXTENDS GenX86

CONSTANTS
  va, vb, vs,      \* variables: words, and a structure
  ck, ap,          \* a constant and an address
  v1, v2, v3,      \* computed values
  la, l1, l2,      \* a 64-bit variable and two such values
  fa, f1, f2,      \* a float variable and two float values
  i1, i2, i3, is,  \* values read through va, v1, vb and vb
  none

T(op, result, lhs, rhs) ==
  [op |-> op, result |-> result, lhs |-> lhs, rhs |-> rhs,
   dies |-> {}, lives |-> {}]

\* The same triples where the left operand is used for the last time.
Dying(ts) == {[t EXCEPT !.dies = {t.lhs}] : t \in ts}

All(ops, results, ls, rs) ==
  {T(op, v, l, r) : op \in ops, v \in results, l \in ls, r \in rs}

MCImms == {ck}
MCAddrs == {ap}
MCValues == {v1, v2, v3}
PartsFor(ty) == [d \in DOMAIN ty |-> IF ty[d] = "q" THEN 2 ELSE 1]

-----------------------------------------------------------------------------
\* Integers: words only, with three values and two variables.
IntegerVars == {va, vb}
IntegerDags == {va, vb, ck, ap, v1, v2, v3}
IntegerTy == [d \in IntegerDags |-> "w"]
IntegerParts == PartsFor(IntegerTy)
NoKid == [d \in {} |-> none]
\* The nodes that are left operands.
Reused == IntegerVars \cup MCValues
Symmetric == Permutations(IntegerVars) \cup Permutations(MCValues)

\* Arithmetic, negation, shifts by a constant, and comparisons.
Arithmetic ==
  All({"ADD", "MUL", "AND"}, MCValues, Reused, Reused \cup {ck})
  \cup All({"NEG"}, MCValues, Reused, {none})
  \cup All({"LSH"}, MCValues, Reused, {ck})
  \cup All({"J"}, {none}, Reused, Reused \cup {ck})

\* Divisors are variables and constants, dividends variables or values that
\* die there.
Division ==
  All({"DIV", "MOD"}, MCValues, IntegerVars, IntegerVars \cup {ck})
  \cup Dying(All({"DIV", "MOD"}, MCValues, MCValues, IntegerVars \cup {ck}))
  \cup All({"SUB"}, MCValues, Reused, MCValues)

\* Arguments, calls, stores and the value returned.
Calling ==
  All({"CALL"}, MCValues, Reused \cup {ap}, {none})
  \cup All({"PUSH", "MOVERET"}, {none}, Reused \cup {ck, ap}, {none})
  \cup All({"MOV"}, {none}, Reused \cup {ck, ap}, Reused \cup {ck, ap})
  \cup All({"ADD"}, MCValues, Reused, MCValues \cup {ck})

IntegerFunctions == {"arithmetic", "division", "calls"}
IntegerTriples ==
  [f \in IntegerFunctions |->
     CASE f = "arithmetic" -> Arithmetic
       [] f = "division" -> Division
       [] f = "calls" -> Calling]
IntegerLength == [f \in IntegerFunctions |-> IF f = "division" THEN 5 ELSE 4]

-----------------------------------------------------------------------------
\* Wide values and memory: 64-bit ones in pairs of registers, floats in ST0,
\* words read and written through pointers, and structures, which are copied,
\* pushed and zeroed.
Floats == {fa, f1, f2}
Longs == {la, l1, l2}
WideVars == {va, vb, vs, la, fa}
WideValues == {v1, v2, l1, l2, f1, f2}
WideInds == {i1, i2, i3, is}
WideKid == (i1 :> va) @@ (i2 :> v1) @@ (i3 :> vb) @@ (is :> vb)
WideDags == WideVars \cup WideValues \cup WideInds \cup {ck, ap}
WideTy == [d \in WideDags |->
             CASE d \in Longs -> "q" [] d \in Floats -> "f" [] d \in {vs, is} -> "blk"
               [] OTHER -> "w"]
WideParts == PartsFor(WideTy)

LongTriples ==
  All({"CVT"}, {l1, l2}, Longs \cup {vb, v1}, {none})
  \cup All({"CVT"}, {v1}, Longs \cup {vb}, {none})
  \cup All({"ADD"}, {l1, l2}, {l1, l2}, Longs)
  \cup All({"MUL", "MOD"}, {l1, l2}, Longs, Longs)
  \cup All({"LSH"}, {l1, l2}, Longs, {ck})
  \cup All({"NEG"}, {l1, l2}, Longs, {none})
  \cup All({"J"}, {none}, {l1, l2}, {l1, l2})

\* Comparisons that load a variable, without the additions.
TestTriples ==
  All({"CVT"}, {l1}, {la}, {none}) \cup All({"MUL"}, {l2}, {la, l1}, {la, l1})
  \cup All({"J"}, {none}, Longs, Longs)

FloatTriples ==
  All({"CVT"}, {f1, f2}, {fa, vb, v1}, {none})
  \cup Dying(All({"CVT"}, {f1, f2, v1}, {f1, f2}, {none}))
  \cup All({"CVT"}, {v1}, {fa}, {none})
  \cup All({"ADD", "MUL", "DIV"}, {f1, f2}, Floats, {fa})
  \cup All({"NEG"}, {f1, f2}, Floats, {none})
  \cup All({"J"}, {none}, {f1, f2}, {fa})
  \cup All({"CALL"}, {f1, f2}, {vb}, {none})

Pointers ==
  All({"LOAD"}, {va}, {va}, {none})
  \cup All({"ADD"}, {v1, v2}, {ck, i1, i2}, {va, ck, i1, i2, v1})
  \cup All({"MOV"}, {none}, {ap, i1, i2, v1}, {ck, i1, i2, v1})
  \cup All({"PUSH"}, {none}, {i1, i2}, {none})

Structures ==
  All({"LOAD"}, {vb}, {vb}, {none})
  \cup All({"ADD"}, {v1, v2}, {vb}, {vb, v1})
  \cup All({"ADD"}, {v1, v2}, {i3, v1}, {vb, i3, v1})
  \cup All({"MOV"}, {none}, {ap, i3, v1}, {vs, is})
  \cup All({"PUSH"}, {none}, {vs, is}, {none})
  \cup All({"ZERO"}, {none}, {ap, i3, v1}, {none})

\* Longer functions, in which registers run short. The right operand is
\* a constant, a variable or a word read through one.
Pressure ==
  All({"LOAD"}, {va}, {va}, {none})
  \cup All({"ADD"}, {v1, v2}, {ck, i1, i2}, {ck, va, i1})
  \cup All({"MOV"}, {none}, {i1, i2, v1}, {ck, v1})
  \cup All({"PUSH"}, {none}, {i1, i2}, {none})

WideFunctions == {"longs", "tests", "floats", "pointers", "structures", "pressure"}
WideTriples ==
  [f \in WideFunctions |->
     CASE f = "longs" -> LongTriples
       [] f = "tests" -> TestTriples
       [] f = "floats" -> FloatTriples
       [] f = "pointers" -> Pointers
       [] f = "structures" -> Structures
       [] f = "pressure" -> Pressure]
WideLength == [f \in WideFunctions |-> IF f \in {"tests", "floats", "pressure"} THEN 5 ELSE 4]

\* Wide values too stay where their nodes say, every emitted code reads what its
\* triple means, and no assertion of gencode_x86.c or reg_x86.c fails.
WideHolds == ValuesKept /\ OperandsHold /\ NoAssertionFails
=============================================================================
