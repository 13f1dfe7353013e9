------------------------------ MODULE StmtCode ------------------------------
(***************************************************************************)
(* From the statements of a function to its code list: the tree builders   *)
(* for conditions and values (expr.c), their linearization (canon.c) and   *)
(* the statements (stmt.c).  A label and a temporary are named by the      *)
(* place of the construct that makes them, a path in the syntax tree.      *)
(***************************************************************************)
EXTENDS IRCode, SequencesExt

-----------------------------------------------------------------------------
(* IR trees.  Constants are zero or not; a comparison of the source is an  *)
(* EQUAL without kids whose outcome depends on id; UNEQ(v, 0) is built for *)
(* a value used as a condition.                                            *)

Constant(b) == Node("CONST", IF b THEN "1" ELSE "0", <<>>, <<>>)
Zero == Constant(FALSE)

SeqTree(x, y) == Node("SEQ", "", <<>>, <<x, y>>)
\* An address names a variable (id) or a temporary (at).
Indir(addr) == Node("INDIR", addr.id, addr.at, <<addr>>)
AssignTree(addr, x) == Node("ASSIGN", addr.id, addr.at, <<addr, x>>)
Var(id) == Node("ADDR", id, <<>>, <<>>)
Temporary(at) == Node("ADDR", "", at, <<>>)
IsTemporary(addr) == addr.at # <<>>

RECURSIVE RightTree(_)
RightTree(x) == IF x.op = "SEQ" THEN RightTree(x.kids[2]) ELSE x

RECURSIVE ReplaceRight(_, _)
ReplaceRight(x, y) ==
  IF x.op = "SEQ" THEN SeqTree(x.kids[1], ReplaceRight(x.kids[2], y)) ELSE y

Logical == {"LOGAND", "LOGOR", "EQUAL", "UNEQ", "NOT"}

\* The end of cc_expr_value: reading a temporary counts as a reference.
CountTemporary(x) ==
  LET r == RightTree(x) IN
  IF r.op = "INDIR" /\ IsTemporary(r) THEN ReplaceRight(x, [r EXCEPT !.id = "counted"])
  ELSE x

\* cc_expr_condition for a condition that is already a bool expression.
ConditionOf(c, x, y, at) ==
  IF IsConstant(c) THEN IF IsTrue(c) THEN x ELSE y
  ELSE SeqTree(Node("COND", "", <<>>,
                    <<c, AssignTree(Temporary(at), x), AssignTree(Temporary(at), y)>>),
               Indir(Temporary(at)))

\* cc_expr_value
ValueTree(x, at) ==
  LET r == RightTree(x) IN
  CountTemporary(
    IF r.op = "ASSIGN" THEN SeqTree(x, Indir(r.kids[1]))
    ELSE IF r.op \in Logical
      THEN ReplaceRight(x, ConditionOf(r, Constant(TRUE), Zero, at))
    ELSE x)

\* cc_expr_bool
BoolTree(x, at) ==
  IF RightTree(x).op \in Logical THEN x
  ELSE LET v == ValueTree(x, at) IN
       IF IsConstant(v) THEN v ELSE Node("UNEQ", "", <<>>, <<v, Zero>>)

\* cc_expr_logicand, cc_expr_logicor
LogicalTree(op, x, y) ==
  IF IsConstant(x) /\ IsConstant(y)
  THEN Constant(IF op = "LOGAND" THEN IsTrue(x) /\ IsTrue(y) ELSE IsTrue(x) \/ IsTrue(y))
  ELSE Node(op, "", <<>>, <<x, y>>)

\* The tree of a source expression e at path at: the cc_expr_parse_ functions
\* above the comparisons.
RECURSIVE ParseTree(_, _)
ParseTree(e, at) ==
  LET Kid(n) == ParseTree(e.k[n], Append(at, n))
      KidBool(n) == BoolTree(Kid(n), Append(at, n))
      KidValue(n) == ValueTree(Kid(n), Append(at, n))
  IN CASE e.x = "const" -> Constant(e.id = "1")
       [] e.x = "var" -> Indir(Var(e.id))
       [] e.x = "cmp" -> Node("EQUAL", e.id, <<>>, <<>>)
       [] e.x = "call" -> Node("CALL", e.id, <<>>, <<>>)
       [] e.x = "asg" -> AssignTree(Var(e.id), KidValue(1))
       [] e.x = "comma" -> SeqTree(Kid(1), Kid(2))
       [] e.x = "not" -> Node("NOT", "", <<>>, <<KidBool(1)>>)
       [] e.x = "and" -> LogicalTree("LOGAND", KidBool(1), KidBool(2))
       [] e.x = "or" -> LogicalTree("LOGOR", KidBool(1), KidBool(2))
       [] e.x = "cond" -> ConditionOf(KidBool(1), KidValue(2), KidValue(3), at)

RECURSIVE CountedIn(_)
CountedIn(x) ==
  (IF x.op = "INDIR" /\ x.id = "counted" THEN {x.at} ELSE {})
    \cup UNION {CountedIn(x.kids[n]) : n \in DOMAIN x.kids}

-----------------------------------------------------------------------------
(* Codes and cc_canon_expr_linearize.                                      *)

JumpIf(x, t, f) == Code("CJMP", x, t, f)
Exp(x) == Code("EXP", x, NoLabel, NoLabel)
Ret(x) == Code("RET", x, Exit, NoLabel)
Failed == Code("ASSERT", NoTree, NoLabel, NoLabel)

\* What cc_canon_expr_linearize appends, and its result.
Linear(codes, val) == [codes |-> codes, val |-> val]

Inverted(x) == [x EXCEPT !.op = IF x.op = "EQUAL" THEN "UNEQ" ELSE "EQUAL"]

\* "if flab != NULL, invert op"
CompareJump(x, t, f) ==
  IF f # NoLabel THEN JumpIf(Inverted(x), f, t) ELSE JumpIf(x, t, f)

\* "omit used temporary assignment"
Needed(addr, counted) == IsTemporary(addr) => addr.at \in counted

\* Labels that the construct at path at makes.
L(at, n) == at \o <<0, n>>

ConstCodes(x, t, f) ==
  LET l == IF IsTrue(x) THEN t ELSE f
  IN IF l = NoLabel THEN <<>> ELSE <<Jump(l)>>

\* r is the linearized right operand.
AssignCodes(x, r, counted) ==
  IF Needed(x, counted) THEN Append(r.codes, Exp([x EXCEPT !.kids[2] = r.val])) ELSE r.codes

\* x is compared with kids that are linear already.
CompareCodes(x, v, t, f) ==
  Append(v.codes,
         CompareJump(IF x.kids = <<>> THEN x ELSE [x EXCEPT !.kids[1] = v.val], t, f))

\* && and ||: the second operand follows the label l.
SecondAt(l, first, second) == first \o <<Label(l)>> \o second

CondCodes(c, yes, no, at) ==
  c \o <<Label(L(at, 1))>> \o yes \o <<Jump(L(at, 3)), Label(L(at, 2))>> \o no
    \o <<Label(L(at, 3))>>

Branching(t, f) == t # NoLabel /\ f # NoLabel

RECURSIVE Linearize(_, _, _, _, _)
Linearize(x, t, f, counted, at) ==
  LET Kid(n, kt, kf) == Linearize(x.kids[n], kt, kf, counted, Append(at, n))
      Plain(n) == Kid(n, NoLabel, NoLabel)
      Void(codes) == Linear(codes, NoTree)
  IN CASE x.op = "CONST" -> Linear(ConstCodes(x, t, f), x)
       [] x.op = "ASSIGN" -> Void(AssignCodes(x, Plain(2), counted))
       [] x.op \in {"LOGAND", "LOGOR", "NOT"} /\ ~Branching(t, f) -> Void(<<Failed>>)
       [] x.op = "LOGAND" /\ Branching(t, f) ->
            Void(SecondAt(L(at, 1), Kid(1, L(at, 1), f).codes, Kid(2, t, f).codes))
       [] x.op = "LOGOR" /\ Branching(t, f) ->
            Void(SecondAt(L(at, 1), Kid(1, t, L(at, 1)).codes, Kid(2, t, f).codes))
       [] x.op = "NOT" /\ Branching(t, f) -> Void(Kid(1, f, t).codes)
       [] x.op \in {"EQUAL", "UNEQ"} ->
            Void(CompareCodes(x, IF x.kids = <<>> THEN Void(<<>>) ELSE Plain(1), t, f))
       [] x.op = "INDIR" -> Linear(<<>>, x)
       [] x.op = "CALL" -> Linear(<<Exp(x)>>, x)
       [] x.op = "SEQ" -> Linear(Plain(1).codes \o Plain(2).codes, Plain(2).val)
       [] x.op = "COND" ->
            Void(CondCodes(Kid(1, L(at, 1), L(at, 2)).codes, Plain(2).codes, Plain(3).codes, at))

Expression(x, t, f, at) == Linearize(x, t, f, CountedIn(x), at)

-----------------------------------------------------------------------------
(* Statements.                                                             *)

\* struct tagCCLoopContext and struct tagCCSwitchContext; level 0 is NULL.
NoContext == [level |-> 0, cont |-> NoLabel, exit |-> NoLabel]
Inner(loop, swtch, cont, exit) ==
  [level |-> 1 + (IF loop.level > swtch.level THEN loop.level ELSE swtch.level),
   cont |-> cont, exit |-> exit]

\* What a statement appends to the code list, the cases it gives the switch
\* around it in order, that switch's default, and whether it is accepted.
Part(codes, cases, dflt, ok) ==
  [codes |-> codes, cases |-> cases, dflt |-> dflt, ok |-> ok]
Codes(codes) == Part(codes, <<>>, NoLabel, TRUE)
Refused == Part(<<>>, <<>>, NoLabel, FALSE)

Distinct(cases) ==
  \A i, j \in DOMAIN cases : cases[i].value = cases[j].value => i = j

\* One statement after the other.  cc_find_case and "case value is same".
Then(p, q) ==
  LET cases == p.cases \o q.cases
      twice == p.dflt # NoLabel /\ q.dflt # NoLabel
  IN Part(p.codes \o q.codes, cases,
          IF p.dflt # NoLabel THEN p.dflt ELSE q.dflt,
          p.ok /\ q.ok /\ Distinct(cases) /\ ~twice)

\* Named labels have negative numbers.
Named(n) == <<0 - n>>

\* Mutant: the loop is nearer than the switch in it.
BreakLoop(loop, swtch) == IF loop.level > 0 THEN loop.exit ELSE swtch.exit

\* "check the nearest loop or switch"
BreakTarget(loop, swtch) ==
  IF swtch.level > 0 /\ loop.level <= swtch.level THEN swtch.exit ELSE loop.exit

\* cc_expr_equal of the switch's value, which is 0 or 1, and a case's.
CaseTest(v, value) ==
  IF IsConstant(v) THEN Constant(value = IF IsTrue(v) THEN 1 ELSE 0)
  ELSE Node("EQUAL", "case", <<value>>, <<v>>)

\* The compare codes that cc_stmt_switch inserts before the body.
Dispatch(v, body, end) ==
  v.codes
    \o [n \in DOMAIN body.cases |->
          JumpIf(CaseTest(v.val, body.cases[n].value), body.cases[n].label, NoLabel)]
    \o <<Jump(IF body.dflt # NoLabel THEN body.dflt ELSE end)>>

LabelPart(l) == Codes(<<Label(l)>>)
JumpPart(l) == Codes(<<Jump(l)>>)
Parts(parts) == FoldLeft(Then, Codes(<<>>), parts)

Compound(parts) ==
  Then(Then(Codes(<<Code("BLKBEG", NoTree, NoLabel, NoLabel)>>), Parts(parts)),
       Codes(<<Code("BLKEND", NoTree, NoLabel, NoLabel)>>))

\* cc_parser_decllocal for a variable without an initializer.
LocalVar(id) == Codes(<<Code("LOCVAR", Var(id), NoLabel, NoLabel)>>)

LabelStmt(n, stmt) == Then(LabelPart(Named(n)), stmt)

GotoStmt(n) == JumpPart(Named(n))

\* The condition jumps to L1 or L2.
IfElse(cond, yes, no, at) ==
  Parts(<<cond, LabelPart(L(at, 1)), yes, JumpPart(L(at, 3)), LabelPart(L(at, 2)), no,
          LabelPart(L(at, 3))>>)

\* Every loop: continue goes to L1, its exit is L3.
LoopContext(loop, swtch, at) == Inner(loop, swtch, L(at, 1), L(at, 3))

While(cond, stmt, at) ==
  Parts(<<LabelPart(L(at, 1)), cond, LabelPart(L(at, 2)), stmt, JumpPart(L(at, 1)),
          LabelPart(L(at, 3))>>)

DoWhile(cond, stmt, at) ==
  Parts(<<LabelPart(L(at, 2)), stmt, LabelPart(L(at, 1)), cond, LabelPart(L(at, 3))>>)

\* continue goes to the third expression
For(first, cond, step, stmt, at) ==
  Parts(<<first, LabelPart(L(at, 4)), cond, LabelPart(L(at, 2)), stmt, LabelPart(L(at, 1)),
          step, JumpPart(L(at, 4)), LabelPart(L(at, 3))>>)

Break(loop, swtch) ==
  IF loop.level = 0 /\ swtch.level = 0 THEN Refused ELSE JumpPart(BreakTarget(loop, swtch))

Continue(loop) == IF loop.level = 0 THEN Refused ELSE JumpPart(loop.cont)

\* v is the linearized value, or nothing.
Return(v) == Codes(Append(v.codes, Ret(v.val)))

Case(value, stmt, swtch, at) ==
  Then(Part(<<Label(L(at, 1))>>, <<[value |-> value, label |-> L(at, 1)]>>, NoLabel,
            swtch.level > 0), stmt)

DefaultStmt(stmt, swtch, at) ==
  Then(Part(<<Label(L(at, 1))>>, <<>>, L(at, 1), swtch.level > 0), stmt)

Switch(v, stmt, at) ==
  Part(Dispatch(v, stmt, L(at, 3)) \o stmt.codes \o <<Label(L(at, 3))>>, <<>>, NoLabel, stmt.ok)

\* The expressions of a statement: as a condition, for its effect, as a value.
CondCode(e, t, f, at) == Codes(Expression(BoolTree(ParseTree(e, at), at), t, f, at).codes)
EffectCode(e, at) == Codes(Expression(ParseTree(e, at), NoLabel, NoLabel, at).codes)
ValueCode(e, at) == Expression(ValueTree(ParseTree(e, at), at), NoLabel, NoLabel, at)

\* cc_stmt_statement
RECURSIVE Statement(_, _, _, _)
Statement(s, at, loop, swtch) ==
  LET E(n) == at \o <<10 + n>>
      Body(n, lp, sw) == Statement(s.k[n], Append(at, n), lp, sw)
      InLoop(n) == Body(n, LoopContext(loop, swtch, at), swtch)
      Same(n) == Body(n, loop, swtch)
      Cond(n, t, f) == CondCode(s.e[n], L(at, t), L(at, f), E(n))
      Effect(n) == EffectCode(s.e[n], E(n))
  IN CASE s.s = "empty" -> Codes(<<>>)
       [] s.s = "exp" -> Effect(1)
       [] s.s = "decl" -> LocalVar(s.e[1].id)
       [] s.s = "block" -> Compound([n \in DOMAIN s.k |-> Same(n)])
       [] s.s = "label" -> LabelStmt(s.n, Same(1))
       [] s.s = "goto" -> GotoStmt(s.n)
       [] s.s = "if" -> IfElse(Cond(1, 1, 2), Same(1), Same(2), at)
       [] s.s = "while" -> While(Cond(1, 2, 3), InLoop(1), at)
       [] s.s = "do" -> DoWhile(Cond(1, 2, 3), InLoop(1), at)
       [] s.s = "for" -> For(Effect(1), Cond(2, 2, 3), Effect(3), InLoop(1), at)
       [] s.s = "break" -> Break(loop, swtch)
       [] s.s = "continue" -> Continue(loop)
       [] s.s = "return" ->
            Return(IF s.e = <<>> THEN Linear(<<>>, NoTree) ELSE ValueCode(s.e[1], E(1)))
       [] s.s = "case" -> Case(s.n, Same(1), swtch, at)
       [] s.s = "default" -> DefaultStmt(Same(1), swtch, at)
       [] s.s = "switch" ->
            Switch(ValueCode(s.e[1], E(1)),
                   Body(1, loop, Inner(loop, swtch, NoLabel, L(at, 3))), at)

\* cc_parser_funcdefinition: the code list of a function, whose body is s.
Function(s) ==
  Then(Then(Codes(<<Code("FENTER", NoTree, NoLabel, NoLabel)>>),
            Statement(s, <<>>, NoContext, NoContext)),
       Codes(<<Label(Exit), Code("FEXIT", NoTree, NoLabel, NoLabel)>>))

\* cc_stmt_label: no label is defined twice; cc_ir_check_undeflabels
Accepted(part) ==
  /\ part.ok
  /\ \A n \in DOMAIN part.codes :
       LET c == part.codes[n] IN
       /\ c.op = "LABEL" => LabelsAt(part.codes, c.t) = {n}
       /\ c.op = "JMP" => LabelsAt(part.codes, c.t) # {}
=============================================================================
