---------------------------- MODULE StmtMeaning -----------------------------
(***************************************************************************)
(* What a function does, twice: as C99 says of its statements, and as its  *)
(* code list says when it is executed code by code.  Both give the trace   *)
(* of calls, assignments and returned values, up to MaxEvents of them.     *)
(* Whatever the function reads is decided by an oracle: its answer may     *)
(* change with every event and not in between.                             *)
(***************************************************************************)
EXTENDS StmtCode, TLC

CONSTANTS
  Inputs,     \* variables, comparisons and calls whose values are not known
  MaxEvents,  \* bound: events of a trace
  MaxTurns    \* bound: iterations and gotos; a longer run goes on for ever

ASSUME MeaningAssumption == MaxEvents \in Nat /\ MaxTurns \in Nat

Oracles == [0 .. MaxEvents -> [Inputs -> BOOLEAN]]

\* mode: how the run goes on.  "go", or a statement that leaves others behind,
\* or "seek": nothing happens until label is reached, or "cut" at a bound.
Start == [trace |-> <<>>, env |-> <<>>, mode |-> "go", label |-> 0, turns |-> MaxTurns]

Event(st, kind, id, val) ==
  LET trace == Append(st.trace, [kind |-> kind, id |-> id, val |-> val])
  IN [st EXCEPT !.trace = trace, !.mode = IF Len(trace) = MaxEvents THEN "cut" ELSE @]

Lookup(st, id, o) ==
  IF id \in DOMAIN st.env THEN st.env[id] ELSE o[Len(st.trace)][id]

Turn(st) ==
  IF st.turns = 0 THEN [st EXCEPT !.mode = "cut"] ELSE [st EXCEPT !.turns = @ - 1]

Bind(st, id, val) == [st EXCEPT !.env = id :> val @@ @]

\* A call's result is what the oracle says after it.
CallEvent(st, id, o) ==
  LET done == Event(st, "call", id, TRUE) IN Bind(done, id, o[Len(done.trace)][id])

AssignEvent(st, id, val) == Bind(Event(st, "assign", id, val), id, val)

-----------------------------------------------------------------------------
(* Statements.                                                             *)

Result(st, val) == [st |-> st, val |-> val]

Called(st, id) == Result(st, st.env[id])
Stored(r, id) ==
  IF r.st.mode = "cut" THEN r ELSE Result(AssignEvent(r.st, id, r.val), r.val)

RECURSIVE Evaluate(_, _, _), Rest(_, _, _)
Evaluate(e, st, o) ==
  IF st.mode = "cut" THEN Result(st, FALSE)
  ELSE CASE e.x = "const" -> Result(st, e.id = "1")
         [] e.x \in {"var", "cmp"} -> Result(st, Lookup(st, e.id, o))
         [] e.x = "call" -> Called(CallEvent(st, e.id, o), e.id)
         [] OTHER -> Rest(e, Evaluate(e.k[1], st, o), o)

\* The first operand is r.
Rest(e, r, o) ==
  CASE e.x = "asg" -> Stored(r, e.id)
    [] e.x = "comma" -> Evaluate(e.k[2], r.st, o)
    [] e.x = "not" -> Result(r.st, ~r.val)
    [] e.x \in {"and", "or"} -> IF r.val = (e.x = "and") THEN Evaluate(e.k[2], r.st, o) ELSE r
    [] e.x = "cond" -> Evaluate(e.k[IF r.val THEN 2 ELSE 3], r.st, o)

Seeks(st, n) == st.mode = "seek" /\ st.label = n
Found(st) == [st EXCEPT !.mode = "go"]
Leave(st, mode) == [st EXCEPT !.mode = mode]
Going(st) == st.mode = "go"
Reached(st, n) == IF Seeks(st, n) THEN Found(st) ELSE st
OutOfSwitch(st) == IF st.mode = "break" THEN Found(st) ELSE st

\* Labels that are sought: named ones are negative, then a case's value.
Default == 100
Sought(st, n) == [st EXCEPT !.mode = "seek", !.label = n]

\* A value is returned.
ReturnEvent(r) ==
  IF r.st.mode = "cut" THEN r.st ELSE Leave(Event(r.st, "return", "", r.val), "return")

RECURSIVE Execute(_, _, _), Tested(_, _, _), Again(_, _, _), Entered(_, _, _, _), Chosen(_, _, _)

\* The condition of a loop is r.
Tested(s, r, o) ==
  IF r.st.mode = "cut" \/ ~r.val THEN r.st ELSE Again(s, Execute(s.k[1], r.st, o), o)

LoopTest(s, st, o) ==
  Tested(s, Evaluate(s.e[IF s.s = "for" THEN 2 ELSE 1], Turn(st), o), o)

LoopStep(s, st, o) == IF s.s = "for" THEN Evaluate(s.e[3], st, o).st ELSE st

\* The body of a loop has ended: on to the next iteration, or out.
Again(s, st, o) ==
  CASE st.mode = "break" -> Found(st)
    [] st.mode \in {"go", "continue"} -> LoopTest(s, LoopStep(s, Found(st), o), o)
    [] OTHER -> st

\* A loop whose body was entered at st, from the top or at a label in it.
Entered(s, st, r, o) == IF r.mode = "seek" THEN st ELSE Again(s, r, o)

\* The value of a switch is r: its case, its default, or nothing.
Chosen(s, r, o) ==
  LET hit == Execute(s.k[1], Sought(r.st, IF r.val THEN 1 ELSE 0), o)
      other == Execute(s.k[1], Sought(r.st, Default), o)
  IN CASE r.st.mode = "cut" -> r.st
       [] r.st.mode # "cut" /\ hit.mode # "seek" -> OutOfSwitch(hit)
       [] OTHER -> IF other.mode = "seek" THEN r.st ELSE OutOfSwitch(other)

\* The label is in the first substatement of an if, or else in the second.
Searched(s, r, o) == IF r.mode = "seek" THEN Execute(s.k[2], r, o) ELSE r

Branch(s, r, o) == Execute(s.k[IF r.val THEN 1 ELSE 2], r.st, o)

Execute(s, st, o) ==
  IF st.mode \notin {"go", "seek"} \/ (st.mode = "seek" /\ s.k = <<>>) THEN st
  ELSE
  CASE s.s \in {"empty", "decl"} -> st
    [] s.s = "exp" -> Evaluate(s.e[1], st, o).st
    [] s.s = "block" -> FoldLeft(LAMBDA x, k : Execute(k, x, o), st, s.k)
    [] s.s = "label" -> Execute(s.k[1], Reached(st, 0 - s.n), o)
    [] s.s = "case" -> Execute(s.k[1], Reached(st, s.n), o)
    [] s.s = "default" -> Execute(s.k[1], Reached(st, Default), o)
    [] s.s = "goto" -> [st EXCEPT !.mode = "goto", !.label = 0 - s.n]
    [] s.s \in {"break", "continue"} -> Leave(st, s.s)
    [] s.s = "return" ->
         IF s.e = <<>> THEN Leave(st, "return") ELSE ReturnEvent(Evaluate(s.e[1], st, o))
    [] s.s = "if" ->
         IF Going(st) THEN Branch(s, Evaluate(s.e[1], st, o), o)
         ELSE Searched(s, Execute(s.k[1], st, o), o)
    [] s.s \in {"while", "for"} /\ Going(st) ->
         LoopTest(s, IF s.s = "for" THEN Evaluate(s.e[1], st, o).st ELSE st, o)
    [] s.s = "do" \/ (s.s \in {"while", "for"} /\ ~Going(st)) ->
         Entered(s, st, Execute(s.k[1], st, o), o)
    [] s.s = "switch" ->
         IF Going(st) THEN Chosen(s, Evaluate(s.e[1], st, o), o)
         ELSE IF st.label >= 0 THEN st
         ELSE OutOfSwitch(Execute(s.k[1], st, o))

\* A goto leaves the statements it is in and the function is searched.
RECURSIVE Whole(_, _, _), Resumed(_, _, _)
Whole(s, st, o) == Resumed(s, Execute(s, st, o), o)
Resumed(s, r, o) ==
  IF r.mode = "goto"
  THEN Whole(s, [Turn(r) EXCEPT !.mode = IF @ = "cut" THEN @ ELSE "seek"], o)
  ELSE r

Outcome(trace, how) == [trace |-> trace, how |-> how]

\* What body s of a function does.
HowEnded(r) == Outcome(r.trace, IF Going(r) THEN "end" ELSE r.mode)
Meaning(s, o) == HowEnded(Whole(s, Start, o))

-----------------------------------------------------------------------------
(* Codes.                                                                  *)

ReadTree(x, st, o) ==
  IF IsConstant(x) THEN IsTrue(x)
  ELSE IF x.op = "INDIR" /\ IsTemporary(x) THEN st.tmp[x.at]
  ELSE Lookup(st, x.id, o)

Holds(x, st, o) ==
  LET equal == IF IsConstant(x) THEN IsTrue(x)
               ELSE IF x.kids = <<>> THEN Lookup(st, x.id, o)
               ELSE IF x.id = "case"
                 THEN ReadTree(x.kids[1], st, o) = (x.at[1] = 1) /\ x.at[1] \in {0, 1}
               ELSE ~ReadTree(x.kids[1], st, o)
  IN equal = (x.op # "UNEQ")

\* pc is the next code; how says how the run has ended.
JumpTo(m, codes, l) ==
  LET at == LabelAt(codes, l)
      t == IF at <= m.pc THEN Turn(m) ELSE m
  IN IF at = 0 THEN [m EXCEPT !.how = "lost"] ELSE [t EXCEPT !.pc = at]

Advance(m) == [m EXCEPT !.pc = @ + 1]

Assigned(m, x, o) ==
  IF IsTemporary(x) THEN [m EXCEPT !.tmp = x.at :> ReadTree(x.kids[2], m, o) @@ @]
  ELSE AssignEvent(m, x.id, ReadTree(x.kids[2], m, o))

Returned(m, x, o) ==
  Leave(IF x.op = "NONE" THEN m ELSE Event(m, "return", "", ReadTree(x, m, o)), "return")

CodeStep(codes, m, c, o) ==
  CASE c.op = "FEXIT" -> [m EXCEPT !.how = IF m.mode = "return" THEN "return" ELSE "end"]
    [] c.op = "JMP" -> JumpTo(m, codes, c.t)
    [] c.op = "CJMP" ->
         LET l == IF Holds(c.x, m, o) THEN c.t ELSE c.f
         IN IF l = NoLabel THEN Advance(m) ELSE JumpTo(m, codes, l)
    [] c.op = "RET" ->
         IF c.t = NoLabel THEN Advance(Returned(m, c.x, o))
         ELSE JumpTo(Returned(m, c.x, o), codes, c.t)
    [] c.op = "EXP" ->
         Advance(IF c.x.op = "CALL" THEN CallEvent(m, c.x.id, o) ELSE Assigned(m, c.x, o))
    [] c.op = "ASSERT" -> [m EXCEPT !.how = "lost"]
    [] OTHER -> Advance(m)

\* A run that is cut before it returns goes on no further.
Ended(codes, m) ==
  CASE m.how # "" -> m.how
    [] m.how = "" /\ m.mode = "cut" -> "cut"
    [] m.how = "" /\ m.mode # "cut" /\ m.pc > Len(codes) -> "lost"
    [] OTHER -> ""

RECURSIVE Run(_, _, _)
Run(codes, m, o) ==
  IF Ended(codes, m) # "" THEN Outcome(m.trace, Ended(codes, m))
  ELSE Run(codes, CodeStep(codes, m, codes[m.pc], o), o)

\* What a code list does.
Behaviour(codes, o) ==
  Run(codes, [Start EXCEPT !.turns = 3 * MaxTurns] @@ [tmp |-> <<>>, pc |-> 1, how |-> ""], o)
=============================================================================
