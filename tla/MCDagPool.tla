------------------------------- MODULE MCDagPool ------------------------------
EXTENDS DagPool

\* A structure or array s in cells 1 and 2, an int x in 3, a pointer p in 4, a
\* temporary in 5.
Const(k) == Tree("CONST", k, <<>>, 0)
Addr(a) == Tree("ADDR", a, <<>>, 0)
Load(e) == Tree("INDIR", 0, <<e>>, 0)
Add(e, f) == Tree("ADD", 0, <<e, f>>, 0)
Assign(e, f) == Tree("ASSIGN", 0, <<e, f>>, 0)
S1 == Add(Addr(1), Const(1))
X == Addr(3)
P == Addr(4)
T == Addr(5)
F(id) == Tree("CALL", 1, <<>>, id)
Through == Tree("INDIR", 0, <<P>>, 3)  \* the address of "y = *p = x"

Exp(e) == [code |-> "EXP", tree |-> e]
Used(e) == [code |-> "USE", tree |-> e]

MCCodeTrees ==
  {Exp(Assign(X, Const(1))), Exp(Assign(X, Add(Load(X), Const(1)))),
   Exp(Assign(Load(P), Const(2))), Exp(Assign(S1, Load(X))), Exp(Assign(X, Load(S1))),
   Exp(Assign(P, X)), Exp(Assign(P, S1)), Exp(Assign(Through, Load(X))), Exp(Assign(T, Load(X))),
   Exp(F(1)), Exp(F(2)), Exp(Assign(T, Add(F(1), F(2)))),
   Used(Load(Load(P))), Used(Load(Through)), Used(Add(Load(X), Const(1))),
   Used(Load(Add(Load(P), Const(1)))), Used(Tree("EQUAL", 0, <<Load(S1), Load(T)>>, 0))}

MCIds == 1 .. 3
MCCells == 1 .. 5
MCFirst == {<<1, 3, 4, a, 0>> : a \in 1 .. 3}
=============================================================================
