------------------------------- MODULE MCCanon --------------------------------
EXTENDS CanonMeaning

\* Expressions: a is a comparison, f a call, v a variable.
X(x, id, k) == [x |-> x, id |-> id, k |-> k]
One == X("const", "1", <<>>)
A == X("cmp", "a", <<>>)
F == X("call", "f", <<>>)
V == X("var", "v", <<>>)
SSet(e) == X("asg", "v", <<e>>)
SNot(e) == X("not", "", <<e>>)
SAnd(d, e) == X("and", "", <<d, e>>)
SOr(d, e) == X("or", "", <<d, e>>)
SCond(c, d, e) == X("cond", "", <<c, d, e>>)
SComma(d, e) == X("comma", "", <<d, e>>)

S(s, e, n, k) == [s |-> s, e |-> e, n |-> n, k |-> k]
SEmpty == S("empty", <<>>, 0, <<>>)
SDo(e) == S("exp", <<e>>, 0, <<>>)
SBlock(k) == S("block", <<>>, 0, k)
SDecl == S("decl", <<V>>, 0, <<>>)
SIf(e, k, j) == S("if", <<e>>, 0, <<k, j>>)
SWhile(e, k) == S("while", <<e>>, 0, <<k>>)
SDoWhile(k, e) == S("do", <<e>>, 0, <<k>>)
SFor(i, c, e, k) == S("for", <<i, c, e>>, 0, <<k>>)
SSwitch(e, k) == S("switch", <<e>>, 0, <<k>>)
SCase(n, k) == S("case", <<>>, n, <<k>>)
SDefault(k) == S("default", <<>>, 0, <<k>>)
SMark(n, k) == S("label", <<>>, n, <<k>>)
SGoto(n) == S("goto", <<>>, n, <<>>)
SBreak == S("break", <<>>, 0, <<>>)
SContinue == S("continue", <<>>, 0, <<>>)
SReturn(e) == S("return", <<e>>, 0, <<>>)

Conditions ==
  {One, A, F, V, SNot(A), SAnd(A, F), SOr(F, A), SCond(A, F, V), SComma(F, V), SSet(F),
   SAnd(SNot(F), SOr(A, V)), SNot(SAnd(F, A)), SOr(SAnd(A, F), One)}
Small == {SDo(F), SBreak, SContinue, SReturn(A), SGoto(1)}
Ifs == {SIf(A, p, q) : p \in Small, q \in {SEmpty, SDo(F)}}
LoopBodies == Small \cup Ifs
Loops ==
  {SWhile(c, p) : c \in {A, One}, p \in LoopBodies}
    \cup {SDoWhile(p, c) : c \in {A, F}, p \in LoopBodies}
    \cup {SFor(SDo(F).e[1], A, SSet(F), p) : p \in LoopBodies}
Switches ==
  {SSwitch(V, SBlock(<<SCase(1, p), q, SDefault(r)>>)) :
     p \in {SDo(F), SBreak, SWhile(A, SIf(F, SBreak, SContinue))}, q \in {SBreak, SDo(F), SCase(0, SGoto(1))},
     r \in {SDo(F), SReturn(V), SEmpty}}
    \cup {SSwitch(F, SBlock(<<SCase(0, p), SCase(2, q)>>)) : p \in {SDo(F), SBreak}, q \in Small \ {SContinue}}

\* Loops that are entered in the middle, and from where they are left.
JumpsIn ==
  {<<SIf(V, SWhile(A, SBlock(<<p, SMark(1, SDo(F)), q>>)), SGoto(1))>> :
     p \in {SDecl, SReturn(A), SBreak}, q \in {SDo(F), SContinue, SReturn(F), SBreak}}
    \cup {<<SGoto(1), SDoWhile(SBlock(<<SDo(SSet(F)), SMark(1, p)>>), V)>> : p \in LoopBodies \ {SGoto(1)}}
    \cup {<<SFor(F, A, SSet(F), SSwitch(V, SBlock(<<SCase(0, p), q, SCase(1, SMark(1, SContinue))>>)))>> :
            p \in LoopBodies, q \in {SEmpty, SBreak}}

MCBodies ==
  {<<SIf(c, SDo(F), SReturn(A))>> : c \in Conditions}
    \cup {<<SDo(SSet(c)), SReturn(V)>> : c \in Conditions}
    \cup {<<SReturn(SCond(c, d, F))>> : c \in Conditions, d \in {A, SSet(F), SNot(V)}}
    \cup {<<SWhile(c, SDo(F))>> : c \in Conditions}
    \cup {<<p, SMark(1, SDo(F)), SReturn(V)>> : p \in Loops \cup Switches}
    \cup {<<SMark(1, SBlock(<<SDecl, SDo(SSet(F)), p>>)), SReturn(V)>> :
            p \in {SGoto(1), SIf(A, SGoto(1), SEmpty), SReturn(F)}}
    \cup {<<SWhile(A, SSwitch(V, SBlock(<<SCase(1, p), SDefault(SBreak)>>)))>> :
            p \in {SContinue, SBreak, SReturn(A)}}
    \cup JumpsIn

MCFunctions == {b \in {SBlock(k) : k \in MCBodies} : Accepted(Function(b))}
MCCodesOf == [b \in MCFunctions |-> Function(b).codes]
MCTrees ==
  {NoTree} \cup UNION {{MCCodesOf[b][i].x : i \in DOMAIN MCCodesOf[b]} : b \in MCFunctions}
=============================================================================
