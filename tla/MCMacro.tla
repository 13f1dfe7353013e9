-------------------------------- MODULE MCMacro -------------------------------
EXTENDS MacroMeaning

Id(s) == Token("id", s)
P(s) == Token(s, s)
One == Token("num", "1")
Open == P("(")
Close == P(")")
Text1(tks) == [kind |-> "text", toks |-> tks \o <<EndOfLine>>]
Eof == [kind |-> "text", toks |-> <<Token("eof", "")>>]
Undefine(s) == [kind |-> "undef", name |-> s]
Def(s, m) == [kind |-> "define", name |-> s, macro |-> m]
Object(s, body) == Def(s, Macro(-1, <<>>, FALSE, FALSE, body))
Function(s, params, body) == Def(s, Macro(Len(params), params, FALSE, FALSE, body))

A == Id("A")
B == Id("B")
F == Id("f")
G == Id("g")
X == Id("x")
Y == Id("y")

\* A "(" cannot be an operand of ##.
Listed == <<Text1(<<G, Open, A, P(","), F, Open, Open, A, P(","), One, Close, Close, Close>>)>>

ABodies == {<<One>>, <<A, B>>, <<B>>, <<F, Open, One, Close>>, <<>>}
BBodies == {<<A>>, <<B, A>>, <<G, Open, One, P(","), One, Close>>}
FBodies == {<<X>>, <<X, X>>, <<X, A>>, <<F, Open, X, Close>>, <<P("#"), X>>, <<X, P("##"), One>>,
            <<A, P("##"), X>>, <<G, Open, X, P(","), One, Close>>}
GBodies == {<<X, Y>>, <<X, P("##"), Y>>, <<F, Open, Y, Close, X>>, <<Y, B>>}

Texts ==
  {<<Text1(<<A>>)>>, <<Text1(<<B, A>>)>>, <<Text1(<<F, Open, A, Close, B>>)>>,
   <<Text1(<<F, Open, F, Open, One, Close, Close>>)>>, <<Text1(<<F, Open, B, Close>>)>>,
   <<Text1(<<F, One>>), Text1(<<F>>), Text1(<<Open, B>>), Text1(<<Close, A>>)>>,
   <<Text1(<<F, Open, F, Close, Open, One, Close>>)>>,
   <<Text1(<<A, Open, One, Close>>)>>,
   <<Text1(<<Id("defined"), A, Id("defined"), Open, Id("C"), Close, Id("LINE")>>), Undefine("A"), Text1(<<A, B>>)>>}

Table(a, b, f, g) ==
  <<Object("A", a), Object("B", b), Function("f", <<"x">>, f), Function("g", <<"x", "y">>, g)>>

Valid(list) == [rows |-> list \o <<Eof>>, valid |-> TRUE]
Invalid(list) == [rows |-> list \o <<Eof>>, valid |-> FALSE]

Recursive == Table(<<A, B>>, <<B, A>>, <<F, Open, X, Close>>, <<X, P("##"), Y>>)

\* Empty, missing and variable arguments; definitions repeated and withdrawn.
Variable ==
  Recursive \o
  <<Def("v", Macro(2, <<"x", "__VA_ARGS__">>, TRUE, FALSE, <<X, G, Open, Id("__VA_ARGS__"), Close>>)),
    Def("w", Macro(0, <<>>, FALSE, FALSE, <<One, P("##"), A, P("#"), X>>))>>

Calls ==
  {<<Text1(<<Id("v"), Open, A, P(","), One, P(","), B, Close>>)>>,
   <<Text1(<<G, Open, P(","), One, Close, G, Open, P(","), Close, G, Open, A, P(","), Close>>)>>,
   <<Text1(<<Id("w")>>), Text1(<<Open, Close, Id("w"), One>>)>>,
   <<Object("A", <<A, B>>), Text1(<<A>>), Undefine("A"), Object("A", <<One>>), Text1(<<A>>)>>,
   <<Text1(<<Id("w")>>), Object("C", <<One>>), Text1(<<Id("C"), Open, Id("C"), Close>>)>>}

Wrong ==
  {<<Text1(<<F, Open, One, P(","), One, Close>>)>>, <<Text1(<<G, Open, One, Close>>)>>,
   <<Text1(<<F, Open>>), Text1(<<One>>)>>, <<Text1(<<F, Open>>), Undefine("f"), Text1(<<One, Close>>)>>,
   <<Text1(<<Id("v"), Open, One, Close>>)>>, <<Object("A", <<One>>)>>,
   <<Function("A", <<"x">>, <<A, B>>)>>, <<Undefine("LINE")>>, <<Object("defined", <<One>>)>>,
   <<Object("C", <<P("##"), One>>)>>, <<Function("C", <<"x", "x">>, <<One>>)>>,
   <<Text1(<<Id("defined"), Open, A>>)>>}

MCPrograms ==
  {Valid(Table(a, b, f, g) \o t) :
     a \in ABodies, b \in BBodies, f \in FBodies, g \in GBodies, t \in Texts}
  \cup
  {Valid(Table(a, b, f, g) \o Listed) :
     a \in ABodies, b \in BBodies, f \in {h \in FBodies : P("##") \notin ToSet(h)}, g \in GBodies}
  \cup {Valid(Variable \o t) : t \in Calls} \cup {Invalid(Variable \o t) : t \in Wrong}

\* The copies of an argument from another replacement share its hidden set.
MCCopies ==
  {Valid(Table(a, b, <<X, X>>, <<F, Open, X, Close>>) \o <<Text1(<<B>>)>>) :
     a \in {<<One>>, <<B>>}, b \in {<<F, Open, A, Close>>, <<F, Open, One, Close>>}}
=============================================================================
