------------------------------- MODULE MCVarInit ------------------------------
EXTENDS VarInit

I(kind, kids, v) == [op |-> kind, kids |-> kids, v |-> v]
N(n) == I("int", <<>>, <<n>>)
S(v) == I("str", <<>>, v)
B(kids) == I("block", kids, <<>>)

\* Structures and unions of which variables are declared.
Pair == Aggregate("struct", <<Field(SInt, 0), Field(SInt, 0)>>)
Mixed == Aggregate("struct", <<Field(Char, 0), Field(SInt, 0), Field(Array(Char, 4), 0)>>)
Flags == Aggregate("struct", <<Field(SInt, 3), Field(SInt, 2), Field(SInt, 30), Field(SInt, 0)>>)
Either == Aggregate("union", <<Field(Pair, 0), Field(Char, 0)>>)
Nest == Aggregate("struct", <<Field(Pair, 0), Field(Array(SInt, 2), 0), Field(Either, 0)>>)
Text == Aggregate("struct", <<Field(SInt, 0), Field(Array(Char, 4), 0), Field(Flags, 0)>>)

\* Initializers with all braces, the last members perhaps missing.
RECURSIVE Full(_, _)
Full(ty, v) ==
  LET Members(types) ==
        LET all == [n \in DOMAIN types |-> Full(types[n], v + n)] IN
        {B(k) : k \in UNION {{s \in [1 .. m -> UNION ToSet(all)] : \A i \in 1 .. m : s[i] \in all[i]} :
                               m \in 1 .. Len(types)}}
  IN CASE ty.op = "int" -> {N(v)}
       [] ty.op = "char" -> {N(v)}
       [] ty.op = "struct" ->
            IF \E n \in DOMAIN ty.fields : ty.fields[n].bits > 0
            THEN {B([k \in 1 .. m |-> N(k)]) : m \in 1 .. Len(ty.fields)}
            ELSE Members([n \in DOMAIN ty.fields |-> ty.fields[n].ty])
       [] ty.op = "union" -> {B(<<i>>) : i \in Full(ty.fields[1].ty, v)}
       [] ty.op = "array" ->
            Members([n \in 1 .. (IF ty.size = 0 THEN 3 ELSE ty.size \div Element(ty).size) |-> Element(ty)])
              \cup (IF Element(ty).op = "char" THEN {S(<<v, 7, 0>>), S(<<v, 7, 8, 0>>)} ELSE {})

MemberTypes(ty) ==
  CASE ty.op = "struct" -> [n \in DOMAIN ty.fields |-> ty.fields[n].ty]
    [] ty.op = "union" -> <<ty.fields[1].ty>>
    [] OTHER -> [n \in 1 .. (IF ty.size = 0 THEN 3 ELSE ty.size \div Element(ty).size) |-> Element(ty)]

RECURSIVE Complete(_, _)
Complete(ty, init) ==
  IF init.op # "block" THEN TRUE
  ELSE /\ Len(init.kids) = Len(MemberTypes(ty))
       /\ Complete(MemberTypes(ty)[Len(init.kids)], init.kids[Len(init.kids)])

\* The same with braces left out: those of a member that is complete, or that
\* nothing follows (tail), and whose first value has none.
RECURSIVE Items(_, _, _, _)
Items(ty, init, n, tail) ==
  IF n > Len(init.kids) THEN {<<>>}
  ELSE LET kid == init.kids[n]
           kty == MemberTypes(ty)[n]
           last == tail /\ n = Len(init.kids)
           braced == IF IsBlock(kid) THEN {<<B(k)>> : k \in Items(kty, kid, 1, TRUE)} ELSE IF IsString(kid) THEN {<<kid>>, <<B(<<kid>>)>>} ELSE {<<kid>>}
           open == IF IsBlock(kid) /\ (last \/ Complete(kty, kid))
                   THEN {k \in Items(kty, kid, 1, last) : ~IsBlock(k[1])} ELSE {}
       IN {p \o q : p \in braced \cup open, q \in Items(ty, init, n + 1, tail)}

\* A whole string that is shorter than its array is written with braces.
Written(ty, full) ==
  IF IsBlock(full) THEN {B(k) : k \in Items(ty, full, 1, TRUE)}
  ELSE {B(<<full>>)} \cup (IF ty.size \in {0, Len(full.v)} THEN {full} ELSE {})

Types == {Pair, Mixed, Flags, Either, Nest, Text, Array(Pair, 2), Array(Pair, 0), Array(Char, 4), Array(Char, 0),
          Array(Array(SInt, 2), 0), Array(Mixed, 2), Array(Flags, 2)}

\* The structure or union of which a type is made, or any that is declared before.
AsDeclared(ty) == [n \in DOMAIN ty.fields |-> Field(ty.fields[n].ty, ty.fields[n].bits)]
RECURSIVE Base(_)
Base(ty) == IF ty.op = "array" THEN Base(Element(ty)) ELSE IF IsScalar(ty) THEN Pair ELSE ty
Object(ty, full, init, excess) ==
  [op |-> Base(ty).op, fields |-> AsDeclared(Base(ty)), ty |-> ty, full |-> full,
   init |-> init, excess |-> excess]

MCObjects ==
  UNION {UNION {{Object(ty, f, i, FALSE) : i \in Written(ty, f)}
                \cup (IF ty.size > 0 /\ IsBlock(f) /\ Complete(ty, f)
                      THEN {Object(ty, f, [i EXCEPT !.kids = Append(@, N(9))], TRUE) : i \in Written(ty, f)}
                      ELSE {}) :
                f \in Full(ty, 1)} : ty \in Types}

-----------------------------------------------------------------------------
Short == Type("int", 2, 2, <<>>, <<>>)
LongLong == Type("int", 8, 4, <<>>, <<>>)
Shorts == Aggregate("struct", <<Field(Char, 0), Field(Short, 0)>>)

\* Types that need padding before or after them, a flexible array, a structure that
\* is not defined yet; bit-fields that fill their unit together, or do not fit.
Kinds ==
  {Field(ty, 0) : ty \in {Char, LongLong, Shorts, Array(SInt, 0), Type("struct", 0, 1, <<>>, <<>>)}}
    \cup {Field(SInt, b) : b \in {1, 31}}
    \cup {Field(Char, 5), Field(LongLong, 40)}

MaxFields == 4
MCDeclarations ==
  UNION {[1 .. n -> Kinds] : n \in 1 .. MaxFields}
    \cup {AsDeclared(ty) : ty \in {Pair, Mixed, Flags, Either, Nest, Text}}
=============================================================================
