------------------------------ MODULE MCLinkage -------------------------------
EXTENDS Linkage

CONSTANTS x, y, f, g, t, int, char

D(at, id, type, storage, init) ==
  [at |-> at, id |-> id, type |-> type, storage |-> storage, init |-> init]

Object(id, storages, inits) ==
  {D("file", id, int, s, b) : s \in storages, b \in inits}
Function(id, storages, bodies) ==
  {D("file", id, Fun, s, b) : s \in storages, b \in bodies}

\* x is an object that blocks declare extern and the file defines.
ExternX ==
  Object(x, {"none"}, BOOLEAN)
  \cup {D("block", x, int, "extern", FALSE), D("block", x, int, "none", TRUE)}

\* y is one that other files may define, a parameter, and an object of blocks.
ObjectY ==
  Object(y, {"none", "extern", "static"}, {FALSE})
  \cup {D("param", y, int, "none", FALSE)}
  \cup {D("block", y, int, s, FALSE) : s \in {"none", "static"}}

\* t is a type of the file and of blocks, and an object of blocks.
TypeT ==
  {D("file", t, int, "typedef", FALSE), D("block", t, char, "typedef", FALSE),
   D("block", t, int, "none", FALSE)}

FunctionF == Function(f, {"none", "extern"}, BOOLEAN)
FunctionG == Function(g, {"static"}, BOOLEAN) \cup Function(g, {"inline"}, {TRUE})
\* A name that is a function of the file and a parameter.
ParameterF == {D("file", f, Fun, "none", TRUE), D("param", f, int, "none", FALSE)}

MCPrograms ==
  {ExternX \cup Function(f, {"none"}, {TRUE}), ObjectY \cup Function(f, {"none"}, {TRUE}),
   FunctionF \cup FunctionG, TypeT \cup ParameterF}

\* A static object of a block, with an initializer.
StaticPrograms ==
  {{D("block", x, int, "static", TRUE)} \cup Function(f, {"none"}, {TRUE})}
=============================================================================
