------------------------------- MODULE Linkage --------------------------------
(***************************************************************************)
(* The symbol tables of the compiler (symbols.c) under the declarations of *)
(* a source file (parser.c), and what is made of the symbols at its end:   *)
(* definitions, extern and public directives (backend.c).                  *)
(***************************************************************************)
EXTENDS Integers, Sequences, FiniteSets, Functions, FiniteSetsExt, SequencesExt

CONSTANTS
  Ids,            \* identifiers
  Types,          \* types of objects
  Fun,            \* the type of all functions
  Programs,       \* families of programs: the declarations there may be
  Generated,      \* the name of symbols that the compiler makes
  Nothing,
  OmitInline,     \* gccconfig._omit_inlinefunc
  MaxSymbols,     \* bound: symbols of a source file
  MaxLevel        \* bound: how deep blocks are

VARIABLES
  level,     \* gCurrentLevel
  chain,     \* gIdentifiers: the tables of the scopes, gGlobals the first
  externals, \* gExternals
  all,       \* the symbols on gGlobals' list
  symbols,   \* all symbols made so far
  function,  \* how far the parser is with a function definition
  code,      \* the symbols whose names the code of the file contains
  declared,  \* the family of the program
  linkage,   \* the linkage that C gives the names of the file
  status     \* "parsing", "refused" or "done"

tables == <<level, chain, externals, all, symbols>>
vars == <<tables, function, code, declared, linkage, status>>

SCOPE_GLOBAL == 3
SCOPE_PARAM == 4
SCOPE_LOCAL == 5

Storages == {"none", "extern", "static", "typedef", "inline"}

\* init: with an initializer or, for a definition of a function, a body.
Declarations ==
  [at : {"file", "block", "param"}, id : Ids, type : Types \cup {Fun},
   storage : Storages, init : BOOLEAN]

ASSUME LinkageAssumption ==
  /\ \A family \in Programs : family \subseteq Declarations
  /\ Fun \notin Types /\ Generated \notin Ids
  /\ (Ids \cup Types \cup {Fun, Nothing}) \cap Nat = {} /\ Ids \cap Types = {}
  /\ MaxSymbols \in Nat /\ MaxLevel \in Nat /\ OmitInline \in BOOLEAN

-----------------------------------------------------------------------------
(* Tables.  The chain has a table only for the levels that declare names.  *)

Symbol(id, type, sclass, scope, area) ==
  [id |-> id, type |-> type, sclass |-> sclass, scope |-> scope, area |-> area,
   alias |-> 0, used |-> FALSE, defined |-> FALSE, value |-> FALSE, hidden |-> FALSE]

New == Len(symbols) + 1

Lookup(id, tabs) ==
  LET found == {n \in DOMAIN tabs : id \in DOMAIN tabs[n].names} IN
  IF found = {} THEN 0 ELSE tabs[Max(found)].names[id]
GlobalOf(id) == Lookup(id, SubSeq(chain, 1, 1))
ExternalOf(id) == IF id \in DOMAIN externals THEN externals[id] ELSE 0

\* A name that is installed hides what the table had for it.
Put(names, id, sym) == [i \in DOMAIN names \cup {id} |-> IF i = id THEN sym ELSE names[i]]

Install(id, sym, lev) ==
  IF Last(chain).level < lev
  THEN Append(chain, [level |-> lev, names |-> [i \in {id} |-> sym]])
  ELSE [chain EXCEPT ![Len(chain)].names = Put(@, id, sym)]
InstallGlobal(id, sym) == [chain EXCEPT ![1].names = Put(@, id, sym)]

\* Mutant: every scope is thought to have a table.
DropTable == IF Len(chain) > 1 THEN Front(chain) ELSE chain

\* cc_symbol_exitscope
ExitScope == IF Last(chain).level = level THEN Front(chain) ELSE chain

-----------------------------------------------------------------------------
Init ==
  /\ level = SCOPE_GLOBAL
  /\ chain = <<[level |-> SCOPE_GLOBAL, names |-> [i \in {} |-> 0]]>>
  /\ externals = [i \in {} |-> 0]
  /\ all = {}
  /\ symbols = <<>>
  /\ function = "none"
  /\ code = {}
  /\ declared \in Programs
  /\ linkage = [i \in {} |-> "external"]
  /\ status = "parsing"

Refuse == status' = "refused" /\ UNCHANGED <<tables, function, code, linkage, declared>>

\* The linkage C gives the name: the first declaration decides, and a static
\* one must not follow others.
Linked(d) ==
  LET first == IF d.storage \in {"static", "inline"} THEN "internal" ELSE "external"
      known == d.id \in DOMAIN linkage IN
  linkage' = Put(linkage, d.id,
               IF ~known THEN first
               ELSE IF first = "internal" /\ linkage[d.id] = "external" THEN "mixed"
               ELSE linkage[d.id])

\* Declarations, as far as the parser looks at them in this state.
Declares(d, at) == status = "parsing" /\ d \in declared /\ d.at = at

\* Mutant: storage of the temporary area.
TempArea == "temp"

Permanent == "perm"

Typedef(d) ==
  LET p == Lookup(d.id, chain)
      where == IF level <= SCOPE_GLOBAL THEN Permanent ELSE "temp"
      symbol == Symbol(d.id, d.type, "Typedef", level, where) IN
  /\ d.storage = "typedef"
  /\ IF p # 0 /\ symbols[p].scope = level /\ symbols[p].type # d.type THEN Refuse
     ELSE /\ symbols' = Append(symbols, symbol)
          /\ chain' = Install(d.id, New, level)
          /\ all' = IF level = SCOPE_GLOBAL THEN all \cup {New} ELSE all
          /\ UNCHANGED <<level, externals, function, code, linkage, status, declared>>

-----------------------------------------------------------------------------
(* Declarations of the file: cc_parser_declglobal.                         *)

SClass(d) == CASE d.storage = "extern" -> "External" [] d.storage = "static" -> "Static"
               [] OTHER -> "Auto"

\* What an initializer makes of the symbol.
WithValue(s, d) ==
  IF ~d.init THEN s
  ELSE [s EXCEPT !.sclass = IF @ = "External" THEN "Auto" ELSE @,
                 !.defined = TRUE, !.value = TRUE]

DeclKnown(d, p) ==
  LET s == symbols[p]
      sclass == IF s.sclass = "External" THEN SClass(d) ELSE s.sclass IN
  /\ symbols' = [symbols EXCEPT ![p] = WithValue([s EXCEPT !.sclass = sclass], d)]
  /\ UNCHANGED <<chain, externals, all>>

\* Mutant: the symbol stays among the externals, and the file has another.
KeepExternal(d, p) ==
  /\ symbols' = Append(symbols, WithValue(Symbol(d.id, d.type, SClass(d), SCOPE_GLOBAL, Permanent), d))
  /\ chain' = InstallGlobal(d.id, New)
  /\ all' = all \cup {New}
  /\ UNCHANGED externals

\* A block declared it before: cc_symbol_relocate.
Relocate(d, p) ==
  /\ symbols' = [symbols EXCEPT ![p] =
       WithValue([@ EXCEPT !.sclass = SClass(d), !.type = d.type], d)]
  /\ externals' = Restrict(externals, DOMAIN externals \ {d.id})
  /\ chain' = InstallGlobal(d.id, p)
  /\ all' = all \cup {p}

DeclNew(d) ==
  /\ symbols' = Append(symbols, WithValue(Symbol(d.id, d.type, SClass(d), SCOPE_GLOBAL, Permanent), d))
  /\ chain' = InstallGlobal(d.id, New)
  /\ all' = all \cup {New}
  /\ UNCHANGED externals

Conflicts(d, p) ==
  \/ symbols[p].sclass = "Typedef" \/ symbols[p].type # d.type
  \/ d.type # Fun /\ symbols[p].defined /\ d.init

DeclGlobal(d) ==
  LET p == Lookup(d.id, chain)
      known == p # 0 /\ symbols[p].scope = SCOPE_GLOBAL
      refused == \/ d.storage = "inline"
                 \/ (known /\ Conflicts(d, p))
                 \/ (d.init /\ d.type = Fun) IN
  /\ d.storage # "typedef"
  /\ IF refused THEN Refuse
     ELSE /\ CASE known -> DeclKnown(d, p)
               [] ~known /\ ExternalOf(d.id) # 0 -> Relocate(d, ExternalOf(d.id))
               [] ~known /\ ExternalOf(d.id) = 0 -> DeclNew(d)
          /\ Linked(d)
          /\ UNCHANGED <<level, function, code, status, declared>>

FileDeclaration ==
  \E d \in declared :
    /\ Declares(d, "file") /\ function = "none" /\ Len(symbols) < MaxSymbols
    /\ DeclGlobal(d) \/ Typedef(d)

-----------------------------------------------------------------------------
(* Functions: the declarator opens the scope of the parameters, which stay *)
(* for the body of a definition.                                           *)

FunctionDeclarator ==
  /\ status = "parsing" /\ function = "none"
  /\ level' = level + 1
  /\ function' = "head"
  /\ UNCHANGED <<chain, externals, all, symbols, code, linkage, status, declared>>

DeclParam ==
  \E d \in declared :
    LET p == Lookup(d.id, chain) IN
    /\ Declares(d, "param") /\ function = "head" /\ Len(symbols) < MaxSymbols
    /\ IF p # 0 /\ symbols[p].scope = level THEN Refuse
       ELSE /\ symbols' = Append(symbols,
                 [Symbol(d.id, d.type, "Auto", level, "temp") EXCEPT !.defined = TRUE])
            /\ chain' = Install(d.id, New, level)
            /\ UNCHANGED <<level, externals, all, function, code, linkage, status, declared>>

\* A declaration: its parameters are left before it is entered.
Prototype ==
  /\ status = "parsing" /\ function = "head"
  /\ chain' = ExitScope
  /\ level' = level - 1
  /\ function' = "none"
  /\ UNCHANGED <<externals, all, symbols, code, linkage, status, declared>>

AsFunction(s, d) ==
  [s EXCEPT !.sclass = CASE d.storage = "inline" -> "Static" [] d.storage = "none" -> "Unknown"
                         [] OTHER -> SClass(d),
            !.defined = TRUE, !.hidden = OmitInline /\ d.storage = "inline"]

\* cc_parser_funcdefinition, up to the body.
FuncDefinition ==
  \E d \in declared :
    LET p == GlobalOf(d.id) IN
    /\ Declares(d, "file") /\ d.type = Fun /\ d.init /\ function = "head"
    /\ d.storage # "typedef" /\ Len(symbols) < MaxSymbols
    /\ IF p # 0 /\ (symbols[p].type # Fun \/ symbols[p].defined) THEN Refuse
       ELSE /\ IF p # 0
               THEN /\ symbols' = [symbols EXCEPT ![p] = AsFunction(@, d)]
                    /\ UNCHANGED <<chain, all>>
               ELSE /\ symbols' = Append(symbols,
                         AsFunction(Symbol(d.id, Fun, "Unknown", SCOPE_GLOBAL, Permanent), d))
                    /\ chain' = InstallGlobal(d.id, New)
                    /\ all' = all \cup {New}
            /\ function' = IF d.storage = "inline" /\ OmitInline THEN "omitted" ELSE "body"
            /\ Linked(d)
            /\ UNCHANGED <<level, externals, code, status, declared>>

InBody == status = "parsing" /\ function \in {"body", "omitted"}

\* cc_stmt_compound
EnterBlock ==
  /\ InBody /\ level < MaxLevel
  /\ level' = level + 1
  /\ UNCHANGED <<chain, externals, all, symbols, function, code, linkage, status, declared>>

LeaveBlock ==
  /\ InBody /\ level > SCOPE_LOCAL
  /\ chain' = ExitScope
  /\ level' = level - 1
  /\ UNCHANGED <<externals, all, symbols, function, code, linkage, status, declared>>

\* The outermost block ends.
LeaveBody ==
  /\ InBody /\ level = SCOPE_LOCAL
  /\ chain' = ExitScope
  /\ level' = level - 1
  /\ function' = "end"
  /\ UNCHANGED <<externals, all, symbols, code, linkage, status, declared>>

\* The temporary area is freed with all that was allocated there.
FreeTemporary ==
  [n \in DOMAIN symbols |->
     [symbols[n] EXCEPT !.area = IF @ = "temp" THEN "freed" ELSE @]]

EndFunction ==
  /\ status = "parsing" /\ function = "end"
  /\ chain' = ExitScope
  /\ level' = level - 1
  /\ symbols' = FreeTemporary
  /\ function' = "none"
  /\ UNCHANGED <<externals, all, code, linkage, status, declared>>

-----------------------------------------------------------------------------
(* Declarations of blocks: cc_parser_decllocal.                            *)

Redeclared(p) ==
  \/ symbols[p].scope >= level
  \/ symbols[p].scope = SCOPE_PARAM /\ level = SCOPE_LOCAL

LocalStorage(d) == IF d.type = Fun THEN "extern" ELSE d.storage

\* The symbol of the file that a block's extern stands for.
FileSymbol(id) ==
  LET q == GlobalOf(id) IN
  IF q # 0 /\ symbols[q].sclass # "Typedef" THEN q ELSE ExternalOf(id)

LocalSymbol(d, sclass) == Symbol(d.id, d.type, sclass, level, "temp")

DeclExtern(d) ==
  LET q == FileSymbol(d.id)
      alias == IF q # 0 THEN q ELSE New + 1
      symbol == [LocalSymbol(d, "External") EXCEPT !.alias = alias]
      external == Symbol(d.id, d.type, "External", SCOPE_GLOBAL, Permanent) IN
  IF d.init \/ (q # 0 /\ symbols[q].type # d.type) THEN Refuse
  ELSE /\ symbols' = symbols \o (IF q # 0 THEN <<symbol>> ELSE <<symbol, external>>)
       /\ externals' = IF q # 0 THEN externals ELSE Put(externals, d.id, alias)
       /\ chain' = Install(d.id, New, level)
       /\ linkage' = IF d.id \in DOMAIN linkage THEN linkage ELSE Put(linkage, d.id, "external")
       /\ UNCHANGED <<level, all, function, code, status, declared>>

\* The object is one of the file.  Its initializer is kept, but it is not the
\* object's symbol that is marked as defined.
DeclStatic(d) ==
  LET symbol == [LocalSymbol(d, "Static") EXCEPT !.alias = New + 1, !.defined = TRUE]
      object == [Symbol(Generated, d.type, "Static", SCOPE_GLOBAL, Permanent)
                   EXCEPT !.value = d.init] IN
  /\ symbols' = symbols \o <<symbol, object>>
  /\ all' = all \cup {New + 1}
  /\ chain' = Install(d.id, New, level)
  /\ UNCHANGED <<level, externals, function, code, linkage, status, declared>>

DeclAuto(d) ==
  /\ symbols' = Append(symbols, [LocalSymbol(d, "Auto") EXCEPT !.defined = TRUE])
  /\ chain' = Install(d.id, New, level)
  /\ UNCHANGED <<level, externals, all, function, code, linkage, status, declared>>

DeclLocal(d) ==
  LET p == Lookup(d.id, chain)
      storage == LocalStorage(d)
      again == /\ storage = "extern" /\ symbols[p].sclass = "External"
               /\ symbols[p].type = d.type IN
  /\ d.storage # "typedef"
  /\ IF storage = "inline" \/ (p # 0 /\ Redeclared(p) /\ ~again) THEN Refuse
     ELSE CASE storage = "extern" -> DeclExtern(d)
            [] storage = "static" -> DeclStatic(d)
            [] storage = "none" -> DeclAuto(d)

BlockDeclaration ==
  \E d \in declared :
    /\ Declares(d, "block") /\ InBody /\ level >= SCOPE_LOCAL
    /\ Len(symbols) + 1 < MaxSymbols
    /\ DeclLocal(d) \/ Typedef(d)

-----------------------------------------------------------------------------
(* Uses, and the end of the file.                                          *)

\* cc_expr_id: the symbol that an identifier's code refers to.
CodeSymbol(p) ==
  IF symbols[p].scope > SCOPE_PARAM /\ symbols[p].sclass \in {"External", "Static"}
  THEN symbols[p].alias ELSE p

\* What is referred to by its name: IR_ADDRG.
Named(p) == symbols[CodeSymbol(p)].scope <= SCOPE_GLOBAL

\* cc_expr_parse_primary; no program has the name of a type there.
Identifier ==
  \E id \in {d.id : d \in declared} :
    LET p == Lookup(id, chain) IN
    /\ InBody /\ level >= SCOPE_LOCAL
    /\ p # 0 => symbols[p].sclass # "Typedef"
    /\ IF p = 0 THEN Refuse
       ELSE /\ symbols' = [symbols EXCEPT ![p].used = @ \/ function # "omitted"]
            /\ code' = IF Named(p) /\ function # "omitted" THEN code \cup {CodeSymbol(p)} ELSE code
            /\ UNCHANGED <<level, chain, externals, all, function, linkage, status, declared>>

EndOfFile ==
  /\ status = "parsing" /\ function = "none"
  /\ status' = "done"
  /\ UNCHANGED <<tables, function, code, linkage, declared>>

Next ==
  \/ FileDeclaration \/ FunctionDeclarator \/ DeclParam \/ Prototype
  \/ FuncDefinition \/ EnterBlock \/ LeaveBlock \/ LeaveBody \/ EndFunction
  \/ BlockDeclaration \/ Identifier \/ EndOfFile

Spec == Init /\ [][Next]_vars

\* cc_gen_internalname, for names that are put out: a function or an object
\* of the file has its own name, a generated symbol one that is unique.
AsmName(n) == IF symbols[n].id = Generated THEN n ELSE symbols[n].id

Shown == {n \in all : ~symbols[n].hidden}

\* cc_parser_funcdefinition and doglobal: what the file defines.
Defines ==
  {n \in Shown : IF symbols[n].type = Fun THEN symbols[n].defined
                 ELSE symbols[n].defined \/ symbols[n].sclass \notin {"External", "Typedef"}}

IsImport(n) ==
  /\ ~symbols[n].defined
  /\ symbols[n].sclass \in {"External"} \cup (IF symbols[n].type = Fun THEN {"Auto"} ELSE {})

\* doexport and doexternal
Imports == {n \in Shown : IsImport(n) /\ symbols[n].used} \cup Range(externals)
Exports == {n \in Shown : ~IsImport(n) /\ symbols[n].sclass \notin {"Static", "Typedef"}}

-----------------------------------------------------------------------------
(* Properties.                                                             *)

\* What a name stands for in C when its code refers to the symbol n.
Thing(n) ==
  IF symbols[n].sclass = "Typedef" THEN symbols[n].type
  ELSE IF symbols[n].scope <= SCOPE_GLOBAL /\ symbols[n].id # Generated THEN symbols[n].id
  ELSE n

NamesAt(lev) ==
  LET tabs == {n \in DOMAIN chain : chain[n].level = lev} IN
  IF tabs = {} THEN [i \in {} |-> Nothing]
  ELSE [i \in DOMAIN chain[Max(tabs)].names |-> Thing(CodeSymbol(chain[Max(tabs)].names[i]))]

\* The scopes as the tables have them, and what looking a name up makes of it.
InScope == [n \in 1 .. level - SCOPE_GLOBAL + 1 |-> NamesAt(n + SCOPE_GLOBAL - 1)]
Denoted ==
  [id \in Ids |-> LET p == Lookup(id, chain) IN
                    IF p = 0 THEN Nothing ELSE Thing(CodeSymbol(p))]

Meant == INSTANCE Scopes WITH
  Own <- 1 .. MaxSymbols, scopes <- InScope, denotes <- Denoted

\* Every identifier stands for what the innermost declaration in scope makes
\* it, although only some levels have a table and the tables are dropped by
\* comparing levels (cc_symbol_install, cc_symbol_exitscope).
RefinesScopes == Meant!Spec

\* Nothing that a lookup or the end of the file can come to has been freed
\* with the temporary area of a function that is over.
Kept ==
  LET found == (UNION {Range(chain[n].names) : n \in DOMAIN chain}) \cup Range(externals) \cup all IN
  \A n \in found \cup {symbols[m].alias : m \in found} : n # 0 => symbols[n].area # "freed"

\* Programs whose names have one linkage, that define what only they can, and
\* that do not call the inline functions they have the compiler omit.
Conforming ==
  /\ "mixed" \notin Range(linkage)
  /\ \A n \in code :
       /\ ~symbols[n].hidden
       /\ symbols[n].type = Fun /\ linkage[symbols[n].id] = "internal" => symbols[n].defined

\* The assembler finds every name that the code mentions: the file defines it
\* once, or imports it, and not both.  Public are the names with external
\* linkage that the file defines, and no others (cc_gen_dumpsymbols).
NamesResolved ==
  LET Of(syms, n) == {m \in syms : AsmName(m) = AsmName(n)}
      external == {n \in Defines : symbols[n].id # Generated /\ linkage[symbols[n].id] = "external"} IN
  status = "done" /\ Conforming =>
    /\ \A n \in Defines : Of(Defines, n) = {n} /\ Of(Imports, n) = {}
    /\ \A n \in code : Of(Defines \cup Imports, n) # {}
    /\ Exports = external

\* An object of the file or a static one of a block that has an initializer is
\* put out with its value (doglobal).
ValuesGiven == status = "done" => \A n \in Shown : symbols[n].value => symbols[n].defined
=============================================================================
