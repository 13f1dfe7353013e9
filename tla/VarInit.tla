-------------------------------- MODULE VarInit -------------------------------
(***************************************************************************)
(* Variable initializers: the three walks over an initializer that must    *)
(* agree on the layout of its type: the check (init.c), the codes that     *)
(* assign a local variable (init.c) and the data of a static one           *)
(* (backend.c).                                                            *)
(***************************************************************************)
EXTENDS StructFields, FiniteSetsExt

CONSTANT Objects  \* records [op, fields, ty, full, init, excess]: see DeclarationInit

VARIABLES
  object,    \* the variable: its type, and what the source says of it; or NoObject
  stage,     \* "none", "parsed", "checked", "local" or "static"
  size,      \* size of its type, which an initializer may give
  accepted,  \* cc_varinit_check returned TRUE
  bytes      \* its bytes when it is initialized

NoObject == [op |-> "none"]

objectVars == <<object, stage, size, accepted, bytes>>

-----------------------------------------------------------------------------
(* Initializers.                                                           *)

IsBlock(init) == init.op = "block"
IsString(init) == init.op = "str"
Kid(init, ix) == init.kids[ix + 1]
Count(init) == Len(init.kids)

\* The start of every walk on a structure, union or array: a block is walked
\* by its own index (fresh), otherwise the walk goes on in the outer one.
Opened(init, ix, outer) ==
  IF outer /\ IsBlock(Kid(init, ix)) THEN [this |-> Kid(init, ix), fresh |-> TRUE, ix |-> ix + 1]
  ELSE [this |-> init, fresh |-> ~outer, ix |-> ix]

First(o) == IF o.fresh THEN 0 ELSE o.ix

\* Mutant: what is left of a block is ignored.
ClosedEarly(o, w) == IF o.fresh THEN [w EXCEPT !.ix = o.ix] ELSE w

\* w is the walk through what o has opened: "too many initializers in block".
Closed(o, w) ==
  IF o.fresh THEN [w EXCEPT !.ix = o.ix, !.ok = @ /\ w.ix >= Count(o.this)] ELSE w

\* The initializer of a scalar, which may have one level of braces.
ScalarOf(init, ix, outer) == IF outer THEN Kid(init, ix) ELSE init
Unbraced(init) == IF IsBlock(init) THEN Kid(init, 0) ELSE init
Value(init) == init.v[1]

\* An array of characters takes a whole string.
TakesString(ty, kid) == Element(ty).op = "char" /\ IsString(kid)

-----------------------------------------------------------------------------
(* cc_varinit_check.  Arrays without a size return it.                     *)

Walk(ix) == [ix |-> ix, ok |-> TRUE, size |-> 0]
Refused == [ix |-> 0, ok |-> FALSE, size |-> 0]

\* cc_varinit_check_scalar
CheckScalar(init, ix, outer) ==
  LET this == ScalarOf(init, ix, outer)
      single == IsBlock(this) => Count(this) = 1 /\ ~IsBlock(Kid(this, 0))
  IN [Walk(IF outer THEN ix + 1 ELSE ix) EXCEPT !.ok = single /\ ~IsString(Unbraced(this))]

NoMore(w, this) == ~w.ok \/ w.ix >= Count(this)

StringTaken(ty, done, kid) ==
  IF ty.size > 0 /\ ty.size - done < Len(kid.v) THEN ty.size ELSE done + Len(kid.v)

RECURSIVE Check(_, _, _, _), CheckFields(_, _, _, _), CheckElements(_, _, _, _, _)

\* cc_varinit_check_union
CheckUnion(ty, o) ==
  IF ~IsBlock(o.this) THEN Refused
  ELSE Closed(o, Check(ty.fields[1].ty, o.this, First(o), TRUE))

CheckFields(ty, n, this, w) ==
  IF NoMore(w, this) \/ n > Len(ty.fields) THEN w
  ELSE CheckFields(ty, n + 1, this, Check(ty.fields[n].ty, this, w.ix, TRUE))

\* cc_varinit_check_struct
CheckStruct(ty, o) ==
  IF ~IsBlock(o.this) THEN Refused
  ELSE Closed(o, CheckFields(ty, 1, o.this, Walk(First(o))))

\* The loops of cc_varinit_check_array, done bytes behind. An array without a
\* size is a variable here, never the last member of a structure.
CheckElements(ty, done, this, w, fresh) ==
  IF NoMore(w, this) \/ (ty.size > 0 /\ done >= ty.size) THEN [w EXCEPT !.size = done]
  ELSE IF ~TakesString(ty, Kid(this, w.ix))
    THEN CheckElements(ty, done + Element(ty).size, this,
                       Check(Element(ty), this, w.ix, TRUE), fresh)
  ELSE IF fresh \/ done = 0
    THEN [w EXCEPT !.ix = @ + 1, !.size = StringTaken(ty, done, Kid(this, w.ix))]
  ELSE w

\* cc_varinit_check_array
CheckArray(ty, o) ==
  IF IsBlock(o.this)
  THEN Closed(o, CheckElements(ty, 0, o.this, Walk(First(o)), o.fresh))
  ELSE IF TakesString(ty, o.this)
    THEN [Walk(o.ix) EXCEPT !.size = IF ty.size > 0 THEN ty.size ELSE Len(o.this.v)]
  ELSE Refused

\* cc_varinit_check_inner
Check(ty, init, ix, outer) ==
  IF IsScalar(ty) THEN CheckScalar(init, ix, outer)
  ELSE LET o == Opened(init, ix, outer) IN
       CASE ty.op = "union" -> CheckUnion(ty, o)
         [] ty.op = "struct" -> CheckStruct(ty, o)
         [] ty.op = "array" -> CheckArray(ty, o)

-----------------------------------------------------------------------------
(* Bits.                                                                   *)

Word(v, n) == [k \in 1 .. n |-> (v \div 256 ^ (k - 1)) % 256]
Zeros(n) == [k \in 1 .. n |-> 0]

\* Fields that share the unit of field n.
AfterUnit(ty, n) ==
  Max({m \in n .. Len(ty.fields) : \A k \in n .. m : ty.fields[k].off = ty.fields[n].off}) + 1

\* cc_varinit_get_scalar_int and "bitsval |= val << (field->_lsb - 1)" for
\* fields n to m - 1, as far as there are initializers.
RECURSIVE BitsValue(_, _, _, _, _)
BitsValue(ty, n, m, this, ix) ==
  IF n = m \/ ix >= Count(this) THEN 0
  ELSE Value(Unbraced(Kid(this, ix))) * 2 ^ (ty.fields[n].lsb - 1)
         + BitsValue(ty, n + 1, m, this, ix + 1)

BitsTaken(n, m, this, ix) ==
  IF m - n < Count(this) - ix THEN ix + m - n
  ELSE IF ix < Count(this) THEN Count(this) ELSE ix

-----------------------------------------------------------------------------
(* cc_gen_localvar_initcodes: what is assigned, in order, and the bytes    *)
(* that are not (gSpaceZeroBytes).                                         *)

Codes(ix, writes, zero) == [ix |-> ix, ok |-> TRUE, writes |-> writes, zero |-> zero]
Write(off, data) == [off |-> off, data |-> data]

\* cc_gen_localvar_assign
Assigned(w, off, data) == [w EXCEPT !.writes = Append(@, Write(off, data))]
LeftZero(w, n) == [w EXCEPT !.zero = @ + n]

\* cc_gen_localvar_initcodes_scalar
LocalScalar(ty, off, init, outer, w) ==
  LET next == IF outer THEN [w EXCEPT !.ix = @ + 1] ELSE w
  IN Assigned(next, off, Word(Value(Unbraced(ScalarOf(init, w.ix, outer))), ty.size))

\* One character after the other, no more than n of them.
Characters(w, off, chars, n) ==
  FoldLeft(LAMBDA acc, k : Assigned(acc, off + k - 1, <<chars[k]>>), w,
           [k \in 1 .. (IF Len(chars) < n THEN Len(chars) ELSE n) |-> k])

RECURSIVE Local(_, _, _, _, _), LocalFields(_, _, _, _, _), LocalElements(_, _, _, _, _, _)

LocalBits(ty, n, off, this, w) ==
  LET m == AfterUnit(ty, n)
      f == ty.fields[n]
  IN [Assigned(w, off + f.off, Word(BitsValue(ty, n, m, this, w.ix), f.ty.size))
        EXCEPT !.ix = BitsTaken(n, m, this, w.ix)]

\* cc_gen_localvar_initcodes_union
LocalUnion(ty, off, o, w) ==
  IF ty.fields[1].lsb > 0
  THEN [Assigned(w, off, Word(BitsValue(ty, 1, 2, o.this, w.ix), ty.fields[1].ty.size))
          EXCEPT !.ix = w.ix + 1]
  ELSE Local(ty.fields[1].ty, off, o.this, TRUE, w)

\* Mutant: a member without an initializer is left alone.
MissingLocalLeft(w, ty) == w

MissingLocal(w, ty) == LeftZero(w, ty.size)

\* The loops of cc_gen_localvar_initcodes_struct
LocalFields(ty, n, off, this, w) ==
  IF ~w.ok \/ n > Len(ty.fields) THEN w
  ELSE LET f == ty.fields[n] IN
       IF f.lsb > 0 THEN LocalFields(ty, AfterUnit(ty, n), off, this, LocalBits(ty, n, off, this, w))
       ELSE LocalFields(ty, n + 1, off, this,
                        IF w.ix < Count(this) THEN Local(f.ty, off + f.off, this, TRUE, w)
                        ELSE MissingLocal(w, f.ty))

RestZero(w, ty, done) == IF ty.size > done THEN LeftZero(w, ty.size - done) ELSE w

\* A string that is the next initializer of an array of characters.
LocalString(ty, done, off, kid, fresh, w) ==
  IF fresh
  THEN RestZero([Characters(w, off + done, kid.v, ty.size - done) EXCEPT !.ix = w.ix + 1],
                ty, StringTaken(ty, done, kid))
  ELSE [Characters(w, off, kid.v \o Zeros(ty.size), ty.size) EXCEPT !.ix = w.ix + 1]

\* The loops of cc_gen_localvar_initcodes_array
LocalElements(ty, done, off, this, fresh, w) ==
  IF NoMore(w, this) \/ done >= ty.size THEN RestZero(w, ty, done)
  ELSE IF ~TakesString(ty, Kid(this, w.ix))
    THEN LocalElements(ty, done + Element(ty).size, off, this, fresh,
                       Local(Element(ty), off + done, this, TRUE, w))
  ELSE IF ~fresh /\ done > 0 THEN RestZero(w, ty, done)
  ELSE LocalString(ty, done, off, Kid(this, w.ix), fresh, w)

\* cc_gen_localvar_initcodes_inner, _struct and _array
LocalInner(ty, off, o, w) ==
  CASE ty.op = "union" -> LocalUnion(ty, off, o, w)
    [] ty.op = "struct" -> LocalFields(ty, 1, off, o.this, w)
    [] ty.op = "array" /\ IsBlock(o.this) -> LocalElements(ty, 0, off, o.this, o.fresh, w)
    [] ty.op = "array" /\ ~IsBlock(o.this) -> Characters(w, off, o.this.v, ty.size)

Local(ty, off, init, outer, w) ==
  IF IsScalar(ty) THEN LocalScalar(ty, off, init, outer, w)
  ELSE LET o == Opened(init, w.ix, outer)
           inner == LocalInner(ty, off, o, [w EXCEPT !.ix = First(o)])
       IN IF o.fresh THEN [inner EXCEPT !.ix = o.ix] ELSE inner

\* A byte of the stack that nothing has written; no initializer has this value.
Garbage == 85

WriteInto(mem, code) ==
  [k \in DOMAIN mem |->
     IF k - code.off \in DOMAIN code.data THEN code.data[k - code.off] ELSE mem[k]]

\* cc_gen_localvar_initcodes, executed: an IR_ZERO is put before the assignments.
LocalBytes(ty, init) ==
  LET w == Local(ty, 0, init, FALSE, Codes(0, <<>>, 0))
  IN FoldLeft(WriteInto, [k \in 1 .. ty.size |-> IF w.zero > 0 THEN 0 ELSE Garbage], w.writes)

-----------------------------------------------------------------------------
(* cc_gen_dumpinitvalues: the data that is written out.                    *)

Data(ix, out) == [ix |-> ix, ok |-> TRUE, out |-> out]
Defined(w, data) == [w EXCEPT !.out = @ \o data]

\* cc_varinit_dump_scalar
DumpScalar(ty, init, outer, w) ==
  LET next == IF outer THEN [w EXCEPT !.ix = @ + 1] ELSE w
  IN Defined(next, Word(Value(Unbraced(ScalarOf(init, w.ix, outer))), ty.size))

\* Characters of a string, or 0 behind it, up to the end of the array.
StringData(chars, n) == [k \in 1 .. n |-> IF k <= Len(chars) THEN chars[k] ELSE 0]

RECURSIVE Dump(_, _, _, _), DumpFields(_, _, _, _, _), DumpElements(_, _, _, _, _)

\* cc_varinit_dump_union
DumpUnion(ty, o, w) ==
  IF ty.fields[1].lsb > 0
  THEN [Defined(w, Word(BitsValue(ty, 1, 2, o.this, w.ix), ty.fields[1].ty.size))
          EXCEPT !.ix = w.ix + 1]
  ELSE Dump(ty.fields[1].ty, o.this, TRUE, w)

DumpBits(ty, n, this, w) ==
  LET m == AfterUnit(ty, n)
  IN [Defined(w, Word(BitsValue(ty, n, m, this, w.ix), ty.fields[n].ty.size))
        EXCEPT !.ix = BitsTaken(n, m, this, w.ix)]

\* "if (offset < field->_offset)"
Gap(w, off, f) == IF off < f.off THEN Defined(w, Zeros(f.off - off)) ELSE w

\* The loops of cc_varinit_dump_struct, off bytes behind.
DumpFields(ty, n, off, this, w) ==
  IF n > Len(ty.fields) THEN w
  ELSE LET f == ty.fields[n]
           at == Gap(w, off, f)
           next == IF off < f.off THEN f.off + f.ty.size ELSE off + f.ty.size
       IN IF f.lsb > 0 THEN DumpFields(ty, AfterUnit(ty, n), next, this, DumpBits(ty, n, this, at))
          ELSE DumpFields(ty, n + 1, next, this,
                          IF at.ix < Count(this) THEN Dump(f.ty, this, TRUE, at)
                          ELSE Defined(at, Zeros(f.ty.size)))

RestData(w, ty, done) == IF ty.size > done THEN Defined(w, Zeros(ty.size - done)) ELSE w

\* The loops of cc_varinit_dump_array
DumpElements(ty, done, this, fresh, w) ==
  IF NoMore(w, this) \/ done >= ty.size THEN RestData(w, ty, done)
  ELSE IF ~TakesString(ty, Kid(this, w.ix))
    THEN DumpElements(ty, done + Element(ty).size, this, fresh, Dump(Element(ty), this, TRUE, w))
  ELSE IF ~fresh /\ done > 0 THEN RestData(w, ty, done)
  ELSE [Defined(w, StringData(Kid(this, w.ix).v, ty.size - done)) EXCEPT !.ix = w.ix + 1]

\* cc_gen_dumpinitvalues_inner, cc_varinit_dump_struct and _array
DumpInner(ty, o, w) ==
  CASE ty.op = "union" -> DumpUnion(ty, o, w)
    [] ty.op = "struct" -> DumpFields(ty, 1, 0, o.this, w)
    [] ty.op = "array" /\ IsBlock(o.this) -> DumpElements(ty, 0, o.this, o.fresh, w)
    [] ty.op = "array" /\ ~IsBlock(o.this) -> Defined(w, StringData(o.this.v, ty.size))

Dump(ty, init, outer, w) ==
  IF IsScalar(ty) THEN DumpScalar(ty, init, outer, w)
  ELSE LET o == Opened(init, w.ix, outer)
           inner == DumpInner(ty, o, [w EXCEPT !.ix = First(o)])
       IN IF o.fresh THEN [inner EXCEPT !.ix = o.ix] ELSE inner

StaticBytes(ty, init) == Dump(ty, init, FALSE, Data(0, <<>>)).out

-----------------------------------------------------------------------------
\* A structure is declared, and perhaps a variable after it with an initializer:
\* ty is its type; full says what every part of it is to be, with all braces; init
\* is what is written: the same with braces left out, or one value too many.
DeclarationInit ==
  /\ \/ object = NoObject /\ op \in {"struct", "union"} /\ declared \in Declarations
     \/ object \in Objects /\ op = object.op /\ declared = object.fields
  /\ Init
  /\ stage = "none"
  /\ size = 0
  /\ accepted = FALSE
  /\ bytes = <<>>

PlaceFields == Next /\ UNCHANGED objectVars

Declare ==
  /\ phase = "complete" /\ stage = "none"
  /\ object # NoObject
  /\ size' = object.ty.size
  /\ stage' = "parsed"
  /\ UNCHANGED <<object, accepted, bytes>>
  /\ UNCHANGED vars

Sized == [object.ty EXCEPT !.size = size]

VarinitCheck ==
  /\ stage = "parsed"
  /\ LET w == Check(object.ty, object.init, 0, FALSE) IN
     /\ accepted' = w.ok
     /\ size' = IF object.ty.op = "array" /\ object.ty.size = 0 THEN w.size ELSE size
  /\ stage' = "checked"
  /\ UNCHANGED <<object, bytes>>
  /\ UNCHANGED vars

LocalInitcodes ==
  /\ stage = "checked"
  /\ accepted
  /\ bytes' = LocalBytes(Sized, object.init)
  /\ stage' = "local"
  /\ UNCHANGED <<object, size, accepted>>
  /\ UNCHANGED vars

DumpInitvalues ==
  /\ stage = "checked"
  /\ accepted
  /\ bytes' = StaticBytes(Sized, object.init)
  /\ stage' = "static"
  /\ UNCHANGED <<object, size, accepted>>
  /\ UNCHANGED vars

DeclarationNext ==
  PlaceFields \/ Declare \/ VarinitCheck \/ LocalInitcodes \/ DumpInitvalues

DeclarationSpec ==
  DeclarationInit /\ [][DeclarationNext]_<<vars, objectVars>>

-----------------------------------------------------------------------------
(* What C99 6.7.8 says of an initializer with all its braces: the parts of *)
(* an object with their values.                                            *)

Part(off, bits0, lsb, val) == [off |-> off, bits |-> bits0, lsb |-> lsb, val |-> val]

\* The initializer of member n, if any.
Given(init, n) == IF init # <<>> /\ n <= Len(init[1].kids) THEN <<init[1].kids[n]>> ELSE <<>>

RECURSIVE PartsOf(_, _, _)
PartsOf(ty, off, init) ==
  CASE IsScalar(ty) ->
         {Part(off, 8 * ty.size, 0, IF init = <<>> THEN 0 ELSE init[1].v[1])}
    [] ty.op = "struct" ->
         UNION {LET f == ty.fields[n] IN
                IF f.bits = 0 THEN PartsOf(f.ty, off + f.off, Given(init, n))
                ELSE {Part(off + f.off, f.bits, f.lsb - 1,
                           IF Given(init, n) = <<>> THEN 0 ELSE Given(init, n)[1].v[1])} :
                n \in DOMAIN ty.fields}
    [] ty.op = "union" -> PartsOf(ty.fields[1].ty, off, Given(init, 1))
    [] ty.op = "array" ->
         IF init # <<>> /\ IsString(init[1])
         THEN {Part(off + k, 8, 0, IF k < Len(init[1].v) THEN init[1].v[k + 1] ELSE 0) :
                 k \in 0 .. ty.size - 1}
         ELSE UNION {PartsOf(Element(ty), off + (n - 1) * Element(ty).size, Given(init, n)) :
                       n \in 1 .. ty.size \div Element(ty).size}

\* cc_expr_read_bitvalue for an unsigned field, and a plain read.
ReadPart(p) ==
  LET n == IF p.bits > 8 \/ p.lsb > 0 \/ p.bits < 8 THEN 4 ELSE 1
      word == FoldLeft(LAMBDA acc, k : acc * 256 + bytes[p.off + n + 1 - k], 0, [k \in 1 .. n |-> k])
  IN (word \div 2 ^ p.lsb) % (IF p.bits = 32 THEN 2 ^ 30 ELSE 2 ^ p.bits)

Readable(p) == p.off + (IF p.bits = 8 /\ p.lsb = 0 THEN 1 ELSE 4) <= Len(bytes)

\* However many braces are left out, a variable that is initialized reads as if
\* none were, and parts that are not mentioned are 0: the codes for a local
\* variable (cc_gen_localvar_initcodes) start from whatever is on the stack, the
\* data of a static one (cc_gen_dumpinitvalues) has only gaps it fills itself,
\* and is as long as its type says.
PartsInitialized ==
  /\ stage \in {"local", "static"} =>
       \A p \in PartsOf(Sized, 0, <<object.full>>) : Readable(p) /\ ReadPart(p) = p.val
  /\ stage = "static" => Len(bytes) = size

\* The check (cc_varinit_check) lets every correct initializer pass and stops one
\* value too many, before either of the walks that rely on it; an array without
\* a size gets that of its elements.
AcceptedExactly ==
  stage \notin {"none", "parsed"} =>
    /\ accepted = ~object.excess
    /\ accepted /\ object.ty.size = 0 =>
         size = Element(object.ty).size
                  * Len(IF IsString(object.full) THEN object.full.v ELSE object.full.kids)
=============================================================================
