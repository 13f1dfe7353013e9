------------------------------- MODULE GenX86 -------------------------------
(***************************************************************************)
(* Instruction selection (gencode_x86.c): each triple code of a function   *)
(* becomes x86 codes whose operands name registers, frame places and       *)
(* addresses, with the register file of RegX86 underneath.  Any triple of  *)
(* the function whose operands are at hand may come next; which values a   *)
(* later triple uses (dag->_lastref) is chosen when a value is made, and a *)
(* triple that is the last use of a value does use it.                     *)
(***************************************************************************)
EXTENDS RegX86

CONSTANTS
  NoDag,    \* a missing operand or result
  Imms,     \* constants
  Addrs,    \* addresses of variables, plus a constant or not
  Vars,     \* INDIR of such an address: the variables' values
  Inds,     \* INDIR of any other node, Kid[d]
  Values,   \* what triples compute
  Kid,
  Ty,       \* "b" 8 or 16 bits, "w" 32 bits, "q" 64 bits, "f" float, "blk"
  Functions, \* the functions considered
  Triples,   \* what each is made of, a set of records; see UsesNow
  Length     \* how many triples it has

VARIABLES
  function,  \* the function being translated
  emitted    \* dag->_x._isemitted: computed, or loaded by a LOAD

vars == <<seqid, gen, function, emitted>>

ASSUME GenAssumption ==
  /\ Dags = Imms \cup Addrs \cup Vars \cup Inds \cup Values
  /\ NoDag \notin Dags
  /\ Inds \cap (Vars \cup Values) = {} /\ Imms \cap (Vars \cup Inds \cup Values) = {}
  /\ Vars \cap Values = {}
  /\ Kid \in [Inds -> Vars \cup Values]
  /\ \A d \in Inds : Ty[Kid[d]] = "w"
  /\ Parts \in [Dags -> 1 .. 2]
  /\ \A d \in Dags : Parts[d] = 2 <=> Ty[d] = "q"
  /\ MaxSeq \in Nat \ {0}
  /\ Length \in [Functions -> 1 .. MaxSeq]

Integer(d) == Ty[d] \in {"b", "w", "q"}

\* The triples whose result is a value; of its operands' type, but for the last
\* two. A LOAD's result is the variable it loads.
SameTyped ==
  {"OR", "XOR", "AND", "ADD", "SUB", "MUL", "LSH", "RSH", "DIV", "MOD", "NEG", "NOT"}
Computing == SameTyped \cup {"CVT", "CALL"}
TwoOperands == (SameTyped \ {"NEG", "NOT"}) \cup {"J", "MOV"}

ASSUME TripleAssumption ==
  \A f \in Functions : \A t \in Triples[f] :
    /\ t.lhs \in Dags
    /\ t.op \in TwoOperands => t.rhs \in Dags
    /\ t.op \in Computing => t.result \in Values
    /\ t.op \notin Computing => t.result \in Vars \cup {NoDag}
    /\ t.op \in SameTyped => Ty[t.result] = Ty[t.lhs]

-----------------------------------------------------------------------------
(* Operands: cc_get_operand.                                               *)

Operand(format, regs, base, at) ==
  [format |-> format, regs |-> regs, base |-> base, at |-> at]

NoRegs == [p \in 0 .. 1 |-> NIL]
Pair(lo, hi) == [p \in 0 .. 1 |-> IF p = 0 THEN lo ELSE hi]

Reg(regs) == Operand("Reg", regs, NIL, NoDag)
SIB(base) == Operand("SIB", NoRegs, base, NoDag)
InSIB(base) == Operand("InSIB", NoRegs, base, NoDag)

GetLocation(s, d) ==
  IF d \in s.inregister THEN Reg(s.regs[d])
  ELSE IF d \in s.inmemory THEN Operand("InSIB", NoRegs, NIL, d)
  ELSE IF d \in Imms THEN Operand("Imm", NoRegs, NIL, d)
  ELSE IF d \in Addrs THEN Operand("SIB", NoRegs, NIL, d)
  ELSE Operand("None", NoRegs, NIL, d)

\* What is read through an address.
Indirect(addr) ==
  CASE addr.format = "Reg" -> InSIB(addr.regs[0])
    [] addr.format = "InSIB" -> [addr EXCEPT !.format = "InSIB2"]
    [] OTHER -> addr

GetOperand(s, d) ==
  IF d \in s.inregister \cup s.inmemory \/ d \notin Inds THEN GetLocation(s, d)
  ELSE Indirect(GetLocation(s, Kid[d]))

\* The words part p of an operand reads at this point of the emitted code.
Bits(s, op, p) ==
  CASE op.format = "Reg" -> Content(s, op.regs[p])
    [] op.format = "InSIB" /\ op.base # NIL ->
         {<<d, p>> : d \in {i \in Inds : <<Kid[i], 0>> \in s.reg[op.base]}}
    [] op.format = "InSIB" /\ op.base = NIL -> s.cell[op.at][p]
    [] op.format = "SIB" /\ op.base # NIL -> Content(s, op.base)
    [] OTHER -> {<<op.at, p>>}

\* An emitted code reads dag d through operand op.
Read(s, op, d) ==
  IF \A p \in PartsOf(d) : <<d, p>> \in Bits(s, op, p)
  THEN s
  ELSE [s EXCEPT !.misread = @ \cup {d}]

Clobber(s, rs) ==
  [s EXCEPT !.reg = [r \in Registers |-> IF r \in rs THEN {} ELSE @[r]]]

SetReg(s, r, words) == IF r = NIL THEN s ELSE [s EXCEPT !.reg[r] = words]

\* An emitted code leaves the value of d in regs.
Produce(s, regs, d) == SetReg(SetReg(s, regs[0], {<<d, 0>>}), regs[1], {<<d, 1>>})

\* An emitted code pushes d onto the x87 stack, whose ninth push fails, and
\* leaves it there.
PushTop(s, d) == IF s.depth < 8 THEN s ELSE [s EXCEPT !.misread = @ \cup {d}]
KeepTop(s) == [s EXCEPT !.depth = IF @ < 8 THEN @ + 1 ELSE @]

\* An emitted code pops ST0; an empty stack stays empty.
PopTop(s) == [Clobber(s, {ST0}) EXCEPT !.depth = IF @ > 0 THEN @ - 1 ELSE @]

\* X86_MOV from an operand that holds d to registers, low word first: mov, lea
\* or fld.  Nothing the generator emits for a store pops ST0 again.
LoadPart(s, regs, op, p) == SetReg(s, regs[p], Bits(s, op, p))

Load(s, regs, op, d) ==
  IF regs[0] = ST0 THEN KeepTop(PushTop(LoadPart(Read(s, op, d), regs, op, 0), d))
  ELSE LoadPart(LoadPart(Read(s, op, d), regs, op, 0), regs, op, 1)

-----------------------------------------------------------------------------
(* cc_convert_insib2_to_insib, cc_convert_insib_reg_imm_to_sib and         *)
(* cc_convert_insib_sib_imm_to_reg: an operand and the context after it.   *)

Got(s, op) == [ctx |-> s, op |-> op]

\* cc_reg_alloc and cc_reg_make_associated, for one register.
Taken(a, d, p) == [reg |-> a.reg, ctx |-> Associate(a.ctx, a.reg, d, p)]
Take(s, flags, d, p) == Taken(Alloc(s, flags), d, p)

\* The register that was taken is loaded, and is a base from now on.
LoadBase(a, format, op, d) ==
  Got(Load(a.ctx, Pair(a.reg, NIL), op, d), Operand(format, NoRegs, a.reg, NoDag))

\* What the pointer itself is read from is found before it is in the register.
LoadKid(s, kid) ==
  LoadBase(Take(Assertion(s, kid \in Inds \cup Vars, "IR_OP(kid->_op) == IR_INDIR"),
                NormalAddrRegs, kid, 0),
           "InSIB", GetLocation(s, kid), kid)

ToInSIB(s, op, d) ==
  CASE op.format = "None" -> Got(Assertion(s, FALSE, "cc_get_operand"), op)
    [] op.format = "InSIB2" -> LoadKid(s, Kid[d])
    [] OTHER -> Got(s, op)

\* cc_get_operand, then cc_convert_insib2_to_insib.
Get(s, d) == ToInSIB(s, GetOperand(s, d), d)

ToSIB(g, d) ==
  CASE g.op.format = "InSIB" ->
         LoadBase(Take(g.ctx, NormalAddrRegs, d, 0), "SIB", g.op, d)
    [] g.op.format = "Reg" -> Got(g.ctx, SIB(g.op.regs[0]))
    [] g.op.format = "Imm" -> Got(g.ctx, [g.op EXCEPT !.format = "SIB"])
    [] OTHER -> g

RegFlags(d) ==
  CASE Ty[d] = "f" -> {ST0}
    [] Ty[d] = "b" -> NormalRegs
    [] OTHER -> NormalAddrRegs

\* One register, and the second one of a pair.
OneReg(a) == [regs |-> Pair(a.reg, NIL), ctx |-> a.ctx]
WithHigh(reg, a) == [regs |-> Pair(reg, a.reg), ctx |-> a.ctx]

TakeHigh(a, d) ==
  IF Ty[d] = "q" THEN WithHigh(a.reg, Take(a.ctx, NormalAddrRegs, d, 1))
  ELSE OneReg(a)

LoadRegs(a, op, d) == Got(Load(a.ctx, a.regs, op, d), Reg(a.regs))

ToReg(g, d) ==
  IF g.op.format \notin {"InSIB", "SIB", "Imm"} THEN g
  ELSE LoadRegs(TakeHigh(Take(g.ctx, RegFlags(d), d, 0), d), g.op, d)

-----------------------------------------------------------------------------
(* What the handlers share.                                                *)

\* cc_reg_free for one register after another.
FreeAll(s, rs) ==
  LET freed[n \in 0 .. Len(rs)] == IF n = 0 THEN s ELSE Free(freed[n - 1], rs[n])
  IN  freed[Len(rs)]

\* A register is freed and given to the result.
Give(s, r, result, p) == IF r = NIL THEN s ELSE Associate(Free(s, r), r, result, p)

\* All registers of d are.
TakeOver(s, d, result) ==
  Give(Give(s, s.regs[d][0], result, 0), s.regs[d][1], result, 1)

\* What a handler starts from: the operand of its triple, or dst and then src.
GetOne(s, t) == Get(s, t.lhs)
WithSource(dst, g) == [ctx |-> g.ctx, dst |-> dst, src |-> g.op]
AddSource(g, rhs) == WithSource(g.op, Get(g.ctx, rhs))
GetBoth(s, t) == AddSource(Get(s, t.lhs), t.rhs)

\* An address is no operand of a conversion or a push.
Unaddressed(g, d) == IF g.op.format = "SIB" THEN ToReg(g, d) ELSE g
GetSource(s, t) == Unaddressed(Get(s, t.lhs), t.lhs)

\* The code itself: it reads both operands and leaves the result in dst.  The
\* low words of a 64-bit difference are added when src is not in memory.
AddsLow(src, t) == t.op = "SUB" /\ Ty[t.lhs] = "q" /\ src.format # "InSIB"
EmitBinary(s, dst, src, t) ==
  SetReg(Produce(Read(Read(s, dst, t.lhs), src, t.rhs), dst.regs, t.result),
         IF AddsLow(src, t) THEN dst.regs[0] ELSE NIL, {})

-----------------------------------------------------------------------------
(* X86_OR, XOR, AND, ADD and SUB of integers, and MUL of 32 bits.          *)

AllocHigh(a, d) ==
  IF Ty[d] = "q" THEN WithHigh(a.reg, Alloc(a.ctx, NormalRegs)) ELSE OneReg(a)

TwoRegs(s, d) == AllocHigh(Alloc(s, NormalRegs), d)

AssociatePair(s, regs, d) ==
  Associate(Associate(s, regs[0], d, 0), regs[1], d, 1)

\* The left operand is loaded into the registers of the result.
EmitLoaded(a, g, t) ==
  EmitBinary(AssociatePair(Load(a.ctx, a.regs, g.dst, t.lhs), a.regs, t.result),
             Reg(a.regs), IF t.lhs = t.rhs THEN Reg(a.regs) ELSE g.src, t)

IntegerBinary(g, t) ==
  IF t.lhs \in g.ctx.inregister
  THEN EmitBinary(TakeOver(g.ctx, t.lhs, t.result), g.dst, g.src, t)
  ELSE EmitLoaded(TwoRegs(g.ctx, t.lhs), g, t)

-----------------------------------------------------------------------------
(* X86_ADD, SUB, MUL and DIV of floats, in ST0.                            *)

Top == Pair(ST0, NIL)

SpillFromRegister(s, d) ==
  IF d \in s.inregister \ s.inmemory THEN Spill(s, d) ELSE s

FloatBinary(g, t) ==
  IF t.lhs \in g.ctx.inregister
  THEN EmitBinary(TakeOver(g.ctx, t.lhs, t.result), g.dst, g.src, t)
  ELSE EmitLoaded([regs |-> Top, ctx |-> Free(SpillFromRegister(g.ctx, t.rhs), ST0)],
                  g, t)

-----------------------------------------------------------------------------
(* X86_MUL, DIV and MOD of 64 bits: both operands are pushed for a routine *)
(* of the run-time library, which returns in EAX and EDX.                  *)

CallRegs == {EAX, ECX, EDX}

\* Mutant: both words of the result are given to EAX.
LongBinaryInEAX(g, t) ==
  LET pushed == Read(Read(g.ctx, g.src, t.rhs), g.dst, t.lhs)
      a == FreeAll(pushed, <<EAX, ECX, EDX>>)
      b == AssociatePair(a, Pair(EAX, EAX), t.result)
  IN  Produce(Clobber(b, CallRegs), Pair(EAX, EDX), t.result)

LongBinary(g, t) ==
  LET pushed == Read(Read(g.ctx, g.src, t.rhs), g.dst, t.lhs)
      a == FreeAll(pushed, <<EAX, ECX, EDX>>)
      b == AssociatePair(a, Pair(EAX, EDX), t.result)
  IN  Produce(Clobber(b, CallRegs), Pair(EAX, EDX), t.result)

-----------------------------------------------------------------------------
(* X86_LSH and RSH: the count is a constant or in ECX.                     *)

\* X86_MOV from a register to the place an operand names.
Store(s, op, r) ==
  CASE op.format = "Reg" -> SetReg(s, op.regs[0], Content(s, r))
    [] op.format = "InSIB" /\ op.base = NIL ->
         [s EXCEPT !.cell[op.at][0] = Content(s, r)]
    [] OTHER -> s

\* The left operand stays where it is when it is used here for the last time,
\* and not where the count has to be.
InPlace(g, t) ==
  /\ t.lhs \in g.ctx.inregister
  /\ g.ctx.last[t.lhs] <= seqid
  /\ g.ctx.regs[t.lhs][0] # ECX \/ g.src.format = "Imm"

ShiftLoaded(a, g, t) ==
  Associate(Load(a.ctx, Pair(a.reg, NIL), g.dst, t.lhs), a.reg, t.result, 0)

ShiftTarget(g, t) ==
  IF InPlace(g, t) THEN Give(g.ctx, g.ctx.regs[t.lhs][0], t.result, 0)
  ELSE ShiftLoaded(Alloc(g.ctx, {EAX, EBX, EDX}), g, t)

ShiftCount(s, src, d) ==
  IF src.format = "Imm" \/ (src.format = "Reg" /\ src.regs[0] = ECX) THEN s
  ELSE Associate(Store(Free(s, ECX), src, ECX), ECX, d, 0)

EmitShift(s, t) ==
  EmitBinary(s, GetOperand(s, t.result), GetOperand(s, t.rhs), t)

ShiftWord(g, t) == EmitShift(ShiftCount(ShiftTarget(g, t), g.src, t.rhs), t)

ShiftLong(g, t) ==
  LET a == IF /\ t.rhs \in g.ctx.inregister \ g.ctx.inmemory
              /\ g.ctx.regs[t.rhs][0] \in {EAX, EDX}
           THEN Spill(g.ctx, t.rhs) ELSE g.ctx
      b == Load(FreeAll(a, <<EAX, ECX, EDX>>), Pair(EAX, EDX), g.dst, t.lhs)
      c == AssociatePair(Load(b, Pair(ECX, NIL), g.src, t.rhs),
                         Pair(EAX, EDX), t.result)
  IN  EmitBinary(c, Reg(Pair(EAX, EDX)), Reg(Pair(ECX, NIL)), t)

-----------------------------------------------------------------------------
(* X86_DIV and MOD of 32 bits: edx:eax / src => eax: quotient, edx:        *)
(* remainder; the code extends EAX into EDX before it divides.             *)

\* Mutant: EDX is not vacated.
QuotientKeepsEDX(s, dst, src, t) ==
  LET home == IF t.op = "DIV" THEN EAX ELSE EDX
      a == Associate(UnmarkUsed(s, {EAX, EDX}), home, t.result, 0)
      extended == Clobber(Read(a, dst, t.lhs), {EDX})
  IN  Produce(Clobber(Read(extended, src, t.rhs), {EAX, EDX}),
              Pair(home, NIL), t.result)

\* Mutant: EAX and EDX stay marked as being used.
QuotientKeepsMarks(s, dst, src, t) ==
  LET home == IF t.op = "DIV" THEN EAX ELSE EDX
      a == Associate(Free(s, EDX), home, t.result, 0)
      extended == Clobber(Read(a, dst, t.lhs), {EDX})
  IN  Produce(Clobber(Read(extended, src, t.rhs), {EAX, EDX}),
              Pair(home, NIL), t.result)

Quotient(s, dst, src, t) ==
  LET home == IF t.op = "DIV" THEN EAX ELSE EDX
      a == Associate(UnmarkUsed(Free(s, EDX), {EAX, EDX}), home, t.result, 0)
      extended == Clobber(Read(a, dst, t.lhs), {EDX})
  IN  Produce(Clobber(Read(extended, src, t.rhs), {EAX, EDX}),
              Pair(home, NIL), t.result)

\* The dividend is in EAX, or is brought there.
DivideBy(r, dst, t) ==
  IF t.lhs \in r.ctx.inregister /\ r.ctx.regs[t.lhs][0] = EAX
  THEN Quotient(r.ctx, dst, r.op, t)
  ELSE Quotient(Load(Free(r.ctx, EAX), Pair(EAX, NIL), dst, t.lhs),
                Reg(Pair(EAX, NIL)), r.op, t)

DivideWord(g, t) ==
  DivideBy(ToReg(Got(MarkUsed(g.ctx, {EAX, EDX}), g.src), t.rhs), g.dst, t)

-----------------------------------------------------------------------------
(* X86_NEG and NOT.                                                        *)

Negated(g, t) ==
  Produce(Read(TakeOver(g.ctx, t.lhs, t.result), g.op, t.lhs),
          g.ctx.regs[t.lhs], t.result)

IntegerUnary(g, t) == Negated(ToReg(g, t.lhs), t)

FloatNegate(g, t) ==
  Produce(IF t.lhs \in g.ctx.inregister
          THEN Read(TakeOver(g.ctx, t.lhs, t.result), g.op, t.lhs)
          ELSE Associate(Load(Free(g.ctx, ST0), Top, g.op, t.lhs),
                         ST0, t.result, 0),
          Top, t.result)

-----------------------------------------------------------------------------
(* X86_JE, JNE, JG, JL, JGE and JLE.                                       *)

\* The code itself: cmp, or fcom, whose operand is an address, and fnstsw ax.
EmitCompare(s, dst, src, t) ==
  LET a == Read(Read(s, dst, t.lhs), src, t.rhs) IN
  IF Ty[t.lhs] # "f" THEN a
  ELSE IF src.format = "InSIB" THEN Clobber(a, {EAX})
  ELSE [Clobber(a, {EAX}) EXCEPT !.misread = @ \cup {t.rhs}]

CompareWith(l, src, t) ==
  EmitCompare(Assertion(l.ctx, t.lhs \in l.ctx.inregister, "lhs->_x._inregister"),
              l.op, src, t)

IntegerJump(g, t) == CompareWith(ToReg(Got(g.ctx, g.dst), t.lhs), g.src, t)

FloatCompare(s, dst, src, t) ==
  IF t.lhs \in s.inregister THEN EmitCompare(s, dst, src, t)
  ELSE EmitCompare(Load(Give(SpillFromRegister(s, t.rhs), ST0, t.lhs, 0),
                        Top, dst, t.lhs),
                   Reg(Top), IF t.lhs = t.rhs THEN Reg(Top) ELSE src, t)

FloatJump(g, t) == FloatCompare(Free(g.ctx, EAX), g.dst, g.src, t)

-----------------------------------------------------------------------------
(* X86_CVT: the result is _result, the operand _kids[0].                   *)

\* A register that holds d comes to hold an equal value too.
Alias(s, regs, d) ==
  LET also(a, r, p) == IF r = NIL THEN a ELSE [a EXCEPT !.reg[r] = @ \cup {<<d, p>>}]
  IN  also(also(AssociatePair(s, regs, d), regs[0], 0), regs[1], 1)

\* The code itself: it reads the operand and leaves the result where its node
\* says, in its registers or in its place in memory.
Convert(s, src, t) ==
  LET a == Read(s, src, t.lhs) IN
  IF t.result \in s.inregister THEN Produce(a, s.regs[t.result], t.result)
  ELSE [a EXCEPT !.cell[t.result] = [p \in 0 .. 1 |-> {<<t.result, p>>}]]

AliasOf(g, t) ==
  Alias(Assertion(g.ctx, t.lhs \in g.ctx.inregister, "rhs->_x._inregister"),
        g.ctx.regs[t.lhs], t.result)

SameSize(g, t) == AliasOf(ToReg(g, t.lhs), t)

\* ESI and EDI have no name for their low byte.
Nameless(op) == op.format = "Reg" /\ op.regs[0] \in {ESI, EDI}

ToNarrow(g, t) ==
  [Convert(Take(g.ctx, NormalRegs, t.result, 0).ctx, g.op, t) EXCEPT
     !.misread = IF Ty[t.result] = "b" /\ Nameless(g.op) THEN @ \cup {t.lhs} ELSE @]

ConvertGot(g, t) == Convert(g.ctx, g.op, t)

ToLong(g, t) ==
  LET a == AssociatePair(FreeAll(g.ctx, <<EAX, EDX>>), Pair(EAX, EDX), t.result)
  IN  ConvertGot(ToReg(Got(a, g.op), t.lhs), t)

\* fistp pops what it stores: ST0, or what the code has just pushed.  Only the
\* low word of a 64-bit result is stored, the high one is read all the same.
FloatToInteger(g, t) ==
  LET wide == Ty[t.result] = "q"
      a == Give(Give(g.ctx, EAX, t.result, 0), IF wide THEN EDX ELSE NIL, t.result, 1)
      b == Convert(Assertion(a, g.op.format \in {"Reg", "InSIB"},
                             "FormatReg or FormatInSIB"), g.op, t)
      c == Clobber(b, IF wide THEN {EDX} ELSE {})
  IN  IF g.op.format = "Reg" THEN PopTop(c)
      ELSE PushTop(c, t.lhs)

\* For an operand of 8 or 16 bits the last code has the intermediate register
\* for its destination, and nothing is stored in the result's place.
Extend(a, op, d) == Read(SetReg(Read(a.ctx, op, d), a.reg, {}), op, d)

IntegerToFloat(g, t) ==
  LET a == AllocTemporary(g.ctx, t.result)
  IN  IF Ty[t.lhs] = "b" THEN Extend(Alloc(a, NormalRegs), g.op, t.lhs)
      ELSE Convert(PushTop(a, t.lhs), g.op, t)

FloatToFloat(g, t) ==
  IF g.op.format = "Reg" THEN Alias(g.ctx, Top, t.result)
  ELSE KeepTop(PushTop(Convert(Give(g.ctx, ST0, t.result, 0), g.op, t), t.lhs))

-----------------------------------------------------------------------------
(* X86_MOV: stores src at the address dst.                                 *)

GetBase(s, t) == ToSIB(Get(s, t.lhs), t.lhs)
GetStore(s, t) == AddSource(GetBase(s, t), t.rhs)

StringRegs == <<EDI, ESI, ECX>>

StoreFrom(g, dst, t) == Read(Read(g.ctx, dst, t.lhs), g.op, t.rhs)

Assign(g, t) ==
  StoreFrom(IF g.src.format = "Imm" THEN Got(g.ctx, g.src)
            ELSE ToReg(Got(g.ctx, g.src), t.rhs), g.dst, t)

\* Mutant: ECX is not vacated for the count.
CopyBlockOverECX(g, t) ==
  LET a == FreeAll(g.ctx, <<EDI, ESI>>)
      b == Clobber(Read(a, g.dst, t.lhs), {EDI})
  IN  Clobber(Read(b, g.src, t.rhs), {EDI, ESI, ECX})

\* lea edi, dst; lea esi, src; mov ecx, count; rep movsb
CopyBlock(g, t) ==
  LET a == FreeAll(Assertion(g.ctx, g.src.format = "InSIB", "FormatInSIB"),
                   StringRegs)
      b == Clobber(Read(a, g.dst, t.lhs), {EDI})
  IN  Clobber(Read(b, g.src, t.rhs), {EDI, ESI, ECX})

-----------------------------------------------------------------------------
(* X86_PUSH.                                                               *)

Push(g, t) == Read(g.ctx, g.op, t.lhs)

\* The code has the block for its destination and no source; writing it out
\* asserts an address for the one and the block for the other.
PushBlock(g, t) ==
  LET a == FreeAll(Assertion(g.ctx, g.op.format = "InSIB", "FormatInSIB"),
                   StringRegs)
  IN  Clobber(a, {EDI, ESI, ECX})

-----------------------------------------------------------------------------
(* X86_CALL: cdecl and stdcall functions keep the other registers.         *)

\* Mutant: a value in ECX is not saved.
CallKeepsECX(g, t) ==
  LET a == Read(FreeAll(g.ctx, <<EAX, EDX, ST0>>), g.op, t.lhs)
      b == Clobber(a, CallRegs \cup {ST0})
      regs == CASE Ty[t.result] = "f" -> Top
                [] Ty[t.result] = "q" -> Pair(EAX, EDX)
                [] OTHER -> Pair(EAX, NIL)
  IN  Produce(AssociatePair(b, regs, t.result), regs, t.result)

Call(g, t) ==
  LET a == Read(FreeAll(g.ctx, <<EAX, ECX, EDX, ST0>>), g.op, t.lhs)
      b == Clobber(a, CallRegs \cup {ST0})
      regs == CASE Ty[t.result] = "f" -> Top
                [] Ty[t.result] = "q" -> Pair(EAX, EDX)
                [] OTHER -> Pair(EAX, NIL)
  IN  Produce(IF Ty[t.result] = "f" THEN KeepTop(AssociatePair(b, regs, t.result))
              ELSE AssociatePair(b, regs, t.result),
              regs, t.result)

-----------------------------------------------------------------------------
(* X86_MOVERET, X86_LOAD and X86_ZERO_M.                                   *)

MoveReturn(g, t) ==
  LET regs == CASE Ty[t.lhs] = "f" -> Top
                [] Ty[t.lhs] = "q" -> Pair(EAX, EDX)
                [] OTHER -> Pair(EAX, NIL)
  IN  IF g.op.format = "Reg" /\ g.op.regs = regs THEN Read(g.ctx, g.op, t.lhs)
      ELSE Load(g.ctx, regs, g.op, t.lhs)

LoadedPointer(a, op, d) == Load(a.ctx, Pair(a.reg, NIL), op, d)

LoadPointer(g, t) ==
  IF t.lhs \in g.ctx.inregister THEN g.ctx
  ELSE LoadedPointer(Take(g.ctx, NormalAddrRegs, t.lhs, 0), g.op, t.lhs)

ZeroMemory(g, t) ==
  Clobber(Read(FreeAll(g.ctx, <<EDI, EAX, ECX>>), g.op, t.lhs), {EDI, EAX, ECX})

-----------------------------------------------------------------------------
(* The triples of a function, in an order munch_expr and munch_stmt may    *)
(* give them.                                                              *)

AtHand(d) ==
  /\ gen.last[d] >= seqid
  /\ d \in Values => d \in emitted
  /\ d \in Inds => Kid[d] \in emitted

\* mark_lastref marks the node an INDIR reads through as well.
Uses(t) == {t.lhs, t.rhs, t.result} \cup {Kid[d] : d \in {t.lhs, t.rhs} \cap Inds}

UsesNow(t) ==
  /\ \A d \in {t.lhs, t.rhs} \ {NoDag} : AtHand(d)
  /\ t.result \notin emitted
  /\ \A d \in Dags : gen.last[d] = seqid => d \in Uses(t)
  /\ \A d \in t.dies : gen.last[d] = seqid
  /\ \A d \in t.lives : gen.last[d] > seqid

\* The contexts in which the translation of t may start: the last use of its
\* result, which is not before the last use of what is read through it.
Starts(t) ==
  IF t.result \in Values
  THEN {[gen EXCEPT !.last[t.result] = n] : n \in
          {m \in seqid .. Length[function] :
             \A d \in Inds : Kid[d] = t.result => gen.last[d] <= m}}
  ELSE {gen}

Translate(t, Operands(_, _), Handler(_, _)) ==
  /\ seqid <= Length[function]
  /\ gen.failed = {}
  /\ UsesNow(t)
  /\ \E s \in Starts(t) : gen' = Handler(Operands(s, t), t)
  /\ seqid' = seqid + 1
  /\ emitted' = emitted \cup ({t.result} \ {NoDag})
  /\ UNCHANGED function

\* What follows a return and can be reached starts with a label, and a new DAG
\* with it. The values made before a conditional jump outlive it.
EndsBlock == \A d \in Dags : gen.last[d] <= seqid

\* Last uses of the leaves of f; a value gets its own when it is made.
LastUses(f) ==
  LET leaves == UNION {Uses(t) : t \in Triples[f]} \ (Values \cup {NoDag})
  IN  {[d \in Dags |-> IF d \in leaves THEN g[d] ELSE 0] :
         g \in {h \in [leaves -> 0 .. Length[f]] :
                 \A d \in leaves \cap Inds : Kid[d] \in Vars => h[d] <= h[Kid[d]]}}

Init ==
  /\ seqid = 1
  /\ emitted = {}
  /\ function \in Functions
  /\ gen \in
       {[link |-> [r \in Registers |-> <<>>],
         lastref |-> [r \in Registers |-> 0],
         using |-> {},
         last |-> last,
         inregister |-> {},
         regs |-> [d \in Dags |-> NoRegs],
         inmemory |-> Vars,
         reg |-> [r \in Registers |-> {}],
         cell |-> [d \in Dags |-> [p \in 0 .. 1 |->
                     IF d \in Vars /\ p \in PartsOf(d) THEN {<<d, p>>} ELSE {}]],
         depth |-> 0,
         misread |-> {},
         failed |-> {}] :
        last \in LastUses(function)}

Logic ==
  \E t \in Triples[function] :
    t.op \in {"OR", "XOR", "AND"} /\ Translate(t, GetBoth, IntegerBinary)

AddSub ==
  \E t \in Triples[function] : t.op \in {"ADD", "SUB"} /\
    \/ Integer(t.lhs) /\ Translate(t, GetBoth, IntegerBinary)
    \/ Ty[t.lhs] = "f" /\ Translate(t, GetBoth, FloatBinary)

Mul ==
  \E t \in Triples[function] : t.op = "MUL" /\
    \/ Ty[t.lhs] = "w" /\ Translate(t, GetBoth, IntegerBinary)
    \/ Ty[t.lhs] = "q" /\ Translate(t, GetBoth, LongBinary)
    \/ Ty[t.lhs] = "f" /\ Translate(t, GetBoth, FloatBinary)

Shift ==
  \E t \in Triples[function] : t.op \in {"LSH", "RSH"} /\
    \/ Ty[t.lhs] = "w" /\ Translate(t, GetBoth, ShiftWord)
    \/ Ty[t.lhs] = "q" /\ Translate(t, GetBoth, ShiftLong)

DivMod ==
  \E t \in Triples[function] : t.op \in {"DIV", "MOD"} /\
    \/ Ty[t.lhs] = "w" /\ Translate(t, GetBoth, DivideWord)
    \/ Ty[t.lhs] = "q" /\ Translate(t, GetBoth, LongBinary)
    \/ Ty[t.lhs] = "f" /\ Translate(t, GetBoth, FloatBinary)

NegNot ==
  \E t \in Triples[function] : t.op \in {"NEG", "NOT"} /\
    \/ Integer(t.lhs) /\ Translate(t, GetOne, IntegerUnary)
    \/ Ty[t.lhs] = "f" /\ Translate(t, GetOne, FloatNegate)

Jump ==
  \E t \in Triples[function] : t.op = "J" /\
    \/ Integer(t.lhs) /\ Translate(t, GetBoth, IntegerJump)
    \/ Ty[t.lhs] = "f" /\ Translate(t, GetBoth, FloatJump)

Cvt ==
  \E t \in Triples[function] : t.op = "CVT" /\
    \/ /\ Integer(t.result) /\ Ty[t.result] = Ty[t.lhs]
       /\ Translate(t, GetSource, SameSize)
    \/ /\ Ty[t.result] \in {"b", "w"} /\ Integer(t.lhs) /\ Ty[t.result] # Ty[t.lhs]
       /\ Translate(t, GetSource, ToNarrow)
    \/ /\ Ty[t.result] = "q" /\ Ty[t.lhs] \in {"b", "w"}
       /\ Translate(t, GetSource, ToLong)
    \/ Integer(t.result) /\ Ty[t.lhs] = "f" /\ Translate(t, GetSource, FloatToInteger)
    \/ Ty[t.result] = "f" /\ Integer(t.lhs) /\ Translate(t, GetSource, IntegerToFloat)
    \/ Ty[t.result] = "f" /\ Ty[t.lhs] = "f" /\ Translate(t, GetSource, FloatToFloat)

Mov ==
  \E t \in Triples[function] : t.op = "MOV" /\
    \/ Ty[t.rhs] # "blk" /\ Translate(t, GetStore, Assign)
    \/ Ty[t.rhs] = "blk" /\ Translate(t, GetStore, CopyBlock)

PushArg ==
  \E t \in Triples[function] : t.op = "PUSH" /\
    \/ Ty[t.lhs] # "blk" /\ Translate(t, GetSource, Push)
    \/ Ty[t.lhs] = "blk" /\ Translate(t, GetOne, PushBlock)

CallFunction == \E t \in Triples[function] : t.op = "CALL" /\ Translate(t, GetOne, Call)

MovRet ==
  \E t \in Triples[function] : t.op = "MOVERET" /\ EndsBlock /\ Translate(t, GetOne, MoveReturn)

\* Only the pointer that an INDIR after it reads through is loaded.
LoadPtr ==
  \E t \in Triples[function] :
    /\ t.op = "LOAD"
    /\ \E d \in Inds : Kid[d] = t.lhs /\ gen.last[d] > seqid
    /\ Translate(t, GetOne, LoadPointer)

ZeroMem == \E t \in Triples[function] : t.op = "ZERO" /\ Translate(t, GetBase, ZeroMemory)

\* A label, a jump, the prologue or the epilogue: no operand.
NoOperand ==
  /\ seqid <= Length[function] /\ gen.failed = {}
  /\ \A d \in Dags : gen.last[d] # seqid
  /\ seqid' = seqid + 1
  /\ UNCHANGED <<gen, function, emitted>>

Next ==
  \/ Logic \/ AddSub \/ Mul \/ Shift \/ DivMod \/ NegNot \/ Jump \/ Cvt \/ Mov
  \/ PushArg \/ CallFunction \/ MovRet \/ LoadPtr \/ ZeroMem \/ NoOperand

Spec == Init /\ [][Next]_vars

-----------------------------------------------------------------------------
(* Properties, beside RegX86's UsersMatch, PartsApart and ValuesKept.      *)

\* Types, for every context that the handlers leave behind.
TypeOK == RegTypeOK /\ emitted \subseteq Dags /\ function \in Functions

\* Every operand of an emitted code holds, when the code runs, the value of
\* the node it was made from.
OperandsHold == gen.misread = {}

\* No assertion of the generator or the register file fails.
NoAssertionFails == gen.failed = {}

\* A computed value is in registers or in memory as long as it is wanted.
NothingLost ==
  \A d \in emitted \cap Values :
    gen.last[d] >= seqid => d \in gen.inregister \cup gen.inmemory

\* Between two triples no register is set aside.
NothingSetAside == gen.using = {}
=============================================================================
