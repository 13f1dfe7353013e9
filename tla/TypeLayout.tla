------------------------------ MODULE TypeLayout ------------------------------
(***************************************************************************)
(* Sizes and alignments of types (types.c), and the rounds by which the    *)
(* parser places the fields of structures and unions (the loop at the end  *)
(* of cc_parser_structfields).  Sizes are below 2 ^ 31.                    *)
(***************************************************************************)
EXTENDS Integers, Sequences, SequencesExt

Type(op, bytes0, align, of, fields) ==
  [op |-> op, size |-> bytes0, align |-> align, of |-> of, fields |-> fields]
SInt == Type("int", 4, 4, <<>>, <<>>)
Char == Type("char", 1, 1, <<>>, <<>>)
IsScalar(ty) == ty.op \in {"int", "char"}
Element(ty) == ty.of[1]

\* cc_type_newarray; no elements for "[]"
Array(ty, n) == Type("array", n * ty.size, ty.align, <<ty>>, <<>>)

\* util_roundup: the mask is right as alignments are powers of two.
RoundUp(x, align) == ((x + align - 1) \div align) * align

\* A field as it is declared; bits is 0 unless it is a bit-field.
Field(ty, bits) == [ty |-> ty, bits |-> bits, off |-> 0, lsb |-> 0]

\* What cc_parser_structfields keeps from field to field; unit is the size of
\* the previous field when that is a bit-field, or 0.
NoFields == [fields |-> <<>>, off |-> 0, max |-> 0, used |-> 0, unit |-> 0, size |-> 0, align |-> 0]

Placed(f, off, lsb) == [f EXCEPT !.off = off, !.lsb = lsb]

\* The first byte after what is laid out so far.
EndOf(s) == s.off + s.max \div 8

\* Mutant: what is left of a unit of bits is used by what follows.
PlacePlainInUnit(s, f) ==
  LET at == RoundUp(s.off, f.ty.align)
  IN [s EXCEPT !.fields = Append(@, Placed(f, at, 0)), !.off = at + f.ty.size,
               !.max = 0, !.unit = 0]

PlacePlain(s, f) ==
  LET at == RoundUp(EndOf(s), f.ty.align)
  IN [s EXCEPT !.fields = Append(@, Placed(f, at, 0)), !.off = at + f.ty.size,
               !.max = 0, !.unit = 0]

\* The previous field is a bit-field with a unit of the same size.
Follows(s, f) == s.max # 0 /\ s.unit \in {0, f.ty.size}

\* Mutant: a bit-field goes on in a unit that is too full for it.
ReusesAnyBits(s, f) == Follows(s, f)

\* "check reuse previous bit-field's remained bits"
ReusesBits(s, f) == Follows(s, f) /\ s.max - s.used >= f.bits

\* Mutant: a new unit of bits is not aligned.
UnitUnaligned(s, f) == IF Follows(s, f) THEN EndOf(s) ELSE s.off

\* Where a new unit of bits starts.
UnitAt(s, f) == RoundUp(IF Follows(s, f) THEN EndOf(s) ELSE s.off, f.ty.align)

ReuseUnit(s, f) ==
  [s EXCEPT !.fields = Append(@, Placed(f, s.off, s.used + 1)), !.used = @ + f.bits,
            !.unit = f.ty.size]

NewUnit(s, f) ==
  [s EXCEPT !.fields = Append(@, Placed(f, UnitAt(s, f), 1)), !.off = UnitAt(s, f),
            !.max = 8 * f.ty.size, !.used = f.bits, !.unit = f.ty.size]

PlaceBits(s, f) == IF ReusesBits(s, f) THEN ReuseUnit(s, f) ELSE NewUnit(s, f)

\* "expand structure", and the alignment of the widest field.
Expand(s, f) ==
  [s EXCEPT !.size = IF @ < EndOf(s) THEN EndOf(s) ELSE @,
            !.align = IF @ < f.ty.align THEN f.ty.align ELSE @]

\* In a union every field starts anew.
Start(op, s) == IF op = "union" THEN [s EXCEPT !.max = 0, !.used = 0, !.off = 0] ELSE s

\* One round of "calculate field offset & size".
PlaceField(op, s, f) ==
  LET from == Start(op, s)
  IN Expand(IF f.bits = 0 THEN PlacePlain(from, f) ELSE PlaceBits(from, f), f)

\* The structure with all of its fields.
Completed(op, s) == Type(op, RoundUp(s.size, s.align), s.align, <<>>, s.fields)

Aggregate(op, fields) ==
  Completed(op, FoldLeft(LAMBDA acc, f : PlaceField(op, acc, f), NoFields, fields))

\* The bits of a placed field, from the beginning of the structure.
FirstBit(f) == 8 * f.off + (IF f.bits = 0 THEN 0 ELSE f.lsb - 1)
BeyondBit(f) == FirstBit(f) + (IF f.bits = 0 THEN 8 * f.ty.size ELSE f.bits)
Bits(f) == FirstBit(f) .. BeyondBit(f) - 1
=============================================================================
