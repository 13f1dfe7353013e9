----------------------------- MODULE StructFields -----------------------------
(***************************************************************************)
(* The end of cc_parser_structfields (parser.c): the fields of a structure *)
(* or union have been read, and are placed one after the other.            *)
(***************************************************************************)
EXTENDS TypeLayout

CONSTANTS
  Declarations  \* the fields that structures and unions may have: sequences

VARIABLES
  op,        \* "struct" or "union"
  declared,  \* the fields as they are declared
  laid,      \* what the loop keeps from field to field
  sty,       \* the type that comes of it
  phase      \* "placing", "refused" or "complete"

vars == <<op, declared, laid, sty, phase>>

\* Sizes are of whole alignments and of two alignments one divides the other, as
\* of the metrics of cc.c; a bit-field has an integer type, whose size tells its
\* alignment, and no more bits than that.
FieldTypes(f) ==
  /\ f.ty.size \in Nat
  /\ f.ty.align \in Nat \ {0}
  /\ f.bits \in 0 .. 8 * f.ty.size

Agree(f, g) ==
  /\ f.ty.align <= g.ty.align => g.ty.align % f.ty.align = 0
  /\ f.bits > 0 /\ g.bits > 0 /\ f.ty.size = g.ty.size => f.ty.align = g.ty.align

ASSUME DeclarationsAssumption ==
  \A fields \in Declarations :
    /\ fields \in Seq({Field(fields[n].ty, fields[n].bits) : n \in DOMAIN fields})
    /\ fields # <<>>
    /\ \A n \in DOMAIN fields : FieldTypes(fields[n])
    /\ \A m, n \in DOMAIN fields : Agree(fields[m], fields[n])

Init ==
  /\ op \in {"struct", "union"}
  /\ declared \in Declarations
  /\ laid = NoFields
  /\ sty = Type(op, 0, 0, <<>>, <<>>)
  /\ phase = "placing"

\* The field of this round.
Round == Len(laid.fields) + 1
Current == declared[Round]

\* Mutant: any field may be an array without a size.
SizeDefinedOrArray == Current.ty.size > 0 \/ Current.ty.op = "array"

\* Only the last field may be an array without a size.
SizeDefined ==
  Current.ty.size > 0 \/ (Current.ty.op = "array" /\ Round = Len(declared))

Place ==
  /\ phase = "placing" /\ Round <= Len(declared)
  /\ SizeDefined
  /\ laid' = PlaceField(op, laid, Current)
  /\ UNCHANGED <<op, declared, sty, phase>>

Refuse ==
  /\ phase = "placing" /\ Round <= Len(declared)
  /\ ~SizeDefined
  /\ phase' = "refused"
  /\ UNCHANGED <<op, declared, laid, sty>>

Finish ==
  /\ phase = "placing" /\ Round > Len(declared)
  /\ sty' = Completed(op, laid)
  /\ phase' = "complete"
  /\ UNCHANGED <<op, declared, laid>>

Next == Place \/ Refuse \/ Finish

Spec == Init /\ [][Next]_vars

-----------------------------------------------------------------------------
\* What is placed is what is declared, in its order, and every field but the last
\* has a size.
StructTypeOK ==
  /\ op \in {"struct", "union"}
  /\ declared \in Declarations
  /\ phase \in {"placing", "refused", "complete"}
  /\ Len(laid.fields) <= Len(declared)
  /\ \A n \in DOMAIN laid.fields :
       LET f == laid.fields[n] IN
       /\ f = Placed(declared[n], f.off, f.lsb)
       /\ n < Len(declared) => f.ty.size > 0
  /\ phase = "complete" => sty.fields = laid.fields /\ Len(sty.fields) = Len(declared)

\* A field lies within its structure, a bit-field within one unit of its type;
\* the offset of either is aligned, in an array of the structure or union that of
\* every element (cc_parser_structfields).
FieldsWithin ==
  phase = "complete" =>
    \A n \in DOMAIN sty.fields :
      LET f == sty.fields[n] IN
      /\ f.off % f.ty.align = 0
      /\ Bits(f) \subseteq 8 * f.off .. 8 * (f.off + f.ty.size) - 1
      /\ f.off + f.ty.size <= sty.size
      /\ sty.size % f.ty.align = 0

\* Bit-fields side by side have units of one size. (Others are placed one over
\* the other: parser.c:1734.)
OneUnitSize ==
  \A n \in 2 .. Len(declared) :
    declared[n - 1].bits > 0 /\ declared[n].bits > 0 =>
      declared[n - 1].ty.size = declared[n].ty.size

\* The fields of a structure are one behind the other and share no bit
\* (cc_parser_structfields), if bit-fields side by side have units of one size.
FieldsApart ==
  phase = "complete" /\ op = "struct" /\ OneUnitSize =>
    \A n \in DOMAIN sty.fields : \A m \in 1 .. n - 1 :
      /\ sty.fields[m].off <= sty.fields[n].off
      /\ Bits(sty.fields[m]) \cap Bits(sty.fields[n]) = {}

\* The assertion of parser.c:1725: a unit of bits that may go on is where a field
\* of this type may be.
UnitAligned ==
  phase = "placing" /\ Round <= Len(declared) =>
    LET s == Start(op, laid) IN
    Current.bits > 0 /\ Follows(s, Current) => RoundUp(s.off, Current.ty.align) = s.off
=============================================================================
