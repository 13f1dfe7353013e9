----------------------------- MODULE StructProofs -----------------------------
(* Proofs about StructFields: fields are aligned, within their structure and  *)
(* apart from each other, for any number of fields of any sizes.              *)
EXTENDS StructFields, SequenceTheorems, TLAPS

-----------------------------------------------------------------------------
(* Multiples, and util_roundup.                                            *)

\* Quotient and remainder.
LEMMA Division ==
  ASSUME NEW x \in Nat, NEW a \in Nat \ {0}, NEW k \in Int, NEW r \in Int,
         k = x \div a, r = x % a
  PROVE  x = k * a + r /\ k \in Nat
  <1>1. k * a + r = x
    BY Z3
  <1>2. k \in Nat
    OBVIOUS
  <1> QED BY <1>1, <1>2

\* Products are multiples.
LEMMA ProductMultiple ==
  ASSUME NEW k \in Nat, NEW a \in Nat \ {0}
  PROVE  (k * a) % a = 0
  OBVIOUS

\* Multiples are products.
LEMMA MultipleProduct ==
  ASSUME NEW x \in Nat, NEW a \in Nat \ {0}, x % a = 0
  PROVE  \E k \in Nat : x = k * a
  <1>1. x \div a \in Int /\ x % a \in Int
    OBVIOUS
  <1>2. PICK k \in Int : k = x \div a
    BY <1>1
  <1>3. k \in Nat /\ x = k * a + 0
    BY <1>1, <1>2, Division
  <1> QED BY <1>3

\* A multiple of a multiple.
LEMMA MultipleOfMultiple ==
  ASSUME NEW x \in Nat, NEW a \in Nat \ {0}, NEW b \in Nat \ {0}, x % b = 0, b % a = 0
  PROVE  x % a = 0
  <1>1. PICK k \in Nat : x = k * b
    BY MultipleProduct
  <1>2. PICK j \in Nat : b = j * a
    BY MultipleProduct
  <1>3. x = (k * j) * a /\ k * j \in Nat
    BY <1>1, <1>2
  <1> QED BY <1>3, ProductMultiple

\* util_roundup gives a multiple that is not less.
LEMMA RoundUpFact ==
  ASSUME NEW x \in Nat, NEW a \in Nat \ {0}
  PROVE  RoundUp(x, a) \in Nat /\ RoundUp(x, a) >= x /\ RoundUp(x, a) % a = 0
  BY DEF RoundUp

\* It leaves multiples alone.
LEMMA RoundUpMultiple ==
  ASSUME NEW x \in Nat, NEW a \in Nat \ {0}, x % a = 0
  PROVE  RoundUp(x, a) = x
  <1>1. PICK k \in Nat : x = k * a
    BY MultipleProduct
  <1>2. (k * a + a - 1) \div a = k
    OBVIOUS
  <1> QED BY <1>1, <1>2 DEF RoundUp

-----------------------------------------------------------------------------
(* What holds from round to round, of the fields d as they are declared    *)
(* and what the loop keeps, s.                                             *)

Legal(d) ==
  /\ Len(d) \in Nat /\ DOMAIN d = 1 .. Len(d)
  /\ \A n \in 1 .. Len(d) : d[n] = Field(d[n].ty, d[n].bits) /\ FieldTypes(d[n])
  /\ \A m, n \in 1 .. Len(d) : Agree(d[m], d[n])

TypesOf(d) == {d[n].ty : n \in 1 .. Len(d)}

PlacedFields(d) ==
  [ty : TypesOf(d), bits : Nat, off : Nat, lsb : Nat]

Kept(d) ==
  [fields : Seq(PlacedFields(d)), off : Nat, max : Nat, used : Nat, unit : Nat,
   size : Nat, align : Nat]

\* The fields placed so far are those declared.
AsDeclared(d, s) ==
  /\ Len(s.fields) <= Len(d)
  /\ \A n \in 1 .. Len(s.fields) :
       /\ s.fields[n] = Placed(d[n], s.fields[n].off, s.fields[n].lsb)
       /\ n < Len(d) => d[n].ty.size > 0

\* A unit of bits is that of the last field, and it is aligned.
UnitOfLast(d, s) ==
  s.max # 0 =>
    /\ Len(s.fields) > 0
    /\ d[Len(s.fields)].bits > 0
    /\ s.unit = d[Len(s.fields)].ty.size
    /\ s.max = 8 * s.unit
    /\ s.used <= s.max
    /\ s.off % d[Len(s.fields)].ty.align = 0

\* A placed field is aligned and its bits are within its unit.
InUnit(f) ==
  /\ f.off % f.ty.align = 0
  /\ f.bits > 0 => f.lsb >= 1 /\ f.lsb - 1 + f.bits <= 8 * f.ty.size

AllInside(s) ==
  \A n \in 1 .. Len(s.fields) :
    /\ InUnit(s.fields[n])
    /\ s.fields[n].off + s.fields[n].ty.size <= s.size

\* The alignment is that of a field, and a multiple of that of every field.
AlignOfOne(d, s) ==
  /\ Len(s.fields) > 0 => \E n \in 1 .. Len(s.fields) : s.align = d[n].ty.align
  /\ Len(s.fields) = 0 => s.align = 0
  /\ \A n \in 1 .. Len(s.fields) : s.align % d[n].ty.align = 0

\* The first bit that no field has yet.
FreeBit(s) == 8 * s.off + (IF s.max = 0 THEN 0 ELSE s.used)

SameUnit(d) ==
  \A n \in 2 .. Len(d) :
    d[n - 1].bits > 0 /\ d[n].bits > 0 => d[n - 1].ty.size = d[n].ty.size

InOrder(s) ==
  /\ \A n \in 1 .. Len(s.fields) :
       s.fields[n].off <= s.off /\ BeyondBit(s.fields[n]) <= FreeBit(s)
  /\ \A n \in 1 .. Len(s.fields) : \A m \in 1 .. n - 1 :
       /\ s.fields[m].off <= s.fields[n].off
       /\ BeyondBit(s.fields[m]) <= FirstBit(s.fields[n])

Sound(o, d, s) ==
  /\ s \in Kept(d)
  /\ AsDeclared(d, s)
  /\ UnitOfLast(d, s)
  /\ AllInside(s)
  /\ AlignOfOne(d, s)
  /\ o = "struct" /\ SameUnit(d) => InOrder(s)

StructInv ==
  /\ op \in {"struct", "union"}
  /\ declared \in Declarations
  /\ phase \in {"placing", "refused", "complete"}
  /\ Sound(op, declared, laid)
  /\ phase = "complete" => Len(laid.fields) = Len(declared) /\ sty = Completed(op, laid)

-----------------------------------------------------------------------------
(* One round.                                                              *)

\* What the assumption says of the fields of one structure.
LEMMA LegalFact ==
  ASSUME NEW d \in Declarations
  PROVE  Legal(d) /\ Len(d) > 0
  <1> DEFINE V == {Field(d[n].ty, d[n].bits) : n \in DOMAIN d}
  <1>1. d \in Seq(V) /\ d # <<>>
    BY DeclarationsAssumption
  <1>2. /\ \A n \in DOMAIN d : FieldTypes(d[n])
        /\ \A m, n \in DOMAIN d : Agree(d[m], d[n])
    BY DeclarationsAssumption
  <1>3. Len(d) \in Nat /\ DOMAIN d = 1 .. Len(d) /\ Len(d) > 0
    <2> HIDE DEF V
    <2> QED BY <1>1
  <1>4. ASSUME NEW n \in 1 .. Len(d) PROVE d[n] = Field(d[n].ty, d[n].bits)
    <2>1. d[n] \in V
      BY <1>1, <1>3
    <2>2. PICK i \in DOMAIN d : d[n] = Field(d[i].ty, d[i].bits)
      BY <2>1
    <2> QED BY <2>2 DEF Field
  <1> QED BY <1>2, <1>3, <1>4 DEF Legal

\* What one round puts behind r, as far as the properties need it: the field f.
PutBehind(d, r, f, g, t) ==
  /\ t \in Kept(d)
  /\ t.fields = Append(r.fields, g)
  /\ g \in PlacedFields(d)
  /\ g = Placed(f, g.off, g.lsb)
  /\ InUnit(g)
  /\ g.off + f.ty.size <= EndOf(t)
  /\ t.size = r.size /\ t.align = r.align
  /\ t.max # 0 =>
       /\ f.bits > 0 /\ t.unit = f.ty.size /\ t.max = 8 * t.unit
       /\ t.used <= t.max /\ t.off % f.ty.align = 0

Ordered(r, g, t) ==
  /\ r.off <= g.off /\ g.off <= t.off
  /\ FreeBit(r) <= FirstBit(g) /\ BeyondBit(g) <= FreeBit(t)

Put(d, r, f, t) ==
  \E g : PutBehind(d, r, f, g, t) /\ (SameUnit(d) => Ordered(r, g, t))

\* A field as the parser declares it.
IsDeclared(f) == f = Field(f.ty, f.bits)

\* f is the field whose turn it is.
Turn(d, r, f) ==
  /\ Legal(d) /\ r \in Kept(d) /\ UnitOfLast(d, r)
  /\ Len(r.fields) < Len(d) /\ f = d[Len(r.fields) + 1]

\* The next field.
LEMMA NextField ==
  ASSUME NEW d, NEW r, NEW f, Turn(d, r, f)
  PROVE  /\ IsDeclared(f) /\ f.ty \in TypesOf(d)
         /\ f.bits \in Nat /\ f.ty.size \in Nat /\ f.ty.align \in Nat \ {0}
         /\ f.bits <= 8 * f.ty.size
         /\ Len(r.fields) \in Nat
         /\ Len(r.fields) + 1 \in 1 .. Len(d)
  <1>1. Len(r.fields) \in Nat
    BY DEF Turn, Kept
  <1>2. Len(r.fields) + 1 \in 1 .. Len(d)
    BY <1>1 DEF Turn, Legal
  <1> QED BY <1>1, <1>2 DEF Turn, Legal, FieldTypes, TypesOf, IsDeclared

\* A placed field keeps type and width.
LEMMA PlacedFact ==
  ASSUME NEW d, NEW f, IsDeclared(f), f.ty \in TypesOf(d),
         f.bits \in Nat, NEW off \in Nat, NEW lsb \in Nat
  PROVE  /\ Placed(f, off, lsb) \in PlacedFields(d)
         /\ Placed(f, off, lsb).off = off /\ Placed(f, off, lsb).lsb = lsb
         /\ Placed(f, off, lsb).ty = f.ty /\ Placed(f, off, lsb).bits = f.bits
  BY DEF Placed, Field, PlacedFields, IsDeclared

\* The first byte behind what is placed.
LEMMA EndFact ==
  ASSUME NEW d, NEW r \in Kept(d), r.max # 0 => r.max = 8 * r.unit /\ r.used <= r.max
  PROVE  /\ EndOf(r) \in Nat /\ EndOf(r) >= r.off /\ FreeBit(r) <= 8 * EndOf(r)
         /\ EndOf(r) = r.off + (IF r.max = 0 THEN 0 ELSE r.unit)
  BY DEF Kept, EndOf, FreeBit

\* A field that is no bit-field.
LEMMA PlainPut ==
  ASSUME NEW d, NEW r, NEW f, Turn(d, r, f), f.bits = 0
  PROVE  Put(d, r, f, PlacePlain(r, f))
  <1> DEFINE at == RoundUp(EndOf(r), f.ty.align)
             g == Placed(f, at, 0)
             t == PlacePlain(r, f)
  <1>1. /\ IsDeclared(f) /\ f.ty \in TypesOf(d)
        /\ f.ty.size \in Nat /\ f.ty.align \in Nat \ {0} /\ f.bits \in Nat
    BY NextField
  <1>2. EndOf(r) \in Nat /\ EndOf(r) >= r.off /\ FreeBit(r) <= 8 * EndOf(r)
    BY EndFact DEF Turn, UnitOfLast
  <1>3. at \in Nat /\ at >= EndOf(r) /\ at % f.ty.align = 0
    BY <1>1, <1>2, RoundUpFact
  <1> HIDE DEF at
  <1>4. /\ g \in PlacedFields(d) /\ g.off = at /\ g.lsb = 0 /\ g.ty = f.ty /\ g.bits = f.bits
    <2>1. 0 \in Nat
      OBVIOUS
    <2> QED BY <1>1, <1>3, <2>1, PlacedFact
  <1>5. /\ t.fields = Append(r.fields, g) /\ t.off = at + f.ty.size /\ t.max = 0
        /\ t.used = r.used /\ t.unit = 0 /\ t.size = r.size /\ t.align = r.align
    BY DEF Turn, PlacePlain, Kept, at
  <1> HIDE DEF g
  <1>6. t \in Kept(d)
    <2>1. Append(r.fields, g) \in Seq(PlacedFields(d))
      BY <1>4, AppendProperties DEF Turn, Kept
    <2>2. at + f.ty.size \in Nat
      BY <1>1, <1>3
    <2> DEFINE Q == Seq(PlacedFields(d))
    <2>3. Append(r.fields, g) \in Q
      BY <2>1
    <2>4. t = [r EXCEPT !.fields = Append(r.fields, g), !.off = at + f.ty.size, !.max = 0, !.unit = 0]
      BY DEF PlacePlain, at, g
    <2> HIDE DEF Q, t
    <2>5. r \in [fields : Q, off : Nat, max : Nat, used : Nat, unit : Nat, size : Nat, align : Nat]
      BY DEF Turn, Kept, Q
    <2>6. t \in [fields : Q, off : Nat, max : Nat, used : Nat, unit : Nat, size : Nat, align : Nat]
      BY <2>2, <2>3, <2>4, <2>5
    <2> QED BY <2>6 DEF Turn, Kept, Q
  <1> HIDE DEF t
  <1>7. InUnit(g)
    BY <1>3, <1>4 DEF InUnit
  <1>8. EndOf(t) = at + f.ty.size
    BY <1>1, <1>3, <1>5 DEF EndOf
  <1>9. PutBehind(d, r, f, g, t)
    <2>1. g = Placed(f, g.off, g.lsb)
      BY <1>4 DEF g
    <2> QED BY <1>1, <1>3, <1>4, <1>5, <1>6, <1>7, <1>8, <2>1 DEF PutBehind
  <1>10. Ordered(r, g, t)
    <2>1. FirstBit(g) = 8 * at /\ BeyondBit(g) = 8 * at + 8 * f.ty.size
      BY <1>1, <1>3, <1>4 DEF FirstBit, BeyondBit
    <2>2. FreeBit(t) = 8 * (at + f.ty.size)
      BY <1>1, <1>3, <1>5 DEF FreeBit
    <2>3. r.off \in Nat /\ FreeBit(r) \in Int
      BY DEF Turn, Kept, FreeBit
    <2>4. r.off <= at /\ FreeBit(r) <= 8 * at
      BY <1>2, <1>3, <2>3
    <2>5. at <= at + f.ty.size /\ 8 * at + 8 * f.ty.size <= 8 * (at + f.ty.size)
      BY <1>1, <1>3
    <2> QED BY <1>4, <1>5, <2>1, <2>2, <2>4, <2>5 DEF Ordered
  <1> QED BY <1>9, <1>10 DEF Put, t

\* A bit-field that goes on in the unit of the one before.
LEMMA ReusePut ==
  ASSUME NEW d, NEW r, NEW f, Turn(d, r, f), f.bits > 0, ReusesBits(r, f)
  PROVE  Put(d, r, f, ReuseUnit(r, f))
  <1> DEFINE bit == r.used + 1
             g == Placed(f, r.off, bit)
             t == ReuseUnit(r, f)
             last == d[Len(r.fields)]
  <1>1. /\ IsDeclared(f) /\ f.ty \in TypesOf(d)
        /\ f.ty.size \in Nat /\ f.ty.align \in Nat \ {0} /\ f.bits \in Nat
        /\ Len(r.fields) \in Nat /\ Len(r.fields) + 1 \in 1 .. Len(d)
    BY NextField
  <1>2. r.off \in Nat /\ r.max \in Nat /\ r.used \in Nat /\ r.unit \in Nat
    BY DEF Turn, Kept
  <1>3. /\ r.max # 0 /\ r.unit = f.ty.size /\ r.max = 8 * f.ty.size
        /\ r.used + f.bits <= r.max
    <2>1. /\ r.max # 0 /\ r.unit \in {0, f.ty.size} /\ r.max - r.used >= f.bits
          /\ r.max = 8 * r.unit
      BY DEF Turn, ReusesBits, Follows, UnitOfLast
    <2>2. r.unit = f.ty.size
      BY <2>1
    <2> QED BY <1>1, <1>2, <2>1, <2>2
  <1>4. r.off % f.ty.align = 0
    <2>1. /\ last.bits > 0 /\ last.ty.size = f.ty.size /\ r.off % last.ty.align = 0
          /\ Len(r.fields) \in 1 .. Len(d)
      BY <1>1, <1>3 DEF Turn, UnitOfLast
    <2>2. Agree(last, f)
      BY <1>1, <2>1 DEF Turn, Legal
    <2>3. last.ty.align = f.ty.align
      BY <2>1, <2>2 DEF Agree
    <2> QED BY <2>1, <2>3
  <1>5. /\ g \in PlacedFields(d) /\ g.off = r.off /\ g.lsb = r.used + 1
        /\ g.ty = f.ty /\ g.bits = f.bits
    <2>1. bit \in Nat /\ bit = r.used + 1
      BY <1>2
    <2>2. r.off \in Nat /\ f.bits \in Nat /\ f.ty \in TypesOf(d) /\ IsDeclared(f)
      BY <1>1, <1>2
    <2>3. /\ g \in PlacedFields(d) /\ g.off = r.off /\ g.lsb = bit
          /\ g.ty = f.ty /\ g.bits = f.bits
      <3> HIDE DEF bit
      <3> QED BY <2>1, <2>2, PlacedFact
    <2> QED BY <2>1, <2>3
  <1>6. /\ t.fields = Append(r.fields, g) /\ t.off = r.off /\ t.max = r.max
        /\ t.used = r.used + f.bits /\ t.unit = f.ty.size
        /\ t.size = r.size /\ t.align = r.align
    BY DEF Turn, ReuseUnit, Kept
  <1>7. t \in Kept(d)
    <2> DEFINE Q == Seq(PlacedFields(d))
    <2>1. Append(r.fields, g) \in Q
      BY <1>5, AppendProperties DEF Turn, Kept
    <2>2. t = [r EXCEPT !.fields = Append(r.fields, g), !.used = r.used + f.bits,
                        !.unit = f.ty.size]
      BY DEF Turn, ReuseUnit, Kept
    <2>3. r.used + f.bits \in Nat
      BY <1>1, <1>2
    <2> HIDE DEF Q, t
    <2>4. r \in [fields : Q, off : Nat, max : Nat, used : Nat, unit : Nat, size : Nat, align : Nat]
      BY DEF Turn, Kept, Q
    <2>5. t \in [fields : Q, off : Nat, max : Nat, used : Nat, unit : Nat, size : Nat, align : Nat]
      BY <1>1, <2>1, <2>2, <2>3, <2>4
    <2> QED BY <2>5 DEF Turn, Kept, Q
  <1>8. g = Placed(f, g.off, g.lsb)
    BY <1>5
  <1> HIDE DEF g, t, last
  <1>9. InUnit(g)
    BY <1>1, <1>2, <1>3, <1>4, <1>5 DEF InUnit
  <1>10. EndOf(t) = r.off + f.ty.size
    BY <1>1, <1>2, <1>3, <1>6 DEF EndOf
  <1>11. PutBehind(d, r, f, g, t)
    <2>1. t.used <= t.max /\ t.max = 8 * t.unit /\ t.off % f.ty.align = 0 /\ t.unit = f.ty.size
      BY <1>3, <1>4, <1>6
    <2>2. g.off + f.ty.size <= EndOf(t)
      BY <1>1, <1>2, <1>5, <1>10
    <2> QED BY <1>5, <1>6, <1>7, <1>8, <1>9, <2>1, <2>2 DEF PutBehind
  <1>12. Ordered(r, g, t)
    <2>1. FirstBit(g) = 8 * r.off + r.used /\ BeyondBit(g) = 8 * r.off + r.used + f.bits
      <3>1. g.bits # 0 /\ g.lsb - 1 = r.used
        <4>1. f.bits # 0
          BY <1>1
        <4>2. (r.used + 1) - 1 = r.used
          BY <1>2
        <4> QED BY <1>5, <4>1, <4>2
      <3>2. FirstBit(g) = 8 * r.off + r.used
        BY <1>5, <3>1 DEF FirstBit
      <3>3. BeyondBit(g) = FirstBit(g) + f.bits
        BY <1>5, <3>1 DEF BeyondBit
      <3> QED BY <3>2, <3>3
    <2>2. FreeBit(r) = 8 * r.off + r.used
      BY <1>3 DEF FreeBit
    <2>3. FreeBit(t) = 8 * r.off + (r.used + f.bits)
      BY <1>3, <1>6 DEF FreeBit
    <2>4. FreeBit(r) <= FirstBit(g) /\ r.off <= g.off /\ g.off <= t.off
      BY <1>2, <1>5, <1>6, <2>1, <2>2
    <2>5. BeyondBit(g) <= FreeBit(t)
      BY <1>1, <1>2, <2>1, <2>3
    <2> QED BY <2>4, <2>5 DEF Ordered
  <1> QED BY <1>11, <1>12 DEF Put, t

\* A bit-field that starts a unit.
LEMMA NewPut ==
  ASSUME NEW d, NEW r, NEW f, Turn(d, r, f), f.bits > 0
  PROVE  Put(d, r, f, NewUnit(r, f))
  <1> DEFINE at == UnitAt(r, f)
             g == Placed(f, at, 1)
             t == NewUnit(r, f)
  <1>1. /\ IsDeclared(f) /\ f.ty \in TypesOf(d)
        /\ f.ty.size \in Nat /\ f.ty.align \in Nat \ {0} /\ f.bits \in Nat
        /\ f.bits <= 8 * f.ty.size
        /\ Len(r.fields) \in Nat /\ Len(r.fields) + 1 \in 1 .. Len(d)
    BY NextField
  <1>2. EndOf(r) \in Nat /\ EndOf(r) >= r.off /\ FreeBit(r) <= 8 * EndOf(r)
    BY EndFact DEF Turn, UnitOfLast
  <1>3. r.off \in Nat /\ r.max \in Nat /\ r.used \in Nat /\ r.unit \in Nat
    BY DEF Turn, Kept
  <1>4. at \in Nat /\ at >= r.off /\ at % f.ty.align = 0 /\ (Follows(r, f) => at >= EndOf(r))
    <2>1. CASE Follows(r, f)
      <3>1. at = RoundUp(EndOf(r), f.ty.align)
        BY <2>1 DEF UnitAt
      <3>2. /\ RoundUp(EndOf(r), f.ty.align) \in Nat
            /\ RoundUp(EndOf(r), f.ty.align) >= EndOf(r)
            /\ RoundUp(EndOf(r), f.ty.align) % f.ty.align = 0
        BY <1>1, <1>2, RoundUpFact
      <3> HIDE DEF at
      <3> QED BY <1>2, <1>3, <3>1, <3>2
    <2>2. CASE ~Follows(r, f)
      <3>1. at = RoundUp(r.off, f.ty.align)
        BY <2>2 DEF UnitAt
      <3>2. /\ RoundUp(r.off, f.ty.align) \in Nat
            /\ RoundUp(r.off, f.ty.align) >= r.off
            /\ RoundUp(r.off, f.ty.align) % f.ty.align = 0
        BY <1>1, <1>3, RoundUpFact
      <3> HIDE DEF at
      <3> QED BY <2>2, <3>1, <3>2
    <2> QED BY <2>1, <2>2
  <1>5. /\ t.fields = Append(r.fields, g) /\ t.off = at /\ t.max = 8 * f.ty.size
        /\ t.used = f.bits /\ t.unit = f.ty.size /\ t.size = r.size /\ t.align = r.align
    BY DEF Turn, NewUnit, Kept
  <1>6. t = [r EXCEPT !.fields = Append(r.fields, g), !.off = at, !.max = 8 * f.ty.size,
                      !.used = f.bits, !.unit = f.ty.size]
    BY DEF Turn, NewUnit, Kept
  <1> HIDE DEF at
  <1>7. /\ g \in PlacedFields(d) /\ g.off = at /\ g.lsb = 1
        /\ g.ty = f.ty /\ g.bits = f.bits
    <2>1. 1 \in Nat
      OBVIOUS
    <2> QED BY <1>1, <1>4, <2>1, PlacedFact
  <1>8. g = Placed(f, g.off, g.lsb)
    BY <1>7
  <1> HIDE DEF g, t
  <1>9. t \in Kept(d)
    <2> DEFINE Q == Seq(PlacedFields(d))
    <2>1. Append(r.fields, g) \in Q
      BY <1>7, AppendProperties DEF Turn, Kept
    <2>2. 8 * f.ty.size \in Nat
      BY <1>1
    <2> HIDE DEF Q
    <2>3. r \in [fields : Q, off : Nat, max : Nat, used : Nat, unit : Nat, size : Nat, align : Nat]
      BY DEF Turn, Kept, Q
    <2>4. t \in [fields : Q, off : Nat, max : Nat, used : Nat, unit : Nat, size : Nat, align : Nat]
      BY <1>1, <1>4, <1>6, <2>1, <2>2, <2>3
    <2> QED BY <2>4 DEF Turn, Kept, Q
  <1>10. InUnit(g)
    BY <1>1, <1>4, <1>7 DEF InUnit
  <1>11. EndOf(t) = at + f.ty.size
    BY <1>1, <1>4, <1>5 DEF EndOf
  <1>12. PutBehind(d, r, f, g, t)
    <2>1. t.used <= t.max /\ t.max = 8 * t.unit /\ t.off % f.ty.align = 0 /\ t.unit = f.ty.size
      BY <1>1, <1>4, <1>5
    <2>2. g.off + f.ty.size <= EndOf(t)
      BY <1>1, <1>4, <1>7, <1>11
    <2> QED BY <1>5, <1>7, <1>8, <1>9, <1>10, <2>1, <2>2 DEF PutBehind
  <1>13. ASSUME SameUnit(d) PROVE Ordered(r, g, t)
    <2>1. FirstBit(g) = 8 * at /\ BeyondBit(g) = 8 * at + f.bits
      BY <1>1, <1>4, <1>7 DEF FirstBit, BeyondBit
    <2>2. FreeBit(t) = 8 * at + f.bits
      BY <1>1, <1>5 DEF FreeBit
    <2>3. FreeBit(r) <= 8 * at
      <3>1. CASE Follows(r, f)
        <4>1. FreeBit(r) \in Int
          BY <1>3 DEF FreeBit
        <4> QED BY <1>2, <1>4, <3>1, <4>1
      <3>2. CASE r.max = 0
        BY <1>3, <1>4, <3>2 DEF FreeBit
      <3>3. CASE r.max # 0 /\ ~Follows(r, f)
        <4> DEFINE k == Len(r.fields)
        <4>1. k \in Nat /\ k > 0 /\ k + 1 \in 2 .. Len(d) /\ (k + 1) - 1 = k
          BY <1>1, <3>3 DEF Turn, UnitOfLast
        <4>2. d[k].bits > 0 /\ r.unit = d[k].ty.size
          BY <3>3 DEF Turn, UnitOfLast
        <4>3. d[k].ty.size = d[k + 1].ty.size
          <5> HIDE DEF k
          <5>1. d[k + 1].bits > 0
            BY DEF k, Turn
          <5> QED BY <1>13, <4>1, <4>2, <5>1 DEF SameUnit
        <4>4. d[k + 1] = f
          BY DEF Turn
        <4> HIDE DEF k
        <4>5. r.unit = f.ty.size
          BY <4>2, <4>3, <4>4
        <4> QED BY <3>3, <4>5 DEF Follows
      <3> QED BY <3>1, <3>2, <3>3
    <2>4. 8 * at + f.bits <= 8 * at + f.bits /\ at <= at /\ r.off <= at
      BY <1>1, <1>3, <1>4
    <2> QED BY <1>5, <1>7, <2>1, <2>2, <2>3, <2>4 DEF Ordered
  <1> QED BY <1>12, <1>13 DEF Put, t

\* How a round starts.
LEMMA StartFact ==
  ASSUME NEW o \in {"struct", "union"}, NEW d, NEW s \in Kept(d), UnitOfLast(d, s)
  PROVE  /\ Start(o, s) \in Kept(d) /\ UnitOfLast(d, Start(o, s))
         /\ Start(o, s).fields = s.fields
         /\ Start(o, s).size = s.size /\ Start(o, s).align = s.align
         /\ o = "struct" => Start(o, s) = s
  <1>1. CASE o = "struct"
    BY <1>1 DEF Start
  <1>2. CASE o = "union"
    <2> DEFINE r == Start(o, s)
               Q == Seq(PlacedFields(d))
    <2>1. r = [s EXCEPT !.max = 0, !.used = 0, !.off = 0]
      BY <1>2 DEF Start
    <2> HIDE DEF r, Q
    <2>2. s \in [fields : Q, off : Nat, max : Nat, used : Nat, unit : Nat, size : Nat, align : Nat]
      BY DEF Kept, Q
    <2>3. /\ r \in [fields : Q, off : Nat, max : Nat, used : Nat, unit : Nat, size : Nat, align : Nat]
          /\ r.fields = s.fields /\ r.size = s.size /\ r.align = s.align /\ r.max = 0
      BY <2>1, <2>2
    <2>4. r \in Kept(d)
      BY <2>3 DEF Kept, Q
    <2>5. UnitOfLast(d, r)
      BY <2>3 DEF UnitOfLast
    <2>6. r = Start(o, s)
      BY DEF r
    <2> QED BY <1>2, <2>3, <2>4, <2>5, <2>6
  <1> QED BY <1>1, <1>2

\* "expand structure"
LEMMA ExpandFact ==
  ASSUME NEW d, NEW t \in Kept(d), NEW f, f.ty.align \in Nat \ {0}, EndOf(t) \in Nat
  PROVE  LET u == Expand(t, f) IN
         /\ u \in Kept(d)
         /\ u.fields = t.fields /\ u.off = t.off /\ u.max = t.max /\ u.used = t.used
         /\ u.unit = t.unit
         /\ u.size >= t.size /\ u.size >= EndOf(t)
         /\ u.align = IF t.align < f.ty.align THEN f.ty.align ELSE t.align
  <1> DEFINE u == Expand(t, f)
             Q == Seq(PlacedFields(d))
             z == IF t.size < EndOf(t) THEN EndOf(t) ELSE t.size
             a == IF t.align < f.ty.align THEN f.ty.align ELSE t.align
  <1>1. t \in [fields : Q, off : Nat, max : Nat, used : Nat, unit : Nat, size : Nat, align : Nat]
    BY DEF Kept
  <1>2. t.size \in Nat /\ t.align \in Nat
    BY DEF Kept
  <1>3. z \in Nat /\ a \in Nat /\ z >= t.size /\ z >= EndOf(t)
    BY <1>2
  <1>4. u = [t EXCEPT !.size = z, !.align = a]
    BY DEF Expand, Kept
  <1>5. a = IF t.align < f.ty.align THEN f.ty.align ELSE t.align
    OBVIOUS
  <1> HIDE DEF u, Q, z, a
  <1>6. /\ u \in [fields : Q, off : Nat, max : Nat, used : Nat, unit : Nat, size : Nat, align : Nat]
        /\ u.fields = t.fields /\ u.off = t.off /\ u.max = t.max /\ u.used = t.used
        /\ u.unit = t.unit /\ u.size = z /\ u.align = a
    BY <1>1, <1>3, <1>4
  <1>7. u \in Kept(d)
    BY <1>6 DEF Kept, Q
  <1>8. u = Expand(t, f)
    BY DEF u
  <1> QED BY <1>3, <1>5, <1>6, <1>7, <1>8

\* A round puts its field behind the others.
LEMMA RoundPut ==
  ASSUME NEW d, NEW r, NEW f, Turn(d, r, f)
  PROVE  Put(d, r, f, IF f.bits = 0 THEN PlacePlain(r, f) ELSE PlaceBits(r, f))
  <1>1. CASE f.bits = 0
    BY <1>1, PlainPut
  <1>2. CASE f.bits # 0
    <2>1. f.bits > 0
      BY <1>2, NextField
    <2>2. CASE ReusesBits(r, f)
      BY <1>2, <2>1, <2>2, ReusePut DEF PlaceBits
    <2>3. CASE ~ReusesBits(r, f)
      BY <1>2, <2>1, <2>3, NewPut DEF PlaceBits
    <2> QED BY <2>2, <2>3
  <1> QED BY <1>1, <1>2

\* What a round leaves: u comes of s by placing f as g.
After(o, d, s, f, g, u) ==
  /\ u \in Kept(d) /\ u.fields = Append(s.fields, g)
  /\ g \in PlacedFields(d) /\ g = Placed(f, g.off, g.lsb) /\ InUnit(g)
  /\ g.off + f.ty.size <= u.size /\ s.size <= u.size
  /\ u.align = IF s.align < f.ty.align THEN f.ty.align ELSE s.align
  /\ u.max # 0 =>
       /\ f.bits > 0 /\ u.unit = f.ty.size /\ u.max = 8 * u.unit
       /\ u.used <= u.max /\ u.off % f.ty.align = 0
  /\ o = "struct" /\ SameUnit(d) => Ordered(s, g, u)

\* A state of the loop with a field to come.
Going(o, d, s, f) ==
  /\ o \in {"struct", "union"} /\ Legal(d) /\ Sound(o, d, s)
  /\ Len(s.fields) < Len(d) /\ f = d[Len(s.fields) + 1]

LEMMA RoundFact ==
  ASSUME NEW o, NEW d, NEW s, NEW f, Going(o, d, s, f)
  PROVE  \E g : After(o, d, s, f, g, PlaceField(o, s, f))
  <1> DEFINE r == Start(o, s)
             t == IF f.bits = 0 THEN PlacePlain(r, f) ELSE PlaceBits(r, f)
             u == PlaceField(o, s, f)
  <1>1. s \in Kept(d) /\ UnitOfLast(d, s) /\ o \in {"struct", "union"}
    BY DEF Going, Sound
  <1>2. /\ r \in Kept(d) /\ UnitOfLast(d, r) /\ r.fields = s.fields
        /\ r.size = s.size /\ r.align = s.align /\ (o = "struct" => r = s)
    BY <1>1, StartFact
  <1> HIDE DEF r
  <1>3. Turn(d, r, f)
    BY <1>2 DEF Turn, Going
  <1>4. Put(d, r, f, t)
    BY <1>3, RoundPut
  <1>5. u = Expand(t, f)
    BY DEF PlaceField, r
  <1> HIDE DEF t, u
  <1>6. PICK g : PutBehind(d, r, f, g, t) /\ (SameUnit(d) => Ordered(r, g, t))
    BY <1>4 DEF Put
  <1>7. f.ty.size \in Nat /\ f.ty.align \in Nat \ {0}
    BY <1>3, NextField
  <1>8. t \in Kept(d) /\ g \in PlacedFields(d)
    BY <1>6 DEF PutBehind
  <1>9. EndOf(t) \in Nat
    <2>1. t.max # 0 => t.max = 8 * t.unit /\ t.used <= t.max
      BY <1>6 DEF PutBehind
    <2> QED BY <1>8, <2>1, EndFact
  <1>10. /\ u \in Kept(d)
         /\ u.fields = t.fields /\ u.off = t.off /\ u.max = t.max /\ u.used = t.used
         /\ u.unit = t.unit /\ u.size >= t.size /\ u.size >= EndOf(t)
         /\ u.align = IF t.align < f.ty.align THEN f.ty.align ELSE t.align
    BY <1>5, <1>7, <1>8, <1>9, ExpandFact
  <1>11. g.off + f.ty.size <= u.size /\ s.size <= u.size
    <2>1. g.off \in Nat /\ u.size \in Nat /\ s.size \in Nat
      BY <1>1, <1>8, <1>10 DEF PlacedFields, Kept
    <2>2. g.off + f.ty.size <= EndOf(t) /\ t.size = s.size
      BY <1>2, <1>6 DEF PutBehind
    <2> QED BY <1>7, <1>9, <1>10, <2>1, <2>2
  <1>12. ASSUME o = "struct", SameUnit(d) PROVE Ordered(s, g, u)
    <2>1. FreeBit(u) = FreeBit(t)
      BY <1>10 DEF FreeBit
    <2> QED BY <1>2, <1>6, <1>10, <1>12, <2>1 DEF Ordered
  <1>13. After(o, d, s, f, g, u)
    BY <1>2, <1>6, <1>10, <1>11, <1>12 DEF PutBehind, After
  <1> QED BY <1>13 DEF u

\* The types of what is placed.
LEMMA PlacedTypes ==
  ASSUME NEW d, Legal(d), NEW s \in Kept(d), AsDeclared(d, s), NEW n \in 1 .. Len(s.fields)
  PROVE  /\ s.fields[n].ty = d[n].ty /\ s.fields[n].bits = d[n].bits
         /\ s.fields[n].off \in Nat /\ s.fields[n].lsb \in Nat
         /\ d[n].ty.size \in Nat /\ d[n].ty.align \in Nat \ {0} /\ d[n].bits \in Nat
         /\ n \in 1 .. Len(d)
  <1>1. s.fields \in Seq(PlacedFields(d)) /\ Len(s.fields) <= Len(d)
    BY DEF Kept, AsDeclared
  <1>2. n \in 1 .. Len(d) /\ s.fields[n] \in PlacedFields(d)
    BY <1>1 DEF Legal
  <1>3. d[n] = Field(d[n].ty, d[n].bits) /\ FieldTypes(d[n])
    BY <1>2 DEF Legal
  <1>4. s.fields[n] = Placed(d[n], s.fields[n].off, s.fields[n].lsb)
    BY DEF AsDeclared
  <1>5. s.fields[n].ty = d[n].ty /\ s.fields[n].bits = d[n].bits
    BY <1>3, <1>4 DEF Placed, Field
  <1>6. s.fields[n].off \in Nat /\ s.fields[n].lsb \in Nat
    BY <1>2 DEF PlacedFields
  <1> QED BY <1>2, <1>3, <1>5, <1>6 DEF FieldTypes

\* Where a placed field begins and ends.
LEMMA BitsFact ==
  ASSUME NEW f, f.off \in Nat, f.lsb \in Nat, f.bits \in Nat, f.ty.size \in Nat
  PROVE  FirstBit(f) \in Int /\ BeyondBit(f) \in Int /\ FirstBit(f) <= BeyondBit(f)
  <1>1. FirstBit(f) \in Int
    BY DEF FirstBit
  <1> QED BY <1>1 DEF BeyondBit

\* A round keeps what holds of the loop.
LEMMA RoundSound ==
  ASSUME NEW o, NEW d, NEW s, NEW f, NEW g, NEW u, Going(o, d, s, f),
         After(o, d, s, f, g, u),
         Len(s.fields) + 1 < Len(d) => f.ty.size > 0
  PROVE  Sound(o, d, u) /\ Len(u.fields) = Len(s.fields) + 1
  <1> DEFINE k == Len(s.fields)
  <1>1. s \in Kept(d) /\ u \in Kept(d) /\ g \in PlacedFields(d)
    BY DEF Going, Sound, After
  <1>2. /\ k \in Nat /\ k < Len(d) /\ Len(d) \in Nat /\ f = d[k + 1]
    BY <1>1 DEF Going, Kept, Legal
  <1>3. /\ Len(u.fields) = k + 1 /\ u.fields[k + 1] = g
        /\ \A n \in 1 .. k : u.fields[n] = s.fields[n]
    <2>1. u.fields = Append(s.fields, g) /\ s.fields \in Seq(PlacedFields(d))
      BY <1>1 DEF After, Kept
    <2> QED BY <1>1, <2>1, AppendProperties
  <1>4. \A n \in 1 .. k + 1 : n = k + 1 \/ n \in 1 .. k
    BY <1>2
  <1>5. /\ g.off \in Nat /\ g.ty = f.ty /\ g.bits = f.bits
        /\ f.ty.size \in Nat /\ f.ty.align \in Nat \ {0} /\ f.bits \in Nat
    <2>1. k + 1 \in 1 .. Len(d)
      BY <1>2
    <2>2. /\ f.ty.size \in Nat /\ f.ty.align \in Nat \ {0} /\ f.bits \in Nat
          /\ f = Field(f.ty, f.bits)
      BY <1>2, <2>1 DEF Going, Legal, FieldTypes
    <2>3. g = Placed(f, g.off, g.lsb)
      BY DEF After
    <2>4. g.ty = f.ty /\ g.bits = f.bits
      BY <2>2, <2>3 DEF Placed, Field
    <2> QED BY <1>1, <2>2, <2>4 DEF PlacedFields
  <1> HIDE DEF k
  <1>6. AsDeclared(d, u)
    <2>1. Len(u.fields) <= Len(d)
      BY <1>2, <1>3
    <2>2. ASSUME NEW n \in 1 .. k + 1
          PROVE  /\ u.fields[n] = Placed(d[n], u.fields[n].off, u.fields[n].lsb)
                 /\ n < Len(d) => d[n].ty.size > 0
      <3>1. CASE n = k + 1
        <4>1. g = Placed(f, g.off, g.lsb)
          BY DEF After
        <4>2. k + 1 < Len(d) => f.ty.size > 0
          BY DEF k
        <4> QED BY <1>2, <1>3, <3>1, <4>1, <4>2
      <3>2. CASE n \in 1 .. k
        <4>1. AsDeclared(d, s)
          BY DEF Going, Sound
        <4> QED BY <1>3, <3>2, <4>1 DEF AsDeclared, k
      <3> QED BY <1>4, <3>1, <3>2
    <2> QED BY <1>3, <2>1, <2>2 DEF AsDeclared
  <1>7. UnitOfLast(d, u)
    <2>1. u.max # 0 =>
            /\ f.bits > 0 /\ u.unit = f.ty.size /\ u.max = 8 * u.unit
            /\ u.used <= u.max /\ u.off % f.ty.align = 0
      BY DEF After
    <2>2. Len(u.fields) > 0
      BY <1>2, <1>3
    <2> QED BY <1>2, <1>3, <2>1, <2>2 DEF UnitOfLast
  <1>8. AllInside(u)
    <2>1. ASSUME NEW n \in 1 .. k + 1
          PROVE  InUnit(u.fields[n]) /\ u.fields[n].off + u.fields[n].ty.size <= u.size
      <3>1. CASE n = k + 1
        BY <1>3, <1>5, <3>1 DEF After
      <3>2. CASE n \in 1 .. k
        <4>1. AllInside(s) /\ s.size <= u.size
          BY DEF Going, Sound, After
        <4>2. InUnit(s.fields[n]) /\ s.fields[n].off + s.fields[n].ty.size <= s.size
          BY <3>2, <4>1 DEF AllInside, k
        <4>3. s.fields[n].off + s.fields[n].ty.size \in Int
          <5>1. Legal(d) /\ AsDeclared(d, s) /\ n \in 1 .. Len(s.fields)
            BY <3>2 DEF Going, Sound, k
          <5>2. /\ s.fields[n].ty = d[n].ty /\ s.fields[n].off \in Nat
                /\ d[n].ty.size \in Nat
            BY <1>1, <5>1, PlacedTypes
          <5> QED BY <5>2
        <4>4. s.size \in Nat /\ u.size \in Nat
          BY <1>1 DEF Kept
        <4>5. s.fields[n].off + s.fields[n].ty.size <= u.size
          BY <4>1, <4>2, <4>3, <4>4
        <4> QED BY <1>3, <3>2, <4>2, <4>5
      <3> QED BY <1>4, <3>1, <3>2
    <2> QED BY <1>3, <2>1 DEF AllInside
  <1>9. AlignOfOne(d, u)
    <2>1. AlignOfOne(d, s) /\ u.align = IF s.align < f.ty.align THEN f.ty.align ELSE s.align
      BY DEF Going, Sound, After
    <2>2. s.align \in Nat
      BY <1>1 DEF Kept
    <2>3. \A n \in 1 .. k + 1 : n \in 1 .. Len(d) /\ d[n].ty.align \in Nat \ {0}
      BY <1>2 DEF Going, Legal, FieldTypes
    <2>4. \A m, n \in 1 .. k + 1 :
            d[m].ty.align <= d[n].ty.align => d[n].ty.align % d[m].ty.align = 0
      BY <2>3 DEF Going, Legal, Agree
    <2>5. k + 1 \in 1 .. k + 1 /\ f.ty.align % f.ty.align = 0
      BY <1>2, <2>3, <2>4
    <2>6. CASE s.align < f.ty.align
      <3>1. u.align = f.ty.align
        BY <2>1, <2>6
      <3>2. ASSUME NEW n \in 1 .. k PROVE u.align % d[n].ty.align = 0
        <4>1. PICK m \in 1 .. k : s.align = d[m].ty.align
          BY <1>2, <2>1 DEF AlignOfOne, k
        <4>2. s.align % d[n].ty.align = 0
          BY <2>1 DEF AlignOfOne, k
        <4>3. m \in 1 .. k + 1 /\ n \in 1 .. k + 1
          BY <1>2
        <4>4. f.ty.align % s.align = 0
          BY <1>2, <1>5, <2>2, <2>4, <2>5, <2>6, <4>1, <4>3
        <4>5. s.align \in Nat \ {0} /\ d[n].ty.align \in Nat \ {0}
          BY <2>3, <4>1, <4>3
        <4> QED BY <1>5, <3>1, <4>2, <4>4, <4>5, MultipleOfMultiple
      <3>3. \A n \in 1 .. k + 1 : u.align % d[n].ty.align = 0
        BY <1>2, <1>4, <2>5, <3>1, <3>2
      <3>4. \E n \in 1 .. k + 1 : u.align = d[n].ty.align
        BY <1>2, <2>5, <3>1
      <3> QED BY <1>2, <1>3, <3>3, <3>4 DEF AlignOfOne
    <2>7. CASE ~(s.align < f.ty.align)
      <3>1. u.align = s.align /\ f.ty.align <= s.align
        BY <1>5, <2>1, <2>2, <2>7
      <3>2. k > 0
        BY <1>2, <1>5, <2>1, <2>2, <3>1 DEF AlignOfOne, k
      <3>3. PICK m \in 1 .. k : s.align = d[m].ty.align
        BY <2>1, <3>2 DEF AlignOfOne, k
      <3>4. m \in 1 .. k + 1
        BY <1>2
      <3>5. s.align % f.ty.align = 0
        BY <1>2, <2>4, <2>5, <3>1, <3>3, <3>4
      <3>6. \A n \in 1 .. k : s.align % d[n].ty.align = 0
        BY <2>1 DEF AlignOfOne, k
      <3>7. \A n \in 1 .. k + 1 : u.align % d[n].ty.align = 0
        BY <1>2, <1>4, <3>1, <3>5, <3>6
      <3>8. \E n \in 1 .. k + 1 : u.align = d[n].ty.align
        BY <3>1, <3>3, <3>4
      <3> QED BY <1>2, <1>3, <3>7, <3>8 DEF AlignOfOne
    <2> QED BY <2>6, <2>7
  <1>10. ASSUME o = "struct", SameUnit(d) PROVE InOrder(u)
    <2>1. InOrder(s) /\ Ordered(s, g, u) /\ Legal(d) /\ AsDeclared(d, s) /\ AsDeclared(d, u)
      BY <1>6, <1>10 DEF Going, Sound, After
    <2>2. /\ s.off \in Nat /\ u.off \in Nat /\ FreeBit(s) \in Int /\ FreeBit(u) \in Int
      <3>1. /\ s.off \in Nat /\ u.off \in Nat /\ s.used \in Nat /\ u.used \in Nat
        BY <1>1 DEF Kept
      <3>2. FreeBit(s) \in Int
        BY <3>1 DEF FreeBit
      <3>3. FreeBit(u) \in Int
        BY <3>1 DEF FreeBit
      <3> QED BY <3>1, <3>2, <3>3
    <2>3. ASSUME NEW n \in 1 .. k + 1
          PROVE  /\ u.fields[n].off \in Nat
                 /\ FirstBit(u.fields[n]) \in Int /\ BeyondBit(u.fields[n]) \in Int
                 /\ FirstBit(u.fields[n]) <= BeyondBit(u.fields[n])
      <3>1. n \in 1 .. Len(u.fields)
        BY <1>3
      <3>2. /\ u.fields[n].ty = d[n].ty /\ u.fields[n].bits = d[n].bits
            /\ u.fields[n].off \in Nat /\ u.fields[n].lsb \in Nat
            /\ d[n].ty.size \in Nat /\ d[n].bits \in Nat
        BY <1>1, <2>1, <3>1, PlacedTypes
      <3> QED BY <3>2, BitsFact
    <2>4. /\ s.off <= g.off /\ g.off <= u.off /\ FreeBit(s) <= FirstBit(g)
          /\ BeyondBit(g) <= FreeBit(u)
      BY <2>1 DEF Ordered
    <2>5. /\ FirstBit(g) \in Int /\ BeyondBit(g) \in Int /\ FirstBit(g) <= BeyondBit(g)
      BY <1>2, <1>3, <2>3
    <2>6. ASSUME NEW n \in 1 .. k
          PROVE  /\ n \in 1 .. k + 1
                 /\ u.fields[n].off <= s.off /\ BeyondBit(u.fields[n]) <= FreeBit(s)
      BY <1>2, <1>3, <2>1 DEF InOrder, k
    <2>7. ASSUME NEW n \in 1 .. k + 1
          PROVE  u.fields[n].off <= u.off /\ BeyondBit(u.fields[n]) <= FreeBit(u)
      <3>1. CASE n = k + 1
        BY <1>3, <2>4, <3>1
      <3>2. CASE n \in 1 .. k
        <4>1. /\ u.fields[n].off \in Nat /\ BeyondBit(u.fields[n]) \in Int
              /\ u.fields[n].off <= s.off /\ BeyondBit(u.fields[n]) <= FreeBit(s)
          BY <2>3, <2>6, <3>2
        <4>2. u.fields[n].off <= u.off
          BY <1>5, <2>2, <2>4, <4>1
        <4>3. BeyondBit(u.fields[n]) <= FreeBit(u)
          BY <2>2, <2>4, <2>5, <4>1
        <4> QED BY <4>2, <4>3
      <3> QED BY <1>4, <3>1, <3>2
    <2>8. ASSUME NEW n \in 1 .. k + 1, NEW m \in 1 .. n - 1
          PROVE  /\ u.fields[m].off <= u.fields[n].off
                 /\ BeyondBit(u.fields[m]) <= FirstBit(u.fields[n])
      <3>1. CASE n = k + 1
        <4>1. m \in 1 .. k
          BY <1>2, <3>1
        <4>2. /\ m \in 1 .. k + 1
              /\ u.fields[m].off <= s.off /\ BeyondBit(u.fields[m]) <= FreeBit(s)
          BY <2>6, <4>1
        <4>3. u.fields[m].off \in Nat /\ BeyondBit(u.fields[m]) \in Int
          BY <2>3, <4>2
        <4>4. u.fields[m].off <= g.off /\ BeyondBit(u.fields[m]) <= FirstBit(g)
          <5>1. u.fields[m].off <= g.off
            BY <1>5, <2>2, <2>4, <4>2, <4>3
          <5>2. BeyondBit(u.fields[m]) <= FirstBit(g)
            BY <2>2, <2>4, <2>5, <4>2, <4>3
          <5> QED BY <5>1, <5>2
        <4> QED BY <1>3, <3>1, <4>4
      <3>2. CASE n \in 1 .. k
        <4>1. m \in 1 .. k
          BY <1>2, <3>2
        <4>2. /\ s.fields[m].off <= s.fields[n].off
              /\ BeyondBit(s.fields[m]) <= FirstBit(s.fields[n])
          BY <2>1, <3>2 DEF InOrder, k
        <4> QED BY <1>3, <3>2, <4>1, <4>2
      <3> QED BY <1>4, <3>1, <3>2
    <2> QED BY <1>3, <2>7, <2>8 DEF InOrder
  <1> QED BY <1>1, <1>3, <1>6, <1>7, <1>8, <1>9, <1>10 DEF Sound, k

-----------------------------------------------------------------------------
(* The specification.                                                      *)

\* Nothing is placed to begin with.
LEMMA InitSound == Init => StructInv
  <1> SUFFICES ASSUME Init PROVE StructInv
    OBVIOUS
  <1>1. Legal(declared) /\ Len(declared) > 0
    BY LegalFact DEF Init
  <1>2. /\ laid.fields = <<>> /\ laid.off = 0 /\ laid.max = 0 /\ laid.used = 0
        /\ laid.unit = 0 /\ laid.size = 0 /\ laid.align = 0
    BY DEF Init, NoFields
  <1>3. laid \in Kept(declared)
    <2> DEFINE Q == Seq(PlacedFields(declared))
    <2>1. <<>> \in Q
      OBVIOUS
    <2> HIDE DEF Q
    <2>2. laid = [fields |-> <<>>, off |-> 0, max |-> 0, used |-> 0, unit |-> 0, size |-> 0, align |-> 0]
      BY DEF Init, NoFields
    <2>3. laid \in [fields : Q, off : Nat, max : Nat, used : Nat, unit : Nat, size : Nat, align : Nat]
      BY <2>1, <2>2
    <2> QED BY <2>3 DEF Kept, Q
  <1>4. Len(laid.fields) = 0 /\ 1 .. Len(laid.fields) = {}
    BY <1>2
  <1>5. AsDeclared(declared, laid) /\ AllInside(laid) /\ InOrder(laid)
    BY <1>1, <1>4 DEF AsDeclared, AllInside, InOrder
  <1>6. UnitOfLast(declared, laid) /\ AlignOfOne(declared, laid)
    BY <1>2, <1>4 DEF UnitOfLast, AlignOfOne
  <1>7. Sound(op, declared, laid)
    BY <1>3, <1>5, <1>6 DEF Sound
  <1> QED BY <1>7 DEF Init, StructInv

\* A round of the loop.
LEMMA PlaceSound == StructInv /\ Place => StructInv'
  <1> SUFFICES ASSUME StructInv, Place PROVE StructInv'
    OBVIOUS
  <1>1. Legal(declared) /\ Sound(op, declared, laid) /\ op \in {"struct", "union"}
    BY LegalFact DEF StructInv
  <1>2. Len(laid.fields) \in Nat /\ Len(declared) \in Nat
    BY <1>1 DEF Sound, Kept, Legal
  <1>3. Going(op, declared, laid, Current)
    BY <1>1, <1>2 DEF Place, Round, Current, Going
  <1>4. laid' = PlaceField(op, laid, Current) /\ SizeDefined
    BY DEF Place
  <1>5. PICK g : After(op, declared, laid, Current, g, laid')
    BY <1>3, <1>4, RoundFact
  <1>6. Len(laid.fields) + 1 < Len(declared) => Current.ty.size > 0
    BY <1>2, <1>4 DEF SizeDefined, Round
  <1>7. Sound(op, declared, laid')
    BY <1>3, <1>5, <1>6, RoundSound
  <1> QED BY <1>7 DEF Place, StructInv

\* Every step.
LEMMA StepSound == StructInv /\ [Next]_vars => StructInv'
  <1> SUFFICES ASSUME StructInv, [Next]_vars PROVE StructInv'
    OBVIOUS
  <1>1. CASE Place
    BY <1>1, PlaceSound
  <1>2. CASE Refuse
    BY <1>2 DEF Refuse, StructInv
  <1>3. CASE Finish
    <2>1. Len(laid.fields) = Len(declared)
      <3>1. Legal(declared) /\ Sound(op, declared, laid)
        BY LegalFact DEF StructInv
      <3>2. Len(laid.fields) \in Nat /\ Len(declared) \in Nat /\ Len(laid.fields) <= Len(declared)
        BY <3>1 DEF Sound, AsDeclared, Kept, Legal
      <3> QED BY <1>3, <3>2 DEF Finish, Round
    <2> QED BY <1>3, <2>1 DEF Finish, StructInv
  <1>4. CASE UNCHANGED vars
    BY <1>4 DEF vars, StructInv
  <1> QED BY <1>1, <1>2, <1>3, <1>4 DEF Next

\* What holds from round to round of the loop at the end of
\* cc_parser_structfields, for any number of fields.
THEOREM StructInductive == Spec => []StructInv
  <1> QED BY InitSound, StepSound, PTL DEF Spec

-----------------------------------------------------------------------------
(* What follows.                                                           *)

\* Facts of a state in which the invariant holds.
LEMMA StateFact ==
  ASSUME StructInv
  PROVE  /\ Legal(declared) /\ Len(declared) > 0 /\ laid \in Kept(declared)
         /\ DOMAIN laid.fields = 1 .. Len(laid.fields) /\ Len(laid.fields) \in Nat
         /\ \A n \in 1 .. Len(laid.fields) :
              /\ laid.fields[n].ty = declared[n].ty /\ laid.fields[n].bits = declared[n].bits
              /\ laid.fields[n].off \in Nat /\ laid.fields[n].lsb \in Nat
              /\ declared[n].ty.size \in Nat /\ declared[n].ty.align \in Nat \ {0}
              /\ declared[n].bits \in Nat /\ n \in 1 .. Len(declared)
  <1>1. /\ Legal(declared) /\ Len(declared) > 0
        /\ laid \in Kept(declared) /\ AsDeclared(declared, laid)
    BY LegalFact DEF StructInv, Sound
  <1>2. DOMAIN laid.fields = 1 .. Len(laid.fields) /\ Len(laid.fields) \in Nat
    BY <1>1 DEF Kept
  <1> QED BY <1>1, <1>2, PlacedTypes

\* What the type is in the end.
LEMMA CompleteFact ==
  ASSUME StructInv, phase = "complete"
  PROVE  /\ sty.fields = laid.fields /\ Len(laid.fields) = Len(declared)
         /\ laid.align \in Nat \ {0} /\ laid.size \in Nat
         /\ sty.size \in Nat /\ sty.size >= laid.size /\ sty.size % laid.align = 0
  <1>1. /\ Len(laid.fields) = Len(declared) /\ sty = Completed(op, laid)
        /\ AlignOfOne(declared, laid)
    BY DEF StructInv, Sound
  <1>2. sty.fields = laid.fields /\ sty.size = RoundUp(laid.size, laid.align)
    BY <1>1 DEF Completed, Type
  <1>3. laid.size \in Nat
    BY StateFact DEF Kept
  <1>4. laid.align \in Nat \ {0}
    <2>1. Len(laid.fields) > 0
      BY <1>1, StateFact
    <2>2. PICK n \in 1 .. Len(laid.fields) : laid.align = declared[n].ty.align
      BY <1>1, <2>1 DEF AlignOfOne
    <2> QED BY <2>2, StateFact
  <1> QED BY <1>1, <1>2, <1>3, <1>4, RoundUpFact

\* Fields are placed as they are declared, and only the last may lack a size
\* (cc_parser_structfields).
THEOREM StructTypeCorrect == Spec => []StructTypeOK
  <1>1. StructInv => StructTypeOK
    <2> SUFFICES ASSUME StructInv PROVE StructTypeOK
      OBVIOUS
    <2>1. AsDeclared(declared, laid)
      BY DEF StructInv, Sound
    <2>2. ASSUME NEW n \in DOMAIN laid.fields
          PROVE  /\ laid.fields[n] = Placed(declared[n], laid.fields[n].off, laid.fields[n].lsb)
                 /\ n < Len(declared) => laid.fields[n].ty.size > 0
      <3>1. n \in 1 .. Len(laid.fields) /\ laid.fields[n].ty = declared[n].ty
        BY StateFact
      <3> QED BY <2>1, <3>1 DEF AsDeclared
    <2>3. phase = "complete" => sty.fields = laid.fields /\ Len(sty.fields) = Len(declared)
      BY CompleteFact
    <2>4. Len(laid.fields) <= Len(declared)
      BY <2>1 DEF AsDeclared
    <2> QED BY <2>2, <2>3, <2>4 DEF StructInv, StructTypeOK
  <1> QED BY <1>1, StructInductive, PTL

\* In an array of the structure or union every field of every element is aligned
\* (the last util_roundup of cc_parser_structfields).
LEMMA AlignedInElements ==
  ASSUME StructInv, phase = "complete", NEW n \in DOMAIN sty.fields
  PROVE  sty.size % sty.fields[n].ty.align = 0
  <1>1. n \in 1 .. Len(laid.fields) /\ sty.fields = laid.fields
    BY CompleteFact, StateFact
  <1>2. laid.align % declared[n].ty.align = 0
    BY <1>1 DEF StructInv, Sound, AlignOfOne
  <1>3. declared[n].ty.align \in Nat \ {0} /\ laid.fields[n].ty = declared[n].ty
    BY <1>1, StateFact
  <1>4. sty.size % declared[n].ty.align = 0
    BY <1>2, <1>3, CompleteFact, MultipleOfMultiple
  <1> QED BY <1>1, <1>3, <1>4

\* Every field is within its structure and a bit-field within a unit of its type;
\* each is aligned, in every element of an array too, whatever the other fields are
\* (cc_parser_structfields).
THEOREM StructFieldsWithin == Spec => []FieldsWithin
  <1>1. StructInv => FieldsWithin
    <2> SUFFICES ASSUME StructInv, phase = "complete", NEW n \in DOMAIN sty.fields
                 PROVE  /\ sty.fields[n].off % sty.fields[n].ty.align = 0
                        /\ Bits(sty.fields[n]) \subseteq
                              8 * sty.fields[n].off
                                .. 8 * (sty.fields[n].off + sty.fields[n].ty.size) - 1
                        /\ sty.fields[n].off + sty.fields[n].ty.size <= sty.size
                        /\ sty.size % sty.fields[n].ty.align = 0
      BY DEF FieldsWithin
    <2> DEFINE f == sty.fields[n]
    <2>1. n \in 1 .. Len(laid.fields) /\ f = laid.fields[n]
      BY CompleteFact, StateFact
    <2>2. /\ f.ty.size \in Nat /\ f.ty.align \in Nat \ {0} /\ f.bits \in Nat
          /\ f.off \in Nat /\ f.lsb \in Nat
      BY <2>1, StateFact
    <2>3. InUnit(f) /\ f.off + f.ty.size <= laid.size
      BY <2>1 DEF StructInv, Sound, AllInside
    <2>7. sty.size % f.ty.align = 0
      BY AlignedInElements
    <2> HIDE DEF f
    <2>4. f.off + f.ty.size <= sty.size
      BY <2>2, <2>3, CompleteFact
    <2>5. /\ FirstBit(f) \in Int /\ BeyondBit(f) \in Int
          /\ FirstBit(f) >= 8 * f.off /\ BeyondBit(f) <= 8 * (f.off + f.ty.size)
      <3>1. CASE f.bits = 0
        BY <2>2, <3>1 DEF FirstBit, BeyondBit
      <3>2. CASE f.bits # 0
        <4>1. f.lsb >= 1 /\ f.lsb - 1 + f.bits <= 8 * f.ty.size
          BY <2>2, <2>3, <3>2 DEF InUnit
        <4>2. FirstBit(f) = 8 * f.off + (f.lsb - 1)
          BY <3>2 DEF FirstBit
        <4>3. BeyondBit(f) = 8 * f.off + (f.lsb - 1) + f.bits
          BY <3>2, <4>2 DEF BeyondBit
        <4> QED BY <2>2, <4>1, <4>2, <4>3
      <3> QED BY <3>1, <3>2
    <2>6. Bits(f) \subseteq 8 * f.off .. 8 * (f.off + f.ty.size) - 1
      BY <2>2, <2>5 DEF Bits
    <2> QED BY <2>3, <2>4, <2>6, <2>7 DEF InUnit, f
  <1> QED BY <1>1, StructInductive, PTL

\* The fields of a structure are in order and share no bit, if bit-fields side by
\* side have units of one size (cc_parser_structfields).
THEOREM StructFieldsApart == Spec => []FieldsApart
  <1>1. StructInv => FieldsApart
    <2> SUFFICES ASSUME StructInv, phase = "complete", op = "struct", OneUnitSize,
                        NEW n \in DOMAIN sty.fields, NEW m \in 1 .. n - 1
                 PROVE  /\ sty.fields[m].off <= sty.fields[n].off
                        /\ Bits(sty.fields[m]) \cap Bits(sty.fields[n]) = {}
      BY DEF FieldsApart
    <2>1. /\ n \in 1 .. Len(laid.fields) /\ m \in 1 .. Len(laid.fields)
          /\ sty.fields = laid.fields
      BY CompleteFact, StateFact
    <2>2. InOrder(laid)
      BY DEF StructInv, Sound, SameUnit, OneUnitSize
    <2>3. /\ laid.fields[m].off <= laid.fields[n].off
          /\ BeyondBit(laid.fields[m]) <= FirstBit(laid.fields[n])
      BY <2>1, <2>2 DEF InOrder
    <2>4. \A i \in 1 .. Len(laid.fields) :
            FirstBit(laid.fields[i]) \in Int /\ BeyondBit(laid.fields[i]) \in Int
      <3> SUFFICES ASSUME NEW i \in 1 .. Len(laid.fields)
                   PROVE  FirstBit(laid.fields[i]) \in Int /\ BeyondBit(laid.fields[i]) \in Int
        OBVIOUS
      <3>1. /\ laid.fields[i].off \in Nat /\ laid.fields[i].lsb \in Nat
            /\ laid.fields[i].bits \in Nat /\ laid.fields[i].ty.size \in Nat
        BY StateFact
      <3> QED BY <3>1, BitsFact
    <2>5. Bits(laid.fields[m]) \cap Bits(laid.fields[n]) = {}
      BY <2>1, <2>3, <2>4 DEF Bits
    <2> QED BY <2>1, <2>3, <2>5
  <1> QED BY <1>1, StructInductive, PTL

\* The assertion of cc_parser_structfields does not fail (parser.c:1725).
THEOREM StructUnitAligned == Spec => []UnitAligned
  <1>1. StructInv => UnitAligned
    <2> SUFFICES ASSUME StructInv, phase = "placing", Round <= Len(declared),
                        Current.bits > 0, Follows(Start(op, laid), Current)
                 PROVE  RoundUp(Start(op, laid).off, Current.ty.align) = Start(op, laid).off
      BY DEF UnitAligned
    <2> DEFINE k == Len(laid.fields)
               r == Start(op, laid)
    <2>1. Legal(declared) /\ k \in Nat /\ Current = declared[k + 1] /\ k + 1 \in 1 .. Len(declared)
      BY StateFact DEF Round, Current, Legal
    <2>2. laid \in Kept(declared) /\ UnitOfLast(declared, laid) /\ op \in {"struct", "union"}
      BY DEF StructInv, Sound
    <2>3. r \in Kept(declared) /\ UnitOfLast(declared, r) /\ r.fields = laid.fields
      BY <2>2, StartFact
    <2> HIDE DEF r
    <2>4. r.max # 0 /\ r.unit \in {0, Current.ty.size}
      BY DEF Follows, r
    <2>5. /\ k > 0 /\ declared[k].bits > 0 /\ r.unit = declared[k].ty.size
          /\ r.max = 8 * r.unit /\ r.off % declared[k].ty.align = 0
      BY <2>3, <2>4 DEF UnitOfLast
    <2>6. r.unit = Current.ty.size
      BY <2>4, <2>5
    <2>7. k \in 1 .. Len(declared)
      BY <2>1, <2>5
    <2>8. declared[k].ty.align = Current.ty.align
      BY <2>1, <2>5, <2>6, <2>7 DEF Legal, Agree
    <2>9. r.off \in Nat /\ Current.ty.align \in Nat \ {0}
      BY <2>1, <2>3 DEF Kept, Legal, FieldTypes
    <2>10. RoundUp(r.off, Current.ty.align) = r.off
      BY <2>5, <2>8, <2>9, RoundUpMultiple
    <2> QED BY <2>10 DEF r
  <1> QED BY <1>1, StructInductive, PTL
=============================================================================
