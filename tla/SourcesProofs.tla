---------------------------- MODULE SourcesProofs -----------------------------
(***************************************************************************)
(* Proofs about Sources: what follows #pragma once is put out once, for    *)
(* files with any rows, and however they include each other.               *)
(***************************************************************************)
EXTENDS Sources, SequenceTheorems, WellFoundedInduction, TLAPS

-----------------------------------------------------------------------------
(* The inductive invariant.  A reading of a file is past #pragma once when *)
(* it has read one that no group can skip, since no #if is above it.       *)

Readings ==
  [file : Files, name : Files \cup {NoName}, line : Nat, next : Nat \ {0}, groups : Seq(BOOLEAN)]
Items ==
  [kind : {"text", "blank", "line"}, place : (Files \cup {NoName}) \X Nat, line : Nat,
   name : Files \cup {NoName}]

Kind(f, k) == contents[f][k].kind

\* No #if is among the first r rows of f.
Flat(f, r) == \A k \in 1 .. r : Kind(f, k) # "if"

\* #pragma once is among the first r rows of f, and every row up to r is read.
OnceBy(f, r) == Flat(f, r) /\ \E k \in 1 .. r : Kind(f, k) = "once"

Past(s) == \E k \in 1 .. s.next - 1 : OnceBy(s.file, k)

\* Above the first #if no group is open.
Ungrouped(st) ==
  \A n \in 1 .. Len(st) : Flat(st[n].file, st[n].next - 1) => st[n].groups = <<>>

\* The file of a reading that is past #pragma once is remembered, and there
\* is one such reading of a file.
Remembered(st, os) ==
  /\ \A n \in 1 .. Len(st) : Past(st[n]) => st[n].file \in os
  /\ \A m \in 1 .. Len(st) : \A n \in 1 .. Len(st) :
       m # n /\ Past(st[m]) /\ Past(st[n]) => st[m].file # st[n].file

\* An item that stands for text below #pragma once.
After(item) == item.kind = "text" /\ OnceBy(item.place[1], item.place[2])

\* Such text was put out by a reading that is left, or is past it.
Passed(out, st, os) ==
  \A m \in 1 .. Len(out) : After(out[m]) =>
    /\ out[m].place[1] \in os
    /\ \A n \in 1 .. Len(st) :
         st[n].file = out[m].place[1] /\ Past(st[n]) => out[m].place[2] < st[n].next

Distinct(out) ==
  \A m \in 1 .. Len(out) : \A n \in 1 .. Len(out) : m # n /\ After(out[n]) => out[m] # out[n]

\* What is said of the open files st, the output out and the files remembered.
Sound(st, out, os) ==
  /\ st \in Seq(Readings)
  /\ out \in Seq(Items)
  /\ Ungrouped(st)
  /\ Remembered(st, os)
  /\ Passed(out, st, os)
  /\ Distinct(out)

SInv ==
  /\ contents \in Programs
  /\ status = "running" => Len(stack) >= 1
  /\ Sound(stack, output, onces)

-----------------------------------------------------------------------------
(* Lemmas about the parts: lines that are put out, and readings that go on, *)
(* begin and are left.                                                     *)

\* The last reading of a stack and those below it.
LEMMA StackFact ==
  ASSUME NEW st \in Seq(Readings), Len(st) >= 1
  PROVE  /\ Last(st) \in Readings /\ Last(st) = st[Len(st)]
         /\ Front(st) \in Seq(Readings) /\ Len(Front(st)) = Len(st) - 1
         /\ \A n \in 1 .. Len(st) - 1 : Front(st)[n] = st[n]
         /\ \A n \in 1 .. Len(st) : st[n] \in Readings
  <1>1. Len(st) \in Nat /\ Len(st) \in 1 .. Len(st)
    OBVIOUS
  <1>2. \A n \in 1 .. Len(st) : st[n] \in Readings
    OBVIOUS
  <1>3. Last(st) = st[Len(st)]
    BY DEF Last
  <1>4. Front(st) \in Seq(Readings) /\ Len(Front(st)) = Len(st) - 1
        /\ \A n \in 1 .. Len(st) - 1 : Front(st)[n] = st[n]
    <2> DEFINE len == Len(st) - 1
               sub == SubSeq(st, 1, len)
    <2>1. len \in Nat /\ \A n \in 1 .. len : st[n] \in Readings
      BY <1>1, <1>2
    <2>2. Front(st) = sub
      BY DEF Front
    <2>3. len = Len(st) - 1
      OBVIOUS
    <2> HIDE DEF len
    <2>4. /\ sub \in Seq(Readings)
          /\ Len(sub) = IF 1 <= len THEN len - 1 + 1 ELSE 0
          /\ \A i \in 1 .. len - 1 + 1 : sub[i] = st[1 + i - 1]
      BY <2>1, SubSeqProperties
    <2> HIDE DEF sub
    <2>5. Len(sub) = len
      BY <2>1, <2>4
    <2>6. ASSUME NEW n \in 1 .. len PROVE sub[n] = st[n]
      <3>1. n \in 1 .. len - 1 + 1 /\ 1 + n - 1 = n
        BY <2>1
      <3> QED BY <2>4, <3>1
    <2> QED BY <2>2, <2>3, <2>4, <2>5, <2>6
  <1> QED BY <1>1, <1>2, <1>3, <1>4

\* The stack with another last reading.
LEMMA ReplacedFact ==
  ASSUME NEW st \in Seq(Readings), Len(st) >= 1, NEW s \in Readings
  PROVE  /\ Append(Front(st), s) \in Seq(Readings)
         /\ Len(Append(Front(st), s)) = Len(st)
         /\ Append(Front(st), s)[Len(st)] = s
         /\ \A n \in 1 .. Len(st) - 1 : Append(Front(st), s)[n] = st[n]
  <1>1. Front(st) \in Seq(Readings) /\ Len(Front(st)) = Len(st) - 1
        /\ \A n \in 1 .. Len(st) - 1 : Front(st)[n] = st[n]
    BY StackFact
  <1>2. Len(st) \in Nat
    OBVIOUS
  <1> QED BY <1>1, <1>2

\* Lines that are no text below #pragma once change nothing.
LEMMA WriteFact ==
  ASSUME NEW st, NEW out, NEW os, Sound(st, out, os),
         NEW lines \in Seq(Items), \A i \in 1 .. Len(lines) : ~After(lines[i])
  PROVE  Sound(st, out \o lines, os)
  <1> DEFINE new == out \o lines
  <1>1. out \in Seq(Items) /\ Passed(out, st, os) /\ Distinct(out)
    BY DEF Sound
  <1>2. /\ new \in Seq(Items) /\ Len(new) = Len(out) + Len(lines)
        /\ Len(out) \in Nat /\ Len(lines) \in Nat
        /\ \A m \in 1 .. Len(out) : new[m] = out[m]
        /\ \A i \in 1 .. Len(lines) : new[Len(out) + i] = lines[i]
    BY <1>1
  <1> HIDE DEF new
  <1>3. \A m \in 1 .. Len(new) : After(new[m]) => m \in 1 .. Len(out)
    <2> TAKE m \in 1 .. Len(new)
    <2> HAVE After(new[m])
    <2>1. CASE m \in Len(out) + 1 .. Len(new)
      <3>1. PICK i \in 1 .. Len(lines) : m = Len(out) + i
        <4>1. m - Len(out) \in 1 .. Len(lines) /\ m = Len(out) + (m - Len(out))
          BY <1>2, <2>1
        <4> QED BY <4>1
      <3>2. new[m] = lines[i]
        BY <1>2, <3>1
      <3> QED BY <3>2
    <2> QED BY <1>2, <2>1
  <1>4. Passed(new, st, os)
    BY <1>1, <1>2, <1>3 DEF Passed
  <1>5. Distinct(new)
    <2> SUFFICES ASSUME NEW m \in 1 .. Len(new), NEW n \in 1 .. Len(new), m # n,
                        After(new[n]), new[m] = new[n]
                 PROVE  FALSE
      BY DEF Distinct
    <2>1. m \in 1 .. Len(out) /\ n \in 1 .. Len(out)
      BY <1>3
    <2> QED BY <1>1, <1>2, <2>1 DEF Distinct
  <1>6. Sound(st, new, os)
    BY <1>2, <1>4, <1>5 DEF Sound
  <1> QED BY <1>6 DEF new

\* A reading goes on by a row, after which its file may be remembered.
LEMMA AdvanceFact ==
  ASSUME NEW st, NEW out, NEW os, Sound(st, out, os), Len(st) >= 1,
         NEW s \in Readings, s.file = Last(st).file, s.next = Last(st).next + 1,
         Flat(s.file, s.next - 1) => s.groups = <<>>,
         NEW os2, os \subseteq os2,
         Past(s) => Past(Last(st)) \/ (s.file \notin os /\ s.file \in os2)
  PROVE  Sound(Append(Front(st), s), out, os2)
  <1> DEFINE new == Append(Front(st), s)
             top == Last(st)
  <1>1. st \in Seq(Readings) /\ Ungrouped(st) /\ Remembered(st, os) /\ Passed(out, st, os)
        /\ Len(st) \in Nat
    BY DEF Sound
  <1>2. top \in Readings /\ top = st[Len(st)]
    BY <1>1, StackFact
  <1>3. new \in Seq(Readings) /\ Len(new) = Len(st) /\ new[Len(st)] = s
        /\ \A n \in 1 .. Len(st) - 1 : new[n] = st[n]
    BY <1>1, ReplacedFact
  <1>4. s.file = top.file /\ s.next = top.next + 1
        /\ (Past(s) => Past(top) \/ (s.file \notin os /\ s.file \in os2))
    OBVIOUS
  <1>5. top.next \in Nat
    BY <1>2 DEF Readings
  <1> HIDE DEF new, top
  <1>6. Ungrouped(new)
    BY <1>1, <1>3 DEF Ungrouped
  <1>7. \A n \in 1 .. Len(st) : new[n].file = st[n].file
    BY <1>2, <1>3, <1>4
  <1>8. \A n \in 1 .. Len(st) : Past(new[n]) =>
          Past(st[n]) \/ (n = Len(st) /\ st[n].file \notin os /\ st[n].file \in os2)
    BY <1>2, <1>3, <1>4
  <1>9. Remembered(new, os2)
    <2>1. \A n \in 1 .. Len(st) : Past(new[n]) => new[n].file \in os2
      BY <1>1, <1>7, <1>8 DEF Remembered
    <2>2. \A m \in 1 .. Len(st) : \A n \in 1 .. Len(st) :
            m # n /\ Past(new[m]) /\ Past(new[n]) => new[m].file # new[n].file
      BY <1>1, <1>7, <1>8 DEF Remembered
    <2> QED BY <1>3, <2>1, <2>2 DEF Remembered
  <1>10. Passed(out, new, os2)
    <2> SUFFICES ASSUME NEW m \in 1 .. Len(out), After(out[m])
                 PROVE  /\ out[m].place[1] \in os2
                        /\ \A n \in 1 .. Len(st) :
                             new[n].file = out[m].place[1] /\ Past(new[n]) =>
                               out[m].place[2] < new[n].next
      BY <1>3 DEF Passed
    <2>1. out[m].place[1] \in os
      BY <1>1 DEF Passed
    <2>2. ASSUME NEW n \in 1 .. Len(st), new[n].file = out[m].place[1], Past(new[n])
          PROVE  out[m].place[2] < new[n].next
      <3>1. Past(st[n]) /\ st[n].file = out[m].place[1]
        BY <1>7, <1>8, <2>1, <2>2
      <3>2. out[m].place[2] < st[n].next
        BY <1>1, <3>1 DEF Passed
      <3>3. CASE n = Len(st)
        <4>1. new[n].next = top.next + 1 /\ st[n].next = top.next
          BY <1>2, <1>3, <1>4, <3>3
        <4>2. out[m] \in Items
          BY DEF Sound
        <4>3. out[m].place[2] \in Nat
          BY <4>2 DEF Items
        <4> QED BY <1>5, <3>2, <4>1, <4>3
      <3>4. CASE n # Len(st)
        BY <1>1, <1>3, <3>2, <3>4
      <3> QED BY <3>3, <3>4
    <2> QED BY <2>1, <2>2
  <1>11. Sound(new, out, os2)
    BY <1>3, <1>6, <1>9, <1>10 DEF Sound
  <1> QED BY <1>11 DEF new

\* A row of text is put out, and its reading goes on.
LEMMA TextFact ==
  ASSUME NEW st, NEW out, NEW os, Sound(st, out, os), Len(st) >= 1,
         NEW s \in Readings, s.file = Last(st).file, s.next = Last(st).next + 1,
         Sound(Append(Front(st), s), out, os),
         Kind(s.file, Last(st).next) # "once"
  PROVE  Sound(Append(Front(st), s), out \o <<Text(<<Last(st).file, Last(st).next>>)>>, os)
  <1> DEFINE new == Append(Front(st), s)
             top == Last(st)
             item == Text(<<top.file, top.next>>)
             more == out \o <<item>>
  <1>1. st \in Seq(Readings) /\ Remembered(st, os) /\ Passed(out, st, os) /\ Len(st) \in Nat
        /\ out \in Seq(Items) /\ Distinct(out)
    BY DEF Sound
  <1>2. top \in Readings /\ top = st[Len(st)]
    BY <1>1, StackFact
  <1>3. Len(new) = Len(st) /\ new[Len(st)] = s
        /\ \A n \in 1 .. Len(st) - 1 : new[n] = st[n]
    BY <1>1, ReplacedFact
  <1>4. top.file \in Files /\ top.next \in Nat \ {0}
    BY <1>2 DEF Readings
  <1>5. item.kind = "text" /\ item.place[1] = top.file /\ item.place[2] = top.next
    BY DEF Text
  <1>6. item \in Items
    BY <1>4 DEF Text, Items
  <1>7. more \in Seq(Items) /\ Len(more) = Len(out) + 1 /\ more[Len(out) + 1] = item
        /\ Len(out) \in Nat
        /\ \A m \in 1 .. Len(out) : more[m] = out[m]
    BY <1>1, <1>6
  <1>8. s.file = top.file /\ s.next = top.next + 1 /\ Kind(top.file, top.next) # "once"
        /\ Sound(new, out, os)
    OBVIOUS
  <1> HIDE DEF new, top, item, more
  <1>9. ASSUME After(item)
        PROVE  Past(top)
    <2>1. OnceBy(top.file, top.next)
      BY <1>5, <1>9 DEF After
    <2>2. PICK k \in 1 .. top.next : Kind(top.file, k) = "once"
      BY <2>1 DEF OnceBy
    <2>3. k \in 1 .. top.next - 1
      BY <1>4, <1>8, <2>2
    <2>4. Flat(top.file, k)
      BY <1>4, <2>1, <2>3 DEF OnceBy, Flat
    <2>5. k \in 1 .. k
      BY <2>3
    <2>6. OnceBy(top.file, k)
      BY <2>2, <2>4, <2>5 DEF OnceBy
    <2> QED BY <2>3, <2>6 DEF Past
  <1>10. ASSUME After(item)
         PROVE  /\ item.place[1] \in os
                /\ \A n \in 1 .. Len(st) :
                     new[n].file = item.place[1] /\ Past(new[n]) => item.place[2] < new[n].next
    <2>1. Past(st[Len(st)]) /\ Len(st) \in 1 .. Len(st)
      BY <1>1, <1>2, <1>9, <1>10
    <2>2. item.place[1] \in os
      BY <1>1, <1>2, <1>5, <2>1 DEF Remembered
    <2>3. ASSUME NEW n \in 1 .. Len(st), new[n].file = item.place[1], Past(new[n])
          PROVE  item.place[2] < new[n].next
      <3>1. CASE n = Len(st)
        BY <1>3, <1>4, <1>5, <1>8, <3>1
      <3>2. CASE n # Len(st)
        <4>1. new[n] = st[n]
          BY <1>1, <1>3, <3>2
        <4>2. st[n].file # st[Len(st)].file
          BY <1>1, <2>1, <2>3, <3>2, <4>1 DEF Remembered
        <4> QED BY <1>2, <1>5, <2>3, <4>1, <4>2
      <3> QED BY <3>1, <3>2
    <2> QED BY <2>2, <2>3
  <1>11. ASSUME NEW m \in 1 .. Len(out), After(item), out[m] = item
         PROVE  FALSE
    <2>1. Past(st[Len(st)]) /\ Len(st) \in 1 .. Len(st)
      BY <1>1, <1>2, <1>9, <1>11
    <2>2. st[Len(st)].file = out[m].place[1] /\ out[m].place[2] = st[Len(st)].next
      BY <1>2, <1>5, <1>11
    <2>3. out[m].place[2] < st[Len(st)].next
      BY <1>1, <1>11, <2>1, <2>2 DEF Passed
    <2> QED BY <1>2, <1>4, <2>2, <2>3
  <1>12. Passed(more, new, os)
    <2>1. Passed(out, new, os)
      BY <1>8 DEF Sound
    <2> QED BY <1>3, <1>7, <1>10, <2>1 DEF Passed
  <1>13. Distinct(more)
    <2> SUFFICES ASSUME NEW m \in 1 .. Len(more), NEW n \in 1 .. Len(more), m # n,
                        After(more[n]), more[m] = more[n]
                 PROVE  FALSE
      BY DEF Distinct
    <2>1. After(more[m])
      OBVIOUS
    <2>2. CASE m \in 1 .. Len(out) /\ n \in 1 .. Len(out)
      BY <1>1, <1>7, <2>2 DEF Distinct
    <2>3. CASE m = Len(out) + 1
      <3>1. n \in 1 .. Len(out)
        BY <1>7, <2>3
      <3> QED BY <1>7, <1>11, <2>1, <2>3, <3>1
    <2>4. CASE n = Len(out) + 1
      <3>1. m \in 1 .. Len(out)
        BY <1>7, <2>4
      <3> QED BY <1>7, <1>11, <2>4, <3>1
    <2> QED BY <1>7, <2>2, <2>3, <2>4
  <1>14. Sound(new, more, os)
    BY <1>7, <1>8, <1>12, <1>13 DEF Sound
  <1> QED BY <1>14 DEF new, more, item, top

\* The last reading is left.
LEMMA PopFact ==
  ASSUME NEW st, NEW out, NEW os, Sound(st, out, os), Len(st) >= 1
  PROVE  Sound(Front(st), out, os)
  <1>1. st \in Seq(Readings) /\ Ungrouped(st) /\ Remembered(st, os) /\ Passed(out, st, os)
        /\ Len(st) \in Nat
    BY DEF Sound
  <1>2. Front(st) \in Seq(Readings) /\ Len(Front(st)) = Len(st) - 1
        /\ \A n \in 1 .. Len(st) - 1 : Front(st)[n] = st[n]
    BY <1>1, StackFact
  <1>3. Ungrouped(Front(st))
    BY <1>1, <1>2 DEF Ungrouped
  <1>4. Remembered(Front(st), os)
    BY <1>1, <1>2 DEF Remembered
  <1>5. Passed(out, Front(st), os)
    BY <1>1, <1>2 DEF Passed
  <1> QED BY <1>2, <1>3, <1>4, <1>5 DEF Sound

\* A file is opened.
LEMMA PushFact ==
  ASSUME NEW st, NEW out, NEW os, Sound(st, out, os), NEW f \in Files
  PROVE  Sound(Append(st, Opened(f)), out, os)
  <1> DEFINE s == Opened(f)
             new == Append(st, s)
  <1>1. st \in Seq(Readings) /\ Ungrouped(st) /\ Remembered(st, os) /\ Passed(out, st, os)
        /\ Len(st) \in Nat
    BY DEF Sound
  <1>2. s \in Readings /\ s.next = 1 /\ s.groups = <<>>
    BY DEF Opened, Readings
  <1> HIDE DEF s
  <1>3. ~Past(s)
    <2>1. 1 .. s.next - 1 = {}
      BY <1>2
    <2> QED BY <2>1 DEF Past
  <1>4. new \in Seq(Readings) /\ Len(new) = Len(st) + 1 /\ new[Len(st) + 1] = s
        /\ \A n \in 1 .. Len(st) : new[n] = st[n]
    BY <1>1, <1>2
  <1> HIDE DEF new
  <1>5. Ungrouped(new)
    BY <1>1, <1>2, <1>4 DEF Ungrouped
  <1>6. \A n \in 1 .. Len(new) : Past(new[n]) => n \in 1 .. Len(st)
    BY <1>1, <1>3, <1>4
  <1>7. Remembered(new, os)
    BY <1>1, <1>4, <1>6 DEF Remembered
  <1>8. Passed(out, new, os)
    BY <1>1, <1>4, <1>6 DEF Passed
  <1>9. Sound(new, out, os)
    BY <1>4, <1>5, <1>7, <1>8 DEF Sound
  <1> QED BY <1>9 DEF new, s

-----------------------------------------------------------------------------
(* Lemmas about the row that is read and the lines put out for it.         *)

LEMMA RowFact ==
  ASSUME SInv, status = "running"
  PROVE  /\ stack \in Seq(Readings) /\ Len(stack) >= 1
         /\ Top \in Readings /\ Top = stack[Len(stack)]
         /\ contents[Top.file] \in Seq(Rows)
         /\ ~AtEnd => Row \in Rows /\ Row.kind = Kind(Top.file, Top.next)
  <1>1. stack \in Seq(Readings) /\ Len(stack) >= 1
    BY DEF SInv, Sound
  <1>2. Top \in Readings /\ Top = stack[Len(stack)]
    BY <1>1, StackFact DEF Top
  <1>3. Top.file \in Files /\ Top.next \in Nat \ {0}
    BY <1>2 DEF Readings
  <1>4. contents \in [Files -> Seq(Rows)]
    BY SourcesAssumption DEF SInv
  <1>5. contents[Top.file] \in Seq(Rows)
    BY <1>3, <1>4
  <1>6. ASSUME ~AtEnd PROVE Row \in Rows /\ Row.kind = Kind(Top.file, Top.next)
    <2>1. Top.next \in 1 .. Len(contents[Top.file])
      BY <1>3, <1>5, <1>6 DEF AtEnd
    <2>2. contents[Top.file][Top.next] \in Rows
      BY <1>5, <2>1
    <2> QED BY <2>2 DEF Row, Kind
  <1> QED BY <1>1, <1>2, <1>5, <1>6

\* The parts of a reading, and of a row.
LEMMA PartsFact ==
  /\ \A s \in Readings :
       /\ s.file \in Files /\ s.name \in Files \cup {NoName} /\ s.line \in Nat
       /\ s.next \in Nat /\ s.next >= 1 /\ s.groups \in Seq(BOOLEAN)
  /\ \A r \in Rows :
       /\ r.lines \in Nat /\ r.lines >= 1 /\ r.file \in Files \cup {NoName}
       /\ r.taken \in BOOLEAN /\ r.number \in Nat
  BY DEF Readings, Rows

LEMMA ReadOnFact ==
  ASSUME SInv, status = "running", ~AtEnd, NEW g \in Seq(BOOLEAN)
  PROVE  /\ ReadOn(g) \in Readings
         /\ ReadOn(g).file = Top.file /\ ReadOn(g).name = Top.name
         /\ ReadOn(g).line = Top.line + Row.lines
         /\ ReadOn(g).next = Top.next + 1 /\ ReadOn(g).groups = g
  <1> DEFINE line == Top.line + Row.lines
             next == Top.next + 1
  <1>1. Top \in Readings /\ Row \in Rows
    BY RowFact
  <1>2. line \in Nat /\ next \in Nat \ {0}
    BY <1>1, PartsFact
  <1>3. ReadOn(g) = [Top EXCEPT !.line = line, !.next = next, !.groups = g]
    BY DEF ReadOn
  <1> HIDE DEF line, next
  <1>4. /\ ReadOn(g) \in Readings
        /\ ReadOn(g).file = Top.file /\ ReadOn(g).name = Top.name
        /\ ReadOn(g).line = line /\ ReadOn(g).next = next /\ ReadOn(g).groups = g
    BY <1>1, <1>2, <1>3 DEF Readings
  <1> QED BY <1>4 DEF line, next

\* Lines that are no text.
Quiet(lines) == lines \in Seq(Items) /\ \A i \in 1 .. Len(lines) : ~After(lines[i])

LEMMA BlanksFact ==
  ASSUME NEW n \in Int
  PROVE  Quiet(Blanks(n)) /\ Len(Blanks(n)) = (IF n <= 0 THEN 0 ELSE n)
  <1>1. Blank \in Items /\ ~After(Blank)
    BY DEF Blank, Items, After
  <1> DEFINE len == IF n <= 0 THEN 0 ELSE n
  <1>2. len \in Nat /\ 1 .. n = 1 .. len
    OBVIOUS
  <1> HIDE DEF len
  <1>3. Blanks(n) = [i \in 1 .. len |-> Blank]
    BY <1>2 DEF Blanks
  <1>4. Blanks(n) \in Seq(Items) /\ Len(Blanks(n)) = len
    BY <1>1, <1>2, <1>3, SeqDef
  <1>5. \A i \in 1 .. Len(Blanks(n)) : Blanks(n)[i] = Blank
    BY <1>3, <1>4
  <1> QED BY <1>1, <1>4, <1>5 DEF Quiet, len

\* A #line directive, and blank lines after it.
LEMMA CtrlFact ==
  ASSUME NEW f \in Files \cup {NoName}, NEW l \in Nat, NEW n \in Int
  PROVE  Quiet(<<LineCtrl(f, l)>>) /\ Quiet(<<LineCtrl(f, l)>> \o Blanks(n))
  <1>1. LineCtrl(f, l) \in Items /\ ~After(LineCtrl(f, l))
    BY DEF LineCtrl, Items, After
  <1> HIDE DEF LineCtrl
  <1>2. Quiet(<<LineCtrl(f, l)>>)
    BY <1>1 DEF Quiet
  <1>3. Blanks(n) \in Seq(Items) /\ \A i \in 1 .. Len(Blanks(n)) : ~After(Blanks(n)[i])
    BY BlanksFact DEF Quiet
  <1> DEFINE c == LineCtrl(f, l)
             b == Blanks(n)
             all == <<c>> \o b
  <1>4. c \in Items /\ ~After(c) /\ b \in Seq(Items) /\ \A i \in 1 .. Len(b) : ~After(b[i])
    BY <1>1, <1>3
  <1> HIDE DEF c, b
  <1>5. /\ all \in Seq(Items)
        /\ Len(all) = 1 + Len(b) /\ Len(b) \in Nat
        /\ all[1] = c
        /\ \A i \in 1 .. Len(b) : all[1 + i] = b[i]
    BY <1>4
  <1> HIDE DEF all
  <1>6. ASSUME NEW m \in 1 .. Len(all) PROVE ~After(all[m])
    <2>1. CASE m = 1
      BY <1>4, <1>5, <2>1
    <2>2. CASE m # 1
      <3>1. m - 1 \in 1 .. Len(b) /\ m = 1 + (m - 1)
        BY <1>5, <2>2
      <3>2. all[m] = b[m - 1]
        BY <1>5, <3>1
      <3> QED BY <1>4, <3>1, <3>2
    <2> QED BY <2>1, <2>2
  <1>7. Quiet(all)
    BY <1>5, <1>6 DEF Quiet
  <1> QED BY <1>2, <1>7 DEF all, c, b

\* A row is read that is not a #pragma once to be obeyed.
LEMMA RowRead ==
  ASSUME SInv, status = "running", ~AtEnd,
         NEW s \in Readings, s.file = Top.file, s.next = Top.next + 1,
         s.groups = Top.groups \/ Row.kind = "if" \/ Top.groups # <<>>,
         Row.kind = "once" => ~Passes
  PROVE  Sound(Append(Front(stack), s), output, onces)
  <1> DEFINE f == Top.file
             r == Top.next
  <1>1. /\ Sound(stack, output, onces) /\ Len(stack) >= 1 /\ Len(stack) \in 1 .. Len(stack)
        /\ Last(stack) = Top /\ Top = stack[Len(stack)]
    BY RowFact DEF SInv, Top
  <1>2. r \in Nat /\ r >= 1 /\ s.next = r + 1 /\ s.file = f /\ Row.kind = Kind(f, r)
    BY RowFact, PartsFact
  <1>3. Flat(f, r - 1) => Top.groups = <<>>
    BY <1>1 DEF Sound, Ungrouped
  <1> HIDE DEF f, r
  <1>4. Flat(f, r) => Flat(f, r - 1) /\ Kind(f, r) # "if"
    BY <1>2 DEF Flat
  <1>5. Flat(f, s.next - 1) => s.groups = <<>>
    <2>1. s.next - 1 = r
      BY <1>2
    <2> QED BY <1>2, <1>3, <1>4, <2>1
  <1>6. Top.groups = <<>> => Passes
    BY DEF Passes
  <1>7. ASSUME Past(s) PROVE Past(Top)
    <2>1. PICK k \in 1 .. r : OnceBy(f, k)
      <3>1. s.next - 1 = r
        BY <1>2
      <3> QED BY <1>2, <1>7, <3>1 DEF Past
    <2>2. CASE k = r
      <3>1. Flat(f, r) /\ \E j \in 1 .. r : Kind(f, j) = "once"
        BY <2>1, <2>2 DEF OnceBy
      <3>2. PICK j \in 1 .. r : Kind(f, j) = "once"
        BY <3>1
      <3>3. j # r
        BY <1>2, <1>3, <1>4, <1>6, <3>1, <3>2
      <3>4. j \in 1 .. r - 1 /\ j \in 1 .. j
        BY <1>2, <3>2, <3>3
      <3>5. Flat(f, j)
        BY <1>2, <3>1, <3>4 DEF Flat
      <3>6. OnceBy(f, j)
        BY <3>2, <3>4, <3>5 DEF OnceBy
      <3> QED BY <3>4, <3>6 DEF Past, f, r
    <2>3. CASE k # r
      <3>1. k \in 1 .. r - 1
        BY <1>2, <2>1, <2>3
      <3> QED BY <2>1, <3>1 DEF Past, f, r
    <2> QED BY <2>2, <2>3
  <1>8. Flat(s.file, s.next - 1) => s.groups = <<>>
    BY <1>2, <1>5
  <1> QED BY <1>1, <1>7, <1>8, AdvanceFact

\* The same, with the lines put out for it.
LEMMA RowQuiet ==
  ASSUME SInv, status = "running", ~AtEnd,
         NEW s \in Readings, s.file = Top.file, s.next = Top.next + 1,
         s.groups = Top.groups \/ Row.kind = "if" \/ Top.groups # <<>>,
         Row.kind = "once" => ~Passes,
         NEW lines, Quiet(lines)
  PROVE  Sound(Append(Front(stack), s), output \o lines, onces)
  <1>1. Sound(Append(Front(stack), s), output, onces)
    BY RowRead
  <1>2. lines \in Seq(Items) /\ \A i \in 1 .. Len(lines) : ~After(lines[i])
    BY DEF Quiet
  <1> QED BY <1>1, <1>2, WriteFact

\* The rows of the files do not change, so that what is said of the readings
\* and of the output with them still says the same.
LEMMA StillSound ==
  ASSUME SInv, contents' = contents, Sound(stack', output', onces'),
         status' = "running" => Len(stack') >= 1
  PROVE  SInv'
  <1>1. Sound(stack, output, onces)'
    BY DEF Sound, Ungrouped, Remembered, Passed, Distinct, After, Past, OnceBy, Flat, Kind
  <1> QED BY <1>1 DEF SInv

\* A reading goes on.
LEMMA GoesOn ==
  ASSUME SInv, status = "running", ~AtEnd,
         NEW g \in Seq(BOOLEAN), g = Top.groups \/ Row.kind = "if" \/ Top.groups # <<>>,
         Row.kind = "once" => ~Passes,
         NEW lines, Quiet(lines), Goes(ReadOn(g), lines)
  PROVE  SInv'
  <1>1. /\ ReadOn(g) \in Readings /\ ReadOn(g).file = Top.file
        /\ ReadOn(g).next = Top.next + 1 /\ ReadOn(g).groups = g
    BY ReadOnFact
  <1>2. Sound(Append(Front(stack), ReadOn(g)), output \o lines, onces)
    BY <1>1, RowQuiet
  <1>3. stack \in Seq(Readings) /\ Len(stack) >= 1
    BY RowFact
  <1>4. Len(Append(Front(stack), ReadOn(g))) = Len(stack)
    BY <1>1, <1>3, ReplacedFact
  <1>5. /\ stack' = Append(Front(stack), ReadOn(g)) /\ output' = output \o lines
        /\ onces' = onces /\ contents' = contents
    BY DEF Goes
  <1>6. Sound(stack', output', onces') /\ Len(stack') >= 1
    BY <1>2, <1>3, <1>4, <1>5
  <1> QED BY <1>5, <1>6, StillSound

LEMMA InitSound ==
  ASSUME Init
  PROVE  SInv
  <1>1. Main \in Files
    BY SourcesAssumption
  <1> DEFINE none == <<>>
             first == LineCtrl(Main, 1)
  <1>2. first \in Items /\ ~After(first)
    BY <1>1 DEF LineCtrl, Items, After
  <1>3. Sound(none, none, {})
    BY DEF Sound, Ungrouped, Remembered, Passed, Distinct
  <1>4. Append(none, Opened(Main)) = <<Opened(Main)>> /\ none \o <<first>> = <<first>>
    BY <1>2
  <1>5. Sound(<<Opened(Main)>>, none, {})
    BY <1>1, <1>3, <1>4, PushFact
  <1>6. <<first>> \in Seq(Items) /\ \A i \in 1 .. Len(<<first>>) : ~After(<<first>>[i])
    BY <1>2
  <1>7. Sound(<<Opened(Main)>>, none \o <<first>>, {})
    BY <1>5, <1>6, WriteFact
  <1>8. Sound(stack, output, onces)
    BY <1>4, <1>7 DEF Init
  <1>9. Len(stack) >= 1 /\ contents \in Programs
    BY DEF Init
  <1> QED BY <1>8, <1>9 DEF SInv

LEMMA TextRowSound ==
  ASSUME SInv, TextRow
  PROVE  SInv'
  <1> DEFINE s == ReadOn(Top.groups)
             text == Text(<<Top.file, Top.next>>)
  <1>1. status = "running" /\ ~AtEnd /\ Row.kind # "once"
    BY DEF TextRow, Reading
  <1>2. Top \in Readings /\ Row \in Rows
    BY <1>1, RowFact
  <1>3. Top.groups \in Seq(BOOLEAN) /\ Row.lines \in Nat
    BY <1>2, PartsFact
  <1>4. CASE ~Passes
    <2>1. Goes(s, Blanks(Row.lines))
      BY <1>4 DEF TextRow
    <2>2. Quiet(Blanks(Row.lines))
      BY <1>3, BlanksFact
    <2> QED BY <1>1, <1>3, <2>1, <2>2, GoesOn
  <1>5. CASE Passes
    <2> DEFINE lines == Blanks(Row.lines - 1)
               st == Append(Front(stack), s)
    <2>1. lines \in Seq(Items) /\ \A i \in 1 .. Len(lines) : ~After(lines[i])
      <3>1. Row.lines - 1 \in Int
        BY <1>3
      <3>2. Quiet(lines)
        BY <3>1, BlanksFact
      <3> HIDE DEF lines
      <3> QED BY <3>2 DEF Quiet
    <2>2. Goes(s, <<text>> \o lines)
      BY <1>5 DEF TextRow
    <2>3. /\ s \in Readings /\ s.file = Top.file
          /\ s.next = Top.next + 1 /\ s.groups = Top.groups
      BY <1>1, <1>3, ReadOnFact
    <2>4. Sound(st, output, onces)
      BY <1>1, <2>3, RowRead
    <2>5. Sound(stack, output, onces) /\ Len(stack) >= 1 /\ Last(stack) = Top
      BY <1>1 DEF SInv, Top
    <2>6. Kind(s.file, Top.next) # "once"
      BY <1>1, <2>3, RowFact
    <2>7. Sound(st, output \o <<text>>, onces)
      BY <2>3, <2>4, <2>5, <2>6, TextFact
    <2>8. Sound(st, (output \o <<text>>) \o lines, onces)
      BY <2>1, <2>7, WriteFact
    <2>9. (output \o <<text>>) \o lines = output \o (<<text>> \o lines)
      <3>1. output \in Seq(Items)
        BY <2>5 DEF Sound
      <3>2. text \in Items
        BY <1>2, PartsFact DEF Text, Items
      <3>3. <<text>> \in Seq(Items)
        BY <3>2
      <3> HIDE DEF text, lines
      <3> QED BY <2>1, <3>1, <3>3, ConcatAssociative
    <2>10. /\ stack' = st /\ output' = output \o (<<text>> \o lines)
           /\ onces' = onces /\ contents' = contents
      BY <2>2 DEF Goes
    <2>11. Sound(stack', output', onces')
      BY <2>8, <2>9, <2>10
    <2>12. Len(stack') >= 1
      <3>1. stack \in Seq(Readings)
        BY <2>5 DEF Sound
      <3>2. Len(st) = Len(stack)
        BY <2>3, <2>5, <3>1, ReplacedFact
      <3> QED BY <2>5, <2>10, <3>2
    <2> QED BY <2>10, <2>11, <2>12, StillSound
  <1> QED BY <1>4, <1>5

LEMMA ControlSound ==
  ASSUME SInv, Control
  PROVE  SInv'
  <1>1. status = "running" /\ ~AtEnd /\ Row.kind # "once"
    BY DEF Control, Reading
  <1>2. Top.groups \in Seq(BOOLEAN) /\ Row.lines \in Nat
    BY <1>1, RowFact, PartsFact
  <1>3. CASE Row.kind = "error" /\ Passes
    <2>1. Refuse
      BY <1>3 DEF Control
    <2> QED BY <2>1, StillSound DEF Refuse, SInv
  <1>4. CASE ~(Row.kind = "error" /\ Passes)
    <2>1. Goes(ReadOn(Top.groups), Blanks(Row.lines))
      BY <1>4 DEF Control
    <2> QED BY <1>1, <1>2, <2>1, BlanksFact, GoesOn
  <1> QED BY <1>3, <1>4

LEMMA IfSound ==
  ASSUME SInv, If
  PROVE  SInv'
  <1>1. status = "running" /\ ~AtEnd /\ Row.kind = "if"
    BY DEF If, Reading
  <1>2. Top.groups \in Seq(BOOLEAN) /\ Row.lines \in Nat /\ Row.taken \in BOOLEAN
    BY <1>1, RowFact, PartsFact
  <1>3. Append(Top.groups, Row.taken) \in Seq(BOOLEAN)
    BY <1>2
  <1>4. Goes(ReadOn(Append(Top.groups, Row.taken)), Blanks(Row.lines))
    BY DEF If
  <1>5. Quiet(Blanks(Row.lines))
    BY <1>2, BlanksFact
  <1> QED BY <1>1, <1>3, <1>4, <1>5, GoesOn

LEMMA EndifSound ==
  ASSUME SInv, Endif
  PROVE  SInv'
  <1>1. status = "running" /\ ~AtEnd /\ Row.kind # "once"
    BY DEF Endif, Reading
  <1>2. Top.groups \in Seq(BOOLEAN) /\ Row.lines \in Nat
    BY <1>1, RowFact, PartsFact
  <1>3. CASE Top.groups = <<>>
    <2>1. Refuse
      BY <1>3 DEF Endif
    <2> QED BY <2>1, StillSound DEF Refuse, SInv
  <1>4. CASE Top.groups # <<>>
    <2>1. Goes(ReadOn(Front(Top.groups)), Blanks(Row.lines))
      BY <1>4 DEF Endif
    <2>2. Front(Top.groups) \in Seq(BOOLEAN)
      BY <1>2, <1>4, SubSeqProperties DEF Front
    <2>3. Quiet(Blanks(Row.lines))
      BY <1>2, BlanksFact
    <2> QED BY <1>1, <1>4, <2>1, <2>2, <2>3, GoesOn
  <1> QED BY <1>3, <1>4

\* A #line directive names the file and numbers the row that follows it.
LEMMA LineRowFact ==
  ASSUME SInv, status = "running", ~AtEnd
  PROVE  LET s == [ReadOn(Top.groups) EXCEPT
                     !.line = Row.number, !.name = IF Row.file = NoName THEN @ ELSE Row.file] IN
         /\ s \in Readings /\ s.file = Top.file
         /\ s.line = Row.number /\ s.name = (IF Row.file = NoName THEN Top.name ELSE Row.file)
         /\ s.next = Top.next + 1 /\ s.groups = Top.groups
  <1> DEFINE on == ReadOn(Top.groups)
             number == Row.number
             name == IF Row.file = NoName THEN on.name ELSE Row.file
             s == [on EXCEPT !.line = number, !.name = name]
  <1>1. Top \in Readings /\ Row \in Rows
    BY RowFact
  <1>2. Top.groups \in Seq(BOOLEAN)
    BY <1>1, PartsFact
  <1>3. /\ on \in Readings /\ on.file = Top.file /\ on.name = Top.name
        /\ on.next = Top.next + 1 /\ on.groups = Top.groups
    BY <1>2, ReadOnFact
  <1>4. number \in Nat /\ name \in Files \cup {NoName}
    BY <1>1, <1>3, PartsFact
  <1>5. [ReadOn(Top.groups) EXCEPT
           !.line = Row.number, !.name = IF Row.file = NoName THEN @ ELSE Row.file] = s
    BY <1>3 DEF Readings
  <1>6. name = IF Row.file = NoName THEN Top.name ELSE Row.file
    BY <1>3
  <1> HIDE DEF on, name
  <1>7. s \in Readings /\ s.file = on.file /\ s.line = number /\ s.name = name
        /\ s.next = on.next /\ s.groups = on.groups
    BY <1>3, <1>4 DEF Readings
  <1> HIDE DEF s
  <1> QED BY <1>3, <1>5, <1>6, <1>7

LEMMA LineSound ==
  ASSUME SInv, Line
  PROVE  SInv'
  <1>1. status = "running" /\ ~AtEnd /\ Row.kind = "line"
    BY DEF Line, Reading
  <1>2. Top \in Readings /\ Row \in Rows
    BY <1>1, RowFact
  <1>3. /\ Top.groups \in Seq(BOOLEAN) /\ Row.lines \in Nat /\ Row.number \in Nat
        /\ Row.file \in Files \cup {NoName} /\ Top.line \in Nat
    BY <1>2, PartsFact
  <1>4. CASE ~Passes
    <2>1. Goes(ReadOn(Top.groups), Blanks(Row.lines))
      BY <1>4 DEF Line
    <2>2. Quiet(Blanks(Row.lines))
      BY <1>3, BlanksFact
    <2> QED BY <1>1, <1>3, <2>1, <2>2, GoesOn
  <1>5. CASE Passes
    <2> DEFINE s == [ReadOn(Top.groups) EXCEPT
                       !.line = Row.number, !.name = IF Row.file = NoName THEN @ ELSE Row.file]
               n == Row.number - Top.line - 1
               lines == <<LineCtrl(Row.file, Row.number)>> \o Blanks(n)
    <2>1. Goes(s, lines)
      BY <1>5 DEF Line
    <2>2. /\ s \in Readings /\ s.file = Top.file
          /\ s.next = Top.next + 1 /\ s.groups = Top.groups
      BY <1>1, LineRowFact
    <2>3. Quiet(lines)
      <3>1. n \in Int
        BY <1>3
      <3> HIDE DEF n
      <3> QED BY <1>3, <3>1, CtrlFact
    <2> HIDE DEF s, lines, n
    <2>4. Sound(Append(Front(stack), s), output \o lines, onces)
      BY <1>1, <2>2, <2>3, RowQuiet
    <2>5. /\ stack' = Append(Front(stack), s) /\ output' = output \o lines
          /\ onces' = onces /\ contents' = contents
      BY <2>1 DEF Goes
    <2>6. Len(stack') >= 1
      BY <1>1, <2>2, <2>5, RowFact, ReplacedFact
    <2> QED BY <2>4, <2>5, <2>6, StillSound
  <1> QED BY <1>4, <1>5

\* A file is left, and the one below goes on.
LEMMA LeaveSound ==
  ASSUME SInv, status = "running", Leave(stack)
  PROVE  SInv'
  <1> DEFINE below == Front(stack)
             back == LineCtrl(Last(below).name, Last(below).line)
  <1>1. stack \in Seq(Readings) /\ Len(stack) >= 1 /\ Sound(stack, output, onces)
    BY RowFact DEF SInv
  <1>2. below \in Seq(Readings) /\ Sound(below, output, onces)
    BY <1>1, StackFact, PopFact
  <1>3. stack' = below /\ onces' = onces /\ contents' = contents
    BY DEF Leave
  <1>4. CASE below = <<>>
    <2>1. output' = output /\ status' = "done"
      BY <1>4 DEF Leave
    <2> QED BY <1>2, <1>3, <2>1, StillSound
  <1>5. CASE below # <<>>
    <2>1. output' = Append(output, back)
      BY <1>5 DEF Leave
    <2> HIDE DEF below
    <2>2. Len(below) >= 1
      BY <1>2, <1>5
    <2>3. Last(below) \in Readings
      BY <1>2, <2>2, StackFact
    <2>4. Last(below).name \in Files \cup {NoName} /\ Last(below).line \in Nat
      BY <2>3, PartsFact
    <2>5. back \in Items /\ ~After(back)
      BY <2>4 DEF LineCtrl, Items, After
    <2>6. output \in Seq(Items)
      BY <1>1 DEF Sound
    <2> HIDE DEF back
    <2>7. <<back>> \in Seq(Items) /\ \A i \in 1 .. Len(<<back>>) : ~After(<<back>>[i])
      BY <2>5
    <2>8. Sound(below, output \o <<back>>, onces)
      BY <1>2, <2>7, WriteFact
    <2>9. output' = output \o <<back>>
      BY <2>1, <2>5, <2>6
    <2>10. Sound(stack', output', onces')
      BY <1>3, <2>8, <2>9
    <2> QED BY <1>3, <2>2, <2>10, StillSound
  <1> QED BY <1>4, <1>5

LEMMA IncludeSound ==
  ASSUME SInv, Include
  PROVE  SInv'
  <1>1. status = "running" /\ ~AtEnd /\ Row.kind = "include"
    BY DEF Include, Reading
  <1>2. Top \in Readings /\ Row \in Rows
    BY <1>1, RowFact
  <1>3. Top.groups \in Seq(BOOLEAN) /\ Row.lines \in Nat /\ Row.file \in Files \cup {NoName}
    BY <1>2, PartsFact
  <1>4. CASE ~Passes
    <2>1. Goes(ReadOn(Top.groups), Blanks(Row.lines))
      BY <1>4 DEF Include
    <2>2. Quiet(Blanks(Row.lines))
      BY <1>3, BlanksFact
    <2> QED BY <1>1, <1>3, <2>1, <2>2, GoesOn
  <1>5. CASE Passes /\ (Row.file = NoName \/ Recursive(Row.file))
    <2>1. Refuse
      BY <1>5 DEF Include
    <2> QED BY <2>1, StillSound DEF Refuse, SInv
  <1>6. CASE Passes /\ ~(Row.file = NoName \/ Recursive(Row.file))
    <2> DEFINE s == ReadOn(Top.groups)
               o == Opened(Row.file)
               st == Append(Front(stack), s)
               lines == IncludeOutput(Row.file)
    <2>1. /\ stack' = Front(stack) \o <<s, o>> /\ output' = output \o lines
          /\ onces' = onces /\ contents' = contents
      BY <1>6 DEF Include
    <2>2. /\ s \in Readings /\ s.file = Top.file
          /\ s.next = Top.next + 1 /\ s.groups = Top.groups
      BY <1>1, <1>3, ReadOnFact
    <2>3. Row.file \in Files
      BY <1>3, <1>6
    <2>4. o \in Readings
      BY <2>3 DEF Opened, Readings
    <2>5. Quiet(lines)
      <3>1. Row.lines - 1 \in Int
        BY <1>3
      <3> QED BY <1>3, <3>1, CtrlFact DEF IncludeOutput
    <2> HIDE DEF lines, s
    <2>6. Sound(st, output \o lines, onces)
      BY <1>1, <2>2, <2>5, RowQuiet
    <2>7. Sound(Append(st, o), output \o lines, onces)
      BY <2>3, <2>6, PushFact
    <2>8. stack \in Seq(Readings) /\ Len(stack) >= 1
      BY <1>1, RowFact
    <2>9. Front(stack) \in Seq(Readings) /\ st \in Seq(Readings) /\ Len(st) = Len(stack)
      BY <2>2, <2>8, StackFact, ReplacedFact
    <2> HIDE DEF o
    <2>10. Append(st, o) = Front(stack) \o <<s, o>>
      BY <2>2, <2>4, <2>9
    <2>11. Len(Append(st, o)) >= 1
      BY <2>4, <2>8, <2>9
    <2>12. Sound(stack', output', onces') /\ Len(stack') >= 1
      BY <2>1, <2>7, <2>10, <2>11
    <2> QED BY <2>1, <2>12, StillSound
  <1> QED BY <1>4, <1>5, <1>6

LEMMA PragmaOnceSound ==
  ASSUME SInv, PragmaOnce
  PROVE  SInv'
  <1>1. status = "running" /\ ~AtEnd /\ Row.kind = "once"
    BY DEF PragmaOnce, Reading
  <1>2. Top \in Readings /\ Row \in Rows
    BY <1>1, RowFact
  <1>3. Top.groups \in Seq(BOOLEAN) /\ Row.lines \in Nat
    BY <1>2, PartsFact
  <1>4. Quiet(Blanks(Row.lines))
    BY <1>3, BlanksFact
  <1>5. CASE ~Passes
    <2>1. Goes(ReadOn(Top.groups), Blanks(Row.lines))
      BY <1>5 DEF PragmaOnce
    <2> QED BY <1>1, <1>3, <1>4, <1>5, <2>1, GoesOn
  <1>6. CASE Passes /\ Top.file \in onces
    <2>1. Leave(stack)
      BY <1>6 DEF PragmaOnce
    <2> QED BY <1>1, <2>1, LeaveSound
  <1>7. CASE Passes /\ Top.file \notin onces
    <2> DEFINE s == ReadOn(Top.groups)
               st == Append(Front(stack), s)
               lines == Blanks(Row.lines)
    <2>1. /\ stack' = st /\ output' = output \o lines
          /\ onces' = onces \cup {Top.file} /\ contents' = contents
      BY <1>7 DEF PragmaOnce, Remembers
    <2>2. /\ s \in Readings /\ s.file = Top.file
          /\ s.next = Top.next + 1 /\ s.groups = Top.groups
      BY <1>1, <1>3, ReadOnFact
    <2> HIDE DEF s
    <2>3. /\ Sound(stack, output, onces) /\ Len(stack) >= 1 /\ Len(stack) \in 1 .. Len(stack)
          /\ Last(stack) = Top /\ Top = stack[Len(stack)]
      BY <1>1, RowFact DEF SInv, Top
    <2>4. Flat(s.file, s.next - 1) => s.groups = <<>>
      <3>1. Flat(Top.file, Top.next - 1) => Top.groups = <<>>
        BY <2>3 DEF Sound, Ungrouped
      <3>2. Top.next \in Nat /\ Top.next >= 1
        BY <1>2, PartsFact
      <3>3. s.next - 1 = Top.next
        BY <2>2, <3>2
      <3>4. Flat(Top.file, Top.next) => Flat(Top.file, Top.next - 1)
        BY <3>2 DEF Flat
      <3> QED BY <2>2, <3>1, <3>3, <3>4
    <2>5. Sound(st, output, onces')
      BY <1>7, <2>1, <2>2, <2>3, <2>4, AdvanceFact
    <2>6. lines \in Seq(Items) /\ \A i \in 1 .. Len(lines) : ~After(lines[i])
      BY <1>4 DEF Quiet
    <2> HIDE DEF lines
    <2>7. Sound(st, output \o lines, onces')
      BY <2>5, <2>6, WriteFact
    <2>8. Len(stack') >= 1
      BY <1>1, <2>1, <2>2, RowFact, ReplacedFact
    <2>9. Sound(stack', output', onces')
      BY <2>1, <2>7
    <2> QED BY <2>1, <2>8, <2>9, StillSound
  <1> QED BY <1>5, <1>6, <1>7

LEMMA EndOfFileSound ==
  ASSUME SInv, EndOfFile
  PROVE  SInv'
  <1>1. status = "running"
    BY DEF EndOfFile, EndRead
  <1>2. CASE Top.groups = <<>>
    <2>1. Leave(stack)
      BY <1>2 DEF EndOfFile
    <2> QED BY <1>1, <2>1, LeaveSound
  <1>3. CASE Top.groups # <<>>
    <2>1. Refuse
      BY <1>3 DEF EndOfFile
    <2> QED BY <2>1, StillSound DEF Refuse, SInv
  <1> QED BY <1>2, <1>3

-----------------------------------------------------------------------------
\* The invariant holds whatever the files contain and include.
THEOREM SourcesInductive == Spec => []SInv
  <1>1. Init => SInv
    BY InitSound
  <1>2. SInv /\ [Next]_vars => SInv'
    <2> SUFFICES ASSUME SInv, [Next]_vars
                 PROVE  SInv'
      OBVIOUS
    <2>1. CASE TextRow
      BY <2>1, TextRowSound
    <2>2. CASE Control
      BY <2>2, ControlSound
    <2>3. CASE If
      BY <2>3, IfSound
    <2>4. CASE Endif
      BY <2>4, EndifSound
    <2>5. CASE Include
      BY <2>5, IncludeSound
    <2>6. CASE PragmaOnce
      BY <2>6, PragmaOnceSound
    <2>7. CASE Line
      BY <2>7, LineSound
    <2>8. CASE EndOfFile
      BY <2>8, EndOfFileSound
    <2>9. CASE UNCHANGED vars
      BY <2>9, StillSound DEF vars, SInv
    <2> QED BY <2>1, <2>2, <2>3, <2>4, <2>5, <2>6, <2>7, <2>8, <2>9 DEF Next
  <1> QED BY <1>1, <1>2, PTL DEF Spec

\* What follows #pragma once in a file is put out once at the most, however
\* often and from wherever it is included (ctrl_pragma_handler): the text that
\* was put out belongs to readings that are past it, of which there is one.
THEOREM PutOutOnce == Spec => []OnceOnly
  <1>1. SInv => OnceOnly
    <2> SUFFICES ASSUME SInv
                 PROVE  OnceOnly
      OBVIOUS
    <2>1. output \in Seq(Items) /\ Distinct(output)
      BY DEF SInv, Sound
    <2>2. DOMAIN output = 1 .. Len(output)
      BY <2>1
    <2> SUFFICES ASSUME NEW m \in 1 .. Len(output), NEW n \in 1 .. Len(output),
                        m # n, output[m] = output[n], output[n].kind = "text",
                        \E k \in 1 .. output[n].place[2] :
                          contents[output[n].place[1]][k].kind = "once",
                        ~\E k \in 1 .. output[n].place[2] :
                          contents[output[n].place[1]][k].kind = "if"
                 PROVE  FALSE
      BY <2>2 DEF OnceOnly
    <2>3. After(output[n])
      BY DEF After, OnceBy, Flat, Kind
    <2> QED BY <2>1, <2>3 DEF Distinct
  <1> QED BY <1>1, SourcesInductive, PTL

-----------------------------------------------------------------------------
(* Line numbers.  The compiler's count at the end of the output is where   *)
(* the file on top goes on, and every reading has counted its file's lines *)
(* as its programmer does.                                                 *)

Counts(f, rows, p, n) ==
  p = [r \in 0 .. n |-> IF r <= 1 THEN [name |-> f, line |-> 1, groups |-> <<>>]
                        ELSE Count(p[r - 1], rows[r - 1])]

\* A set of naturals has a least element.
LEMMA LeastFact ==
  ASSUME NEW S \in SUBSET Nat, S # {}
  PROVE  \E m \in S : \A k \in S : m <= k
  <1>1. PICK m \in S : \A k \in S : <<k, m>> \notin OpToRel(<, Nat)
    BY NatLessThanWellFounded, WFMin
  <1>2. \A k \in S : ~(k < m)
    BY <1>1 DEF OpToRel
  <1> QED BY <1>2

\* Two counts agree on the rows that both reach.
LEMMA CountsAgree ==
  ASSUME NEW f, NEW rows, NEW p, NEW q, NEW m \in Nat, NEW n \in Nat,
         Counts(f, rows, p, m), Counts(f, rows, q, n)
  PROVE  \A r \in Nat : r <= m /\ r <= n => p[r] = q[r]
  <1> DEFINE Bad == {r \in Nat : r <= m /\ r <= n /\ p[r] # q[r]}
  <1> SUFFICES ASSUME Bad # {} PROVE FALSE
    OBVIOUS
  <1>1. PICK b \in Bad : \A r \in Bad : b <= r
    BY LeastFact
  <1>2. b \in Nat /\ b <= m /\ b <= n /\ p[b] # q[b]
    BY <1>1
  <1>3. CASE b <= 1
    <2>1. p[b] = [name |-> f, line |-> 1, groups |-> <<>>]
      BY <1>2, <1>3 DEF Counts
    <2>2. q[b] = [name |-> f, line |-> 1, groups |-> <<>>]
      BY <1>2, <1>3 DEF Counts
    <2> QED BY <1>2, <2>1, <2>2
  <1>4. CASE ~(b <= 1)
    <2>1. b - 1 \in Nat /\ b - 1 <= m /\ b - 1 <= n /\ ~(b <= b - 1)
      BY <1>2, <1>4
    <2>2. p[b - 1] = q[b - 1]
      BY <1>1, <2>1
    <2>3. p[b] = Count(p[b - 1], rows[b - 1])
      BY <1>2, <1>4 DEF Counts
    <2>4. q[b] = Count(q[b - 1], rows[b - 1])
      BY <1>2, <1>4 DEF Counts
    <2> QED BY <1>2, <2>2, <2>3, <2>4
  <1> QED BY <1>3, <1>4

\* The rows can be counted as far as one likes.
LEMMA CountsExist ==
  ASSUME NEW f, NEW rows
  PROVE  \A n \in Nat : \E p : Counts(f, rows, p, n)
  <1> DEFINE Bad == {n \in Nat : ~\E p : Counts(f, rows, p, n)}
             start == [name |-> f, line |-> 1, groups |-> <<>>]
  <1> SUFFICES ASSUME Bad # {} PROVE FALSE
    OBVIOUS
  <1>1. PICK b \in Bad : \A r \in Bad : b <= r
    BY LeastFact
  <1>2. b \in Nat /\ ~\E p : Counts(f, rows, p, b)
    BY <1>1
  <1>3. CASE b = 0
    <2>1. Counts(f, rows, [r \in 0 .. 0 |-> start], 0)
      <3>1. \A r \in 0 .. 0 : r <= 1
        OBVIOUS
      <3> QED BY <3>1 DEF Counts
    <2> QED BY <1>2, <1>3, <2>1
  <1>4. CASE b # 0
    <2>1. b - 1 \in Nat /\ ~(b <= b - 1)
      BY <1>2, <1>4
    <2>2. PICK p : Counts(f, rows, p, b - 1)
      BY <1>1, <2>1
    <2> DEFINE q == [r \in 0 .. b |-> IF r <= b - 1 THEN p[r]
                                      ELSE IF r <= 1 THEN start ELSE Count(p[r - 1], rows[r - 1])]
    <2>3. ASSUME NEW r \in 0 .. b
          PROVE  q[r] = IF r <= 1 THEN start ELSE Count(q[r - 1], rows[r - 1])
      <3>1. CASE r <= 1
        <4>1. r <= b - 1 => p[r] = start
          BY <2>1, <2>2, <3>1 DEF Counts
        <4> QED BY <3>1, <4>1
      <3>2. CASE ~(r <= 1)
        <4>1. r - 1 \in 0 .. b /\ r - 1 <= b - 1
          BY <1>2, <3>2
        <4>2. q[r - 1] = p[r - 1]
          BY <4>1
        <4>3. r <= b - 1 => p[r] = Count(p[r - 1], rows[r - 1])
          BY <2>1, <2>2, <3>2 DEF Counts
        <4>4. q[r] = Count(p[r - 1], rows[r - 1])
          BY <3>2, <4>3
        <4> QED BY <3>2, <4>2, <4>4
      <3> QED BY <3>1, <3>2
    <2>4. q = [r \in 0 .. b |-> q[r]]
      OBVIOUS
    <2> HIDE DEF q
    <2>5. Counts(f, rows, q, b)
      BY <2>3, <2>4 DEF Counts
    <2> QED BY <1>2, <2>5
  <1> QED BY <1>3, <1>4

\* Counted counts the rows one by one.
LEMMA CountedFact ==
  ASSUME NEW f, NEW rows
  PROVE  /\ Counted(f, rows)[1] = [name |-> f, line |-> 1, groups |-> <<>>]
         /\ \A r \in Nat \ {0} : Counted(f, rows)[r + 1] = Count(Counted(f, rows)[r], rows[r])
  <1> DEFINE start == [name |-> f, line |-> 1, groups |-> <<>>]
             IsCount(c) == c = [r \in Nat |-> IF r <= 1 THEN start ELSE Count(c[r - 1], rows[r - 1])]
             Upto(n) == CHOOSE p : Counts(f, rows, p, n)
             all == [n \in Nat |-> Upto(n)[n]]
  <1>1. Counted(f, rows) = CHOOSE c : IsCount(c)
    BY DEF Counted
  <1>2. \A n \in Nat : Counts(f, rows, Upto(n), n)
    BY CountsExist
  <1> HIDE DEF Upto
  <1>3. \A n \in Nat : all[n] = Upto(n)[n]
    OBVIOUS
  <1>4. ASSUME NEW n \in Nat
        PROVE  all[n] = IF n <= 1 THEN start ELSE Count(all[n - 1], rows[n - 1])
    <2>1. Upto(n)[n] = IF n <= 1 THEN start ELSE Count(Upto(n)[n - 1], rows[n - 1])
      BY <1>2 DEF Counts
    <2>2. CASE ~(n <= 1)
      <3>1. n - 1 \in Nat /\ n - 1 <= n /\ n - 1 <= n - 1
        BY <2>2
      <3>2. Counts(f, rows, Upto(n), n) /\ Counts(f, rows, Upto(n - 1), n - 1)
        BY <1>2, <3>1
      <3>3. Upto(n)[n - 1] = Upto(n - 1)[n - 1]
        BY <3>1, <3>2, CountsAgree
      <3> QED BY <1>3, <2>1, <2>2, <3>1, <3>3
    <2>3. CASE n <= 1
      BY <1>3, <2>1, <2>3
    <2> QED BY <2>2, <2>3
  <1>5. all = [n \in Nat |-> all[n]]
    OBVIOUS
  <1> HIDE DEF all
  <1>6. IsCount(all)
    BY <1>4, <1>5
  <1> HIDE DEF IsCount
  <1>7. IsCount(CHOOSE c : IsCount(c))
    BY <1>6
  <1>8. IsCount(Counted(f, rows))
    BY <1>1, <1>7
  <1>9. \A n \in Nat : Counted(f, rows)[n] =
          IF n <= 1 THEN start ELSE Count(Counted(f, rows)[n - 1], rows[n - 1])
    BY <1>8 DEF IsCount
  <1>10. Counted(f, rows)[1] = start
    BY <1>9
  <1>11. ASSUME NEW r \in Nat \ {0}
         PROVE  Counted(f, rows)[r + 1] = Count(Counted(f, rows)[r], rows[r])
    <2>1. r + 1 \in Nat /\ ~(r + 1 <= 1) /\ (r + 1) - 1 = r
      OBVIOUS
    <2> QED BY <1>9, <2>1
  <1> QED BY <1>10, <1>11

-----------------------------------------------------------------------------
\* The row is counted as the code counts it: its #if groups are not skipped.
Obeyed(f, r) == FALSE \notin Range(Counted(f, contents[f])[r].groups)

\* An #include that is obeyed is on one line, and #line gives a name and a
\* number that is not above the next line's.
LinesTame ==
  \A f \in Files : \A r \in 1 .. Len(contents[f]) : Obeyed(f, r) =>
    LET row == contents[f][r] IN
    /\ row.kind = "include" => row.lines = 1
    /\ row.kind = "line" =>
         row.file # NoName /\ row.number <= Counted(f, contents[f])[r].line + 1

\* What the code knows of a reading's place is what its rows count to.
Matches(s) ==
  Counted(s.file, contents[s.file])[s.next] =
    [name |-> s.name, line |-> s.line, groups |-> s.groups]

\* The last #line directive above line n makes it this line of this file.
CountsTo(out, n, name, line) ==
  \E j \in 1 .. n - 1 :
    /\ out[j].kind = "line"
    /\ \A i \in j + 1 .. n - 1 : out[i].kind # "line"
    /\ name = out[j].name
    /\ line = out[j].line + (n - 1 - j)

Agree(out) ==
  \A n \in 1 .. Len(out) : out[n].kind = "text" =>
    LET at == Counted(out[n].place[1], contents[out[n].place[1]])[out[n].place[2]] IN
    CountsTo(out, n, at.name, at.line)

AInv ==
  /\ LinesTame
  /\ \A n \in 1 .. Len(stack) : Matches(stack[n])
  /\ status = "running" => CountsTo(output, Len(output) + 1, Last(stack).name, Last(stack).line)
  /\ Agree(output)

LEMMA ItemsFact == \A item \in Items : item.line \in Nat
  BY DEF Items

\* The greatest of the #line directives above a line.
LEMMA SeenFact ==
  ASSUME output \in Seq(Items), NEW n \in 1 .. Len(output), NEW name, NEW line,
         CountsTo(output, n, name, line)
  PROVE  Seen(n) = <<name, line>>
  <1> DEFINE S == {m \in 1 .. n - 1 : output[m].kind = "line"}
  <1>1. PICK j \in 1 .. n - 1 :
          /\ output[j].kind = "line"
          /\ \A i \in j + 1 .. n - 1 : output[i].kind # "line"
          /\ name = output[j].name
          /\ line = output[j].line + (n - 1 - j)
    BY DEF CountsTo
  <1>2. n \in Nat /\ j \in S
    BY <1>1
  <1>3. \A m \in S : m <= j
    <2> TAKE m \in S
    <2>1. m \in Nat /\ m <= n - 1 /\ j \in Nat /\ output[m].kind = "line"
      BY <1>2
    <2>2. ~(m \in j + 1 .. n - 1)
      BY <1>1, <2>1
    <2> QED BY <1>2, <2>1, <2>2
  <1>4. S \subseteq Int
    BY <1>2
  <1> HIDE DEF S
  <1>5. Max(S) = j
    <2>1. \A x \in S : (\A y \in S : x >= y) => x = j
      BY <1>2, <1>3, <1>4
    <2>2. \A y \in S : j >= y
      BY <1>2, <1>3, <1>4
    <2> QED BY <1>2, <2>1, <2>2 DEF Max
  <1>6. Seen(n) = <<output[Max(S)].name, output[Max(S)].line + (n - 1 - Max(S))>>
    BY DEF Seen, S
  <1> QED BY <1>1, <1>5, <1>6

\* Lines that are put out later change no line's count.
LEMMA CountsKept ==
  ASSUME NEW out \in Seq(Items), NEW lines \in Seq(Items), NEW n \in 1 .. Len(out) + 1,
         NEW name, NEW line, CountsTo(out, n, name, line)
  PROVE  CountsTo(out \o lines, n, name, line)
  <1> DEFINE new == out \o lines
  <1>1. \A m \in 1 .. Len(out) : new[m] = out[m]
    OBVIOUS
  <1>2. Len(out) \in Nat
    OBVIOUS
  <1> HIDE DEF new
  <1>3. PICK j \in 1 .. n - 1 :
          /\ out[j].kind = "line"
          /\ \A i \in j + 1 .. n - 1 : out[i].kind # "line"
          /\ name = out[j].name
          /\ line = out[j].line + (n - 1 - j)
    BY DEF CountsTo
  <1>4. j \in 1 .. Len(out) /\ \A i \in j + 1 .. n - 1 : i \in 1 .. Len(out)
    BY <1>2, <1>3
  <1>5. CountsTo(new, n, name, line)
    BY <1>1, <1>3, <1>4 DEF CountsTo
  <1> QED BY <1>5 DEF new

\* Lines that are no #line directives are counted.
LEMMA CountsOn ==
  ASSUME NEW out \in Seq(Items), NEW lines \in Seq(Items), NEW name, NEW line \in Nat,
         CountsTo(out, Len(out) + 1, name, line),
         \A i \in 1 .. Len(lines) : lines[i].kind # "line"
  PROVE  CountsTo(out \o lines, Len(out \o lines) + 1, name, line + Len(lines))
  <1> DEFINE new == out \o lines
  <1>1. /\ Len(new) = Len(out) + Len(lines) /\ Len(out) \in Nat /\ Len(lines) \in Nat
        /\ \A m \in 1 .. Len(out) : new[m] = out[m]
        /\ \A i \in 1 .. Len(lines) : new[Len(out) + i] = lines[i]
    OBVIOUS
  <1> HIDE DEF new
  <1>2. PICK j \in 1 .. Len(out) + 1 - 1 :
          /\ out[j].kind = "line"
          /\ \A i \in j + 1 .. Len(out) + 1 - 1 : out[i].kind # "line"
          /\ name = out[j].name
          /\ line = out[j].line + (Len(out) + 1 - 1 - j)
    BY SMTT(30) DEF CountsTo
  <1>3. j \in 1 .. Len(out) /\ j \in 1 .. Len(new) + 1 - 1 /\ new[j] = out[j]
    BY <1>1, <1>2
  <1>4. out[j].line \in Nat
    <2>1. out[j] \in Items
      BY <1>3
    <2> QED BY <2>1, ItemsFact
  <1>5. line + Len(lines) = out[j].line + (Len(new) + 1 - 1 - j)
    <2> DEFINE a == Len(out)
               b == Len(lines)
               l == out[j].line
    <2>1. a \in Nat /\ b \in Nat /\ l \in Nat /\ j \in Int /\ Len(new) = a + b
      BY <1>1, <1>3, <1>4
    <2>2. line = l + (a + 1 - 1 - j)
      BY <1>2
    <2> HIDE DEF a, b, l
    <2>3. line + b = l + ((a + b) + 1 - 1 - j)
      BY <2>1, <2>2
    <2>4. line + b = l + (Len(new) + 1 - 1 - j)
      BY <2>1, <2>3
    <2> QED BY <2>4 DEF b, l
  <1>6. ASSUME NEW i \in j + 1 .. Len(new) + 1 - 1 PROVE new[i].kind # "line"
    <2>1. CASE i <= Len(out)
      <3>1. i \in j + 1 .. Len(out) + 1 - 1 /\ i \in 1 .. Len(out)
        BY <1>1, <1>3, <2>1
      <3> QED BY <1>1, <1>2, <3>1
    <2>2. CASE ~(i <= Len(out))
      <3>1. i - Len(out) \in 1 .. Len(lines) /\ i = Len(out) + (i - Len(out))
        BY <1>1, <1>3, <2>2
      <3>2. new[i] = lines[i - Len(out)]
        BY <1>1, <3>1
      <3> QED BY <3>1, <3>2
    <2> QED BY <2>1, <2>2
  <1>7. CountsTo(new, Len(new) + 1, name, line + Len(lines))
    <2> DEFINE last == Len(new) + 1 - 1
               total == line + Len(lines)
    <2>1. j \in 1 .. last /\ new[j].kind = "line" /\ name = new[j].name
      BY <1>2, <1>3
    <2>2. total = new[j].line + (last - j)
      BY <1>3, <1>5
    <2>3. \A i \in j + 1 .. last : new[i].kind # "line"
      BY <1>6
    <2> HIDE DEF last, total
    <2>4. \E m \in 1 .. last :
            /\ new[m].kind = "line"
            /\ \A i \in m + 1 .. last : new[i].kind # "line"
            /\ name = new[m].name
            /\ total = new[m].line + (last - m)
      BY <2>1, <2>2, <2>3
    <2> QED BY <2>4 DEF CountsTo, last, total
  <1> QED BY <1>7 DEF new

\* A #line directive at the end says what the next line is.
LEMMA CountsCtrl ==
  ASSUME NEW out \in Seq(Items), NEW f \in Files \cup {NoName}, NEW l \in Nat
  PROVE  LET new == out \o <<LineCtrl(f, l)>> IN CountsTo(new, Len(new) + 1, f, l)
  <1> DEFINE c == LineCtrl(f, l)
             new == out \o <<c>>
  <1>1. c \in Items /\ c.kind = "line" /\ c.name = f /\ c.line = l
    BY DEF LineCtrl, Items
  <1> HIDE DEF c
  <1>2. Len(new) = Len(out) + 1 /\ new[Len(out) + 1] = c /\ Len(out) \in Nat
    BY <1>1
  <1> HIDE DEF new
  <1> DEFINE j == Len(new)
  <1>3. j \in 1 .. Len(new) + 1 - 1 /\ j + 1 .. Len(new) + 1 - 1 = {} /\ new[j] = c
    BY <1>2
  <1>4. l = l + (Len(new) + 1 - 1 - j)
    BY <1>2
  <1> HIDE DEF j
  <1>5. CountsTo(new, Len(new) + 1, f, l)
    BY <1>1, <1>3, <1>4 DEF CountsTo
  <1> QED BY <1>5 DEF new, c

\* Lines without text, and text whose place is what the output counts to.
LEMMA AgreeMore ==
  ASSUME NEW out \in Seq(Items), NEW lines \in Seq(Items), Agree(out),
         \A i \in 1 .. Len(lines) : lines[i].kind = "text" =>
           /\ i = 1
           /\ LET at == Counted(lines[i].place[1], contents[lines[i].place[1]])[lines[i].place[2]] IN
              CountsTo(out, Len(out) + 1, at.name, at.line)
  PROVE  Agree(out \o lines)
  <1> DEFINE new == out \o lines
             At(item) == Counted(item.place[1], contents[item.place[1]])[item.place[2]]
  <1>1. /\ Len(new) = Len(out) + Len(lines) /\ Len(out) \in Nat /\ Len(lines) \in Nat
        /\ \A m \in 1 .. Len(out) : new[m] = out[m]
        /\ \A i \in 1 .. Len(lines) : new[Len(out) + i] = lines[i]
    OBVIOUS
  <1>2. ASSUME NEW n \in 1 .. Len(out) + 1, NEW name, NEW line, CountsTo(out, n, name, line)
        PROVE  CountsTo(new, n, name, line)
    BY <1>2, CountsKept
  <1> HIDE DEF new
  <1>3. ASSUME NEW n \in 1 .. Len(new), new[n].kind = "text"
        PROVE  CountsTo(new, n, At(new[n]).name, At(new[n]).line)
    <2>1. CASE n <= Len(out)
      <3>1. n \in 1 .. Len(out) /\ n \in 1 .. Len(out) + 1 /\ new[n] = out[n]
        BY <1>1, <2>1
      <3>2. CountsTo(out, n, At(out[n]).name, At(out[n]).line)
        BY <1>3, <3>1 DEF Agree
      <3> QED BY <1>2, <3>1, <3>2
    <2>2. CASE ~(n <= Len(out))
      <3>1. n - Len(out) \in 1 .. Len(lines) /\ n = Len(out) + (n - Len(out))
        BY <1>1, <2>2
      <3>2. new[n] = lines[n - Len(out)]
        BY <1>1, <3>1
      <3>3. n - Len(out) = 1
        BY <1>3, <3>1, <3>2
      <3>4. n = Len(out) + 1 /\ n \in 1 .. Len(out) + 1
        BY <1>1, <3>1, <3>3
      <3>5. CountsTo(out, Len(out) + 1, At(new[n]).name, At(new[n]).line)
        BY <1>3, <3>1, <3>2
      <3> QED BY <1>2, <3>4, <3>5
    <2> QED BY <2>1, <2>2
  <1>4. Agree(new)
    BY <1>3 DEF Agree
  <1> QED BY <1>4 DEF new

LEMMA BlankKinds ==
  ASSUME NEW n \in Int
  PROVE  \A i \in 1 .. Len(Blanks(n)) : Blanks(n)[i].kind = "blank"
  <1> DEFINE len == IF n <= 0 THEN 0 ELSE n
  <1>1. len \in Nat /\ 1 .. n = 1 .. len /\ Len(Blanks(n)) = len
    BY BlanksFact
  <1> HIDE DEF len
  <1>2. Blanks(n) = [i \in 1 .. len |-> Blank]
    BY <1>1 DEF Blanks
  <1>3. \A i \in 1 .. Len(Blanks(n)) : Blanks(n)[i] = Blank
    BY <1>1, <1>2
  <1> QED BY <1>3 DEF Blank

\* The compiler's and the programmer's place of the row that is read.
LEMMA HereFact ==
  ASSUME SInv, AInv, status = "running"
  PROVE  LET at == Counted(Top.file, contents[Top.file])[Top.next] IN
         /\ at = [name |-> Top.name, line |-> Top.line, groups |-> Top.groups]
         /\ at.name = Top.name /\ at.line = Top.line /\ at.groups = Top.groups
         /\ CountsTo(output, Len(output) + 1, Top.name, Top.line)
         /\ Passes <=> FALSE \notin Range(Top.groups)
         /\ Passes <=> Obeyed(Top.file, Top.next)
  <1> DEFINE at == Counted(Top.file, contents[Top.file])[Top.next]
  <1>1. /\ stack \in Seq(Readings) /\ Len(stack) \in 1 .. Len(stack)
        /\ Top = stack[Len(stack)] /\ Top \in Readings
    BY RowFact
  <1>2. at = [name |-> Top.name, line |-> Top.line, groups |-> Top.groups]
    BY <1>1 DEF AInv, Matches
  <1>3. at.name = Top.name /\ at.line = Top.line /\ at.groups = Top.groups
    BY <1>2
  <1>4. CountsTo(output, Len(output) + 1, Top.name, Top.line)
    BY DEF AInv, Top
  <1>5. Passes <=> FALSE \notin Range(Top.groups)
    <2>1. Top.groups \in Seq(BOOLEAN)
      BY <1>1, PartsFact
    <2>2. \A n \in DOMAIN Top.groups : Top.groups[n] \in BOOLEAN
      BY <2>1
    <2>3. \A n \in DOMAIN Top.groups : Top.groups[n] <=> Top.groups[n] # FALSE
      BY <2>2, Zenon
    <2>4. Passes <=> \A n \in DOMAIN Top.groups : Top.groups[n] # FALSE
      BY <2>3, Zenon DEF Passes
    <2> QED BY <2>4, Zenon DEF Range
  <1>6. Passes <=> Obeyed(Top.file, Top.next)
    BY <1>3, <1>5, Zenon DEF Obeyed
  <1> HIDE DEF at
  <1>7. /\ at = [name |-> Top.name, line |-> Top.line, groups |-> Top.groups]
        /\ at.name = Top.name /\ at.line = Top.line /\ at.groups = Top.groups
        /\ CountsTo(output, Len(output) + 1, Top.name, Top.line)
        /\ Passes <=> FALSE \notin Range(Top.groups)
        /\ Passes <=> Obeyed(Top.file, Top.next)
    BY <1>2, <1>3, <1>4, <1>5, <1>6, Zenon
  <1> QED BY <1>7 DEF at

\* What the row that is read adds to the count.
LEMMA CountRow ==
  ASSUME SInv, AInv, status = "running", ~AtEnd, NEW s \in Readings, s.file = Top.file,
         s.next = Top.next + 1,
         Count([name |-> Top.name, line |-> Top.line, groups |-> Top.groups], Row) =
           [name |-> s.name, line |-> s.line, groups |-> s.groups]
  PROVE  Matches(s)
  <1>1. Top.next \in Nat \ {0}
    BY RowFact, PartsFact
  <1> DEFINE c == Counted(Top.file, contents[Top.file])
  <1>2. c[Top.next + 1] = Count(c[Top.next], contents[Top.file][Top.next])
    <2>1. \A r \in Nat \ {0} : c[r + 1] = Count(c[r], contents[Top.file][r])
      <3>1. \A f, rows : \A r \in Nat \ {0} :
              Counted(f, rows)[r + 1] = Count(Counted(f, rows)[r], rows[r])
        BY CountedFact
      <3> QED BY <3>1
    <2> HIDE DEF c
    <2> QED BY <1>1, <2>1
  <1>3. c[Top.next] = [name |-> Top.name, line |-> Top.line, groups |-> Top.groups]
    BY HereFact
  <1>4. contents[Top.file][Top.next] = Row
    BY DEF Row
  <1> QED BY <1>2, <1>3, <1>4 DEF Matches

\* The groups that are open after a row that is no #line to be obeyed.
Regrouped(g) ==
  \/ Row.kind = "if" /\ g = Append(Top.groups, Row.taken)
  \/ Row.kind = "endif" /\ g = Front(Top.groups)
  \/ Row.kind \notin {"if", "endif"} /\ (Row.kind = "line" => ~Passes) /\ g = Top.groups

LEMMA ReadOnMatches ==
  ASSUME SInv, AInv, status = "running", ~AtEnd, NEW g \in Seq(BOOLEAN), Regrouped(g)
  PROVE  Matches(ReadOn(g))
  <1> DEFINE here == [name |-> Top.name, line |-> Top.line, groups |-> Top.groups]
             there == [name |-> Top.name, line |-> Top.line + Row.lines, groups |-> g]
  <1>1. /\ ReadOn(g) \in Readings
        /\ ReadOn(g).file = Top.file /\ ReadOn(g).name = Top.name
        /\ ReadOn(g).line = Top.line + Row.lines
        /\ ReadOn(g).next = Top.next + 1 /\ ReadOn(g).groups = g
    BY ReadOnFact
  <1>2. Passes <=> FALSE \notin Range(Top.groups)
    BY HereFact
  <1>3. Count(here, Row) = there
    <2>1. CASE Row.kind = "if" /\ g = Append(Top.groups, Row.taken)
      BY <2>1 DEF Count
    <2>2. CASE Row.kind = "endif" /\ g = Front(Top.groups)
      BY <2>2 DEF Count
    <2>3. CASE Row.kind \notin {"if", "endif"} /\ (Row.kind = "line" => ~Passes) /\ g = Top.groups
      <3>1. here.groups = Top.groups
        OBVIOUS
      <3>2. ~(Row.kind = "line" /\ FALSE \notin Range(here.groups))
        BY <1>2, <2>3, <3>1
      <3>3. Count(here, Row) = [here EXCEPT !.line = @ + Row.lines]
        BY <2>3, <3>2 DEF Count
      <3> QED BY <2>3, <3>3
    <2> QED BY <2>1, <2>2, <2>3 DEF Regrouped
  <1> QED BY <1>1, <1>3, CountRow

\* What is said of readings, output and rows is said of the next state's.
LEMMA StillAgree ==
  ASSUME AInv, contents' = contents, \A n \in 1 .. Len(stack') : Matches(stack'[n]),
         status' = "running" =>
           CountsTo(output', Len(output') + 1, Last(stack').name, Last(stack').line),
         Agree(output')
  PROVE  AInv'
  <1>1. LinesTame'
    BY DEF AInv, LinesTame, Obeyed
  <1>2. (\A n \in 1 .. Len(stack) : Matches(stack[n]))'
    BY DEF Matches
  <1>3. Agree(output)'
    BY DEF Agree
  <1>4. (status = "running" =>
           CountsTo(output, Len(output) + 1, Last(stack).name, Last(stack).line))'
    BY DEF CountsTo, Last
  <1> QED BY <1>1, <1>2, <1>3, <1>4 DEF AInv

\* A reading goes on, and the lines that are put out count to where it is.
LEMMA RowAgrees ==
  ASSUME SInv, AInv, status = "running", contents' = contents,
         NEW s \in Readings, Matches(s), stack' = Append(Front(stack), s),
         NEW lines, output' = output \o lines, Agree(output \o lines),
         CountsTo(output \o lines, Len(output \o lines) + 1, s.name, s.line)
  PROVE  AInv'
  <1>1. stack \in Seq(Readings) /\ Len(stack) >= 1 /\ Len(stack) \in Nat
    BY RowFact
  <1>2. /\ Append(Front(stack), s) \in Seq(Readings)
        /\ Len(Append(Front(stack), s)) = Len(stack)
        /\ Append(Front(stack), s)[Len(stack)] = s
        /\ \A n \in 1 .. Len(stack) - 1 : Append(Front(stack), s)[n] = stack[n]
    BY <1>1, ReplacedFact
  <1>3. \A n \in 1 .. Len(stack) : Matches(stack[n])
    BY DEF AInv
  <1>4. \A n \in 1 .. Len(stack') : Matches(stack'[n])
    <2>1. \A n \in 1 .. Len(stack) : n = Len(stack) \/ n \in 1 .. Len(stack) - 1
      BY <1>1
    <2> QED BY <1>2, <1>3, <2>1
  <1>5. Last(stack') = s
    BY <1>2 DEF Last
  <1> QED BY <1>4, <1>5, StillAgree

\* The same, by the row's own number of lines, of which the first may be text.
LEMMA GoesAgrees ==
  ASSUME SInv, AInv, status = "running", ~AtEnd, contents' = contents,
         NEW g \in Seq(BOOLEAN), Regrouped(g), stack' = Append(Front(stack), ReadOn(g)),
         NEW lines \in Seq(Items), Len(lines) = Row.lines, output' = output \o lines,
         \A i \in 1 .. Len(lines) :
           \/ lines[i].kind = "blank"
           \/ i = 1 /\ lines[i].kind = "text" /\ lines[i].place = <<Top.file, Top.next>>
  PROVE  AInv'
  <1>1. /\ ReadOn(g) \in Readings /\ ReadOn(g).name = Top.name
        /\ ReadOn(g).line = Top.line + Row.lines
    BY ReadOnFact
  <1>2. Matches(ReadOn(g))
    BY ReadOnMatches
  <1>3. Top.line \in Nat
    BY RowFact, PartsFact
  <1>4. output \in Seq(Items) /\ Agree(output)
    BY DEF SInv, Sound, AInv
  <1>5. CountsTo(output, Len(output) + 1, Top.name, Top.line)
    BY HereFact
  <1>6. \A i \in 1 .. Len(lines) : lines[i].kind # "line"
    OBVIOUS
  <1>7. CountsTo(output \o lines, Len(output \o lines) + 1, Top.name, Top.line + Row.lines)
    BY <1>3, <1>4, <1>5, <1>6, CountsOn
  <1>8. ASSUME NEW i \in 1 .. Len(lines), lines[i].kind = "text"
        PROVE  /\ i = 1
               /\ LET at == Counted(lines[i].place[1], contents[lines[i].place[1]])[lines[i].place[2]]
                  IN CountsTo(output, Len(output) + 1, at.name, at.line)
    <2>1. i = 1 /\ lines[i].place = <<Top.file, Top.next>>
      BY <1>8
    <2>2. lines[i].place[1] = Top.file /\ lines[i].place[2] = Top.next
      BY <2>1
    <2>3. LET at == Counted(Top.file, contents[Top.file])[Top.next] IN
          CountsTo(output, Len(output) + 1, at.name, at.line)
      BY <1>5, HereFact
    <2> QED BY <2>1, <2>2, <2>3
  <1>9. Agree(output \o lines)
    BY <1>4, <1>8, AgreeMore
  <1> QED BY <1>1, <1>2, <1>7, <1>9, RowAgrees

\* The same, with blank lines only.
LEMMA BlanksAgree ==
  ASSUME SInv, AInv, status = "running", ~AtEnd,
         NEW g \in Seq(BOOLEAN), Regrouped(g), stack' = Append(Front(stack), ReadOn(g)),
         output' = output \o Blanks(Row.lines), contents' = contents
  PROVE  AInv'
  <1> DEFINE lines == Blanks(Row.lines)
  <1>1. Row.lines \in Nat /\ Row.lines >= 1 /\ Row.lines \in Int
    BY RowFact, PartsFact
  <1>2. lines \in Seq(Items) /\ Len(lines) = Row.lines
    BY <1>1, BlanksFact DEF Quiet
  <1>3. \A i \in 1 .. Len(lines) : lines[i].kind = "blank"
    BY <1>1, BlankKinds
  <1>4. output' = output \o lines
    OBVIOUS
  <1> HIDE DEF lines
  <1> QED BY <1>2, <1>3, <1>4, GoesAgrees

LEMMA RefuseAgrees ==
  ASSUME AInv, Refuse
  PROVE  AInv'
  BY StillAgree DEF Refuse, AInv

LEMMA TextRowAgrees ==
  ASSUME SInv, AInv, TextRow
  PROVE  AInv'
  <1>1. status = "running" /\ ~AtEnd /\ Row.kind \in {"text", "pragma"}
    BY DEF TextRow, Reading
  <1>2. Top.groups \in Seq(BOOLEAN) /\ Row.lines \in Nat /\ Row.lines >= 1
    BY <1>1, RowFact, PartsFact
  <1>3. Regrouped(Top.groups)
    BY <1>1 DEF Regrouped
  <1>4. CASE ~Passes
    <2>1. Goes(ReadOn(Top.groups), Blanks(Row.lines))
      BY <1>4 DEF TextRow
    <2> QED BY <1>1, <1>2, <1>3, <2>1, BlanksAgree DEF Goes
  <1>5. CASE Passes
    <2> DEFINE text == Text(<<Top.file, Top.next>>)
               n == Row.lines - 1
               more == Blanks(n)
               lines == <<text>> \o more
    <2>1. Goes(ReadOn(Top.groups), lines)
      BY <1>5 DEF TextRow
    <2>2. text \in Items /\ text.kind = "text" /\ text.place = <<Top.file, Top.next>>
      BY <1>1, RowFact, PartsFact DEF Text, Items
    <2>3. n \in Nat /\ Row.lines = 1 + n
      BY <1>2
    <2> HIDE DEF n, text
    <2>4. more \in Seq(Items) /\ Len(more) = n /\ \A i \in 1 .. Len(more) : more[i].kind = "blank"
      BY <2>3, BlanksFact, BlankKinds DEF Quiet
    <2> HIDE DEF more
    <2>5. /\ lines \in Seq(Items) /\ Len(lines) = 1 + n /\ lines[1] = text
          /\ \A i \in 1 .. Len(more) : lines[1 + i] = more[i]
      BY <2>2, <2>3, <2>4
    <2> HIDE DEF lines
    <2>6. ASSUME NEW i \in 1 .. Len(lines)
          PROVE  \/ lines[i].kind = "blank"
                 \/ i = 1 /\ lines[i].kind = "text" /\ lines[i].place = <<Top.file, Top.next>>
      <3>1. CASE i = 1
        BY <2>2, <2>5, <3>1
      <3>2. CASE i # 1
        <4>1. i - 1 \in 1 .. Len(more) /\ i = 1 + (i - 1)
          BY <2>3, <2>4, <2>5, <3>2
        <4>2. lines[i] = more[i - 1]
          BY <2>5, <4>1
        <4> QED BY <2>4, <4>1, <4>2
      <3> QED BY <3>1, <3>2
    <2>7. Len(lines) = Row.lines
      BY <2>3, <2>5
    <2> QED BY <1>1, <1>2, <1>3, <2>1, <2>5, <2>6, <2>7, GoesAgrees DEF Goes
  <1> QED BY <1>4, <1>5

LEMMA ControlAgrees ==
  ASSUME SInv, AInv, Control
  PROVE  AInv'
  <1>1. status = "running" /\ ~AtEnd /\ Row.kind \in {"control", "error"}
    BY DEF Control, Reading
  <1>2. Top.groups \in Seq(BOOLEAN) /\ Regrouped(Top.groups)
    BY <1>1, RowFact, PartsFact DEF Regrouped
  <1>3. CASE Row.kind = "error" /\ Passes
    BY <1>3, RefuseAgrees DEF Control
  <1>4. CASE ~(Row.kind = "error" /\ Passes)
    <2>1. Goes(ReadOn(Top.groups), Blanks(Row.lines))
      BY <1>4 DEF Control
    <2> QED BY <1>1, <1>2, <2>1, BlanksAgree DEF Goes
  <1> QED BY <1>3, <1>4

LEMMA IfAgrees ==
  ASSUME SInv, AInv, If
  PROVE  AInv'
  <1>1. status = "running" /\ ~AtEnd /\ Row.kind = "if"
    BY DEF If, Reading
  <1> DEFINE g == Append(Top.groups, Row.taken)
  <1>2. Top.groups \in Seq(BOOLEAN) /\ Row.taken \in BOOLEAN
    BY <1>1, RowFact, PartsFact
  <1>3. g \in Seq(BOOLEAN) /\ Regrouped(g)
    BY <1>1, <1>2 DEF Regrouped
  <1>4. Goes(ReadOn(g), Blanks(Row.lines))
    BY DEF If
  <1> HIDE DEF g
  <1> QED BY <1>1, <1>3, <1>4, BlanksAgree DEF Goes

LEMMA EndifAgrees ==
  ASSUME SInv, AInv, Endif
  PROVE  AInv'
  <1>1. status = "running" /\ ~AtEnd /\ Row.kind = "endif"
    BY DEF Endif, Reading
  <1>2. Top.groups \in Seq(BOOLEAN)
    BY <1>1, RowFact, PartsFact
  <1>3. CASE Top.groups = <<>>
    BY <1>3, RefuseAgrees DEF Endif
  <1>4. CASE Top.groups # <<>>
    <2> DEFINE g == Front(Top.groups)
    <2>1. g \in Seq(BOOLEAN) /\ Regrouped(g)
      BY <1>1, <1>2, <1>4, SubSeqProperties DEF Front, Regrouped
    <2>2. Goes(ReadOn(g), Blanks(Row.lines))
      BY <1>4 DEF Endif
    <2> HIDE DEF g
    <2> QED BY <1>1, <2>1, <2>2, BlanksAgree DEF Goes
  <1> QED BY <1>3, <1>4

LEMMA LeaveAgrees ==
  ASSUME SInv, AInv, status = "running", Leave(stack)
  PROVE  AInv'
  <1> DEFINE below == Front(stack)
  <1>1. /\ stack \in Seq(Readings) /\ Len(stack) >= 1 /\ Len(stack) \in Nat
        /\ output \in Seq(Items) /\ Agree(output)
        /\ \A n \in 1 .. Len(stack) : Matches(stack[n])
    BY RowFact DEF SInv, Sound, AInv
  <1>2. /\ below \in Seq(Readings) /\ Len(below) = Len(stack) - 1
        /\ \A n \in 1 .. Len(stack) - 1 : below[n] = stack[n]
    BY <1>1, StackFact
  <1>3. stack' = below /\ contents' = contents
    BY DEF Leave
  <1>4. \A n \in 1 .. Len(below) : Matches(below[n])
    <2>1. \A n \in 1 .. Len(stack) - 1 : n \in 1 .. Len(stack)
      BY <1>1
    <2> QED BY <1>1, <1>2, <2>1
  <1>5. CASE below = <<>>
    <2>1. output' = output /\ status' = "done"
      BY <1>5 DEF Leave
    <2> QED BY <1>1, <1>3, <1>4, <2>1, StillAgree
  <1>6. CASE below # <<>>
    <2> DEFINE name == Last(below).name
               line == Last(below).line
               more == output \o <<LineCtrl(name, line)>>
    <2>1. output' = Append(output, LineCtrl(name, line))
      BY <1>6 DEF Leave
    <2> HIDE DEF below
    <2>2. Last(below) \in Readings
      BY <1>2, <1>6, StackFact
    <2>3. name \in Files \cup {NoName} /\ line \in Nat
      BY <2>2, PartsFact
    <2> HIDE DEF name, line
    <2> DEFINE c == LineCtrl(name, line)
    <2>4. c \in Items /\ c.kind = "line"
      BY <2>3 DEF LineCtrl, Items
    <2>5. CountsTo(more, Len(more) + 1, name, line)
      BY <1>1, <2>3, CountsCtrl
    <2> HIDE DEF c
    <2>6. Append(output, c) = output \o <<c>> /\ <<c>> \in Seq(Items)
          /\ \A i \in 1 .. Len(<<c>>) : <<c>>[i].kind # "text"
      BY <1>1, <2>4
    <2>7. Agree(output \o <<c>>)
      BY <1>1, <2>6, AgreeMore
    <2>8. output' = more /\ Agree(more)
      BY <2>1, <2>6, <2>7 DEF c
    <2> HIDE DEF more
    <2>9. CountsTo(output', Len(output') + 1, Last(stack').name, Last(stack').line)
      BY <1>3, <2>5, <2>8 DEF name, line
    <2> QED BY <1>3, <1>4, <2>8, <2>9, StillAgree
  <1> QED BY <1>5, <1>6

LEMMA IncludeAgrees ==
  ASSUME SInv, AInv, Include
  PROVE  AInv'
  <1>1. status = "running" /\ ~AtEnd /\ Row.kind = "include"
    BY DEF Include, Reading
  <1>2. /\ Top.groups \in Seq(BOOLEAN) /\ Regrouped(Top.groups)
        /\ Row.file \in Files \cup {NoName} /\ Top.file \in Files /\ Top.next \in Nat \ {0}
        /\ contents[Top.file] \in Seq(Rows)
    BY <1>1, RowFact, PartsFact DEF Regrouped
  <1>3. CASE ~Passes
    <2>1. Goes(ReadOn(Top.groups), Blanks(Row.lines))
      BY <1>3 DEF Include
    <2> QED BY <1>1, <1>2, <2>1, BlanksAgree DEF Goes
  <1>4. CASE Passes /\ (Row.file = NoName \/ Recursive(Row.file))
    BY <1>4, RefuseAgrees DEF Include
  <1>5. CASE Passes /\ ~(Row.file = NoName \/ Recursive(Row.file))
    <2> DEFINE f == Row.file
               s == ReadOn(Top.groups)
               o == Opened(f)
               c == LineCtrl(f, 1)
               st == Front(stack) \o <<s, o>>
    <2>1. stack' = st /\ output' = output \o (<<c>> \o Blanks(Row.lines - 1)) /\ contents' = contents
      BY <1>5 DEF Include, IncludeOutput
    <2>2. Row.lines = 1
      <3>1. Top.next \in 1 .. Len(contents[Top.file])
        BY <1>1, <1>2 DEF AtEnd
      <3>2. Obeyed(Top.file, Top.next)
        BY <1>1, <1>5, HereFact
      <3> QED BY <1>1, <1>2, <3>1, <3>2 DEF AInv, LinesTame, Row
    <2>3. f \in Files
      BY <1>2, <1>5
    <2>4. c \in Items /\ c.kind = "line" /\ c.name = f /\ c.line = 1
      BY <2>3 DEF LineCtrl, Items
    <2>5. <<c>> \o Blanks(Row.lines - 1) = <<c>>
      <3> DEFINE n == Row.lines - 1
      <3>1. n \in Int /\ n <= 0
        BY <2>2
      <3> HIDE DEF n
      <3>2. Blanks(n) \in Seq(Items) /\ Len(Blanks(n)) = 0
        BY <3>1, BlanksFact DEF Quiet
      <3> HIDE DEF c
      <3>3. <<c>> \o Blanks(n) = <<c>>
        BY <2>4, <3>2
      <3> QED BY <3>3 DEF n
    <2>6. output \in Seq(Items) /\ Agree(output)
      BY DEF SInv, Sound, AInv
    <2>7. CountsTo(output \o <<c>>, Len(output \o <<c>>) + 1, f, 1)
      BY <2>3, <2>6, CountsCtrl
    <2>8. Agree(output \o <<c>>)
      <3> HIDE DEF c
      <3>1. <<c>> \in Seq(Items) /\ \A i \in 1 .. Len(<<c>>) : <<c>>[i].kind # "text"
        BY <2>4
      <3> QED BY <2>6, <3>1, AgreeMore
    <2>9. s \in Readings /\ Matches(s)
      BY <1>1, <1>2, ReadOnFact, ReadOnMatches
    <2>10. o \in Readings /\ o.file = f /\ o.name = f /\ o.line = 1 /\ o.next = 1 /\ o.groups = <<>>
      BY <2>3 DEF Opened, Readings
    <2>11. Matches(o)
      BY <2>10, CountedFact DEF Matches
    <2>12. /\ stack \in Seq(Readings) /\ Len(stack) >= 1 /\ Len(stack) \in Nat
           /\ \A n \in 1 .. Len(stack) : Matches(stack[n])
      BY <1>1, RowFact DEF AInv
    <2>13. /\ Front(stack) \in Seq(Readings) /\ Len(Front(stack)) = Len(stack) - 1
           /\ \A n \in 1 .. Len(stack) - 1 : Front(stack)[n] = stack[n]
      BY <2>12, StackFact
    <2> HIDE DEF s, o, c
    <2>14. /\ Len(st) = Len(stack) + 1 /\ st[Len(stack)] = s /\ st[Len(stack) + 1] = o
           /\ \A n \in 1 .. Len(stack) - 1 : st[n] = stack[n]
      BY <2>9, <2>10, <2>12, <2>13
    <2> HIDE DEF st
    <2>15. \A n \in 1 .. Len(st) : Matches(st[n])
      <3> TAKE n \in 1 .. Len(st)
      <3>1. n = Len(stack) \/ n = Len(stack) + 1 \/ (n \in 1 .. Len(stack) - 1 /\ n \in 1 .. Len(stack))
        BY <2>12, <2>14
      <3> QED BY <2>9, <2>11, <2>12, <2>14, <3>1
    <2>16. Last(st) = o
      BY <2>14 DEF Last
    <2>17. output' = output \o <<c>>
      BY <2>1, <2>5
    <2> QED BY <2>1, <2>7, <2>8, <2>10, <2>15, <2>16, <2>17, StillAgree
  <1> QED BY <1>3, <1>4, <1>5

LEMMA PragmaOnceAgrees ==
  ASSUME SInv, AInv, PragmaOnce
  PROVE  AInv'
  <1>1. status = "running" /\ ~AtEnd /\ Row.kind = "once"
    BY DEF PragmaOnce, Reading
  <1>2. Top.groups \in Seq(BOOLEAN) /\ Regrouped(Top.groups)
    BY <1>1, RowFact, PartsFact DEF Regrouped
  <1>3. CASE Passes /\ Top.file \in onces
    BY <1>1, <1>3, LeaveAgrees DEF PragmaOnce
  <1>4. CASE ~(Passes /\ Top.file \in onces)
    <2>1. /\ stack' = Append(Front(stack), ReadOn(Top.groups))
          /\ output' = output \o Blanks(Row.lines) /\ contents' = contents
      BY <1>4 DEF PragmaOnce, Goes
    <2> QED BY <1>1, <1>2, <2>1, BlanksAgree
  <1> QED BY <1>3, <1>4

LEMMA LineAgrees ==
  ASSUME SInv, AInv, Line
  PROVE  AInv'
  <1>1. status = "running" /\ ~AtEnd /\ Row.kind = "line"
    BY DEF Line, Reading
  <1>2. /\ Top.groups \in Seq(BOOLEAN) /\ Row.number \in Nat /\ Top.line \in Nat
        /\ Row.file \in Files \cup {NoName} /\ Top.file \in Files /\ Top.next \in Nat \ {0}
        /\ contents[Top.file] \in Seq(Rows)
    BY <1>1, RowFact, PartsFact
  <1>3. CASE ~Passes
    <2>1. Goes(ReadOn(Top.groups), Blanks(Row.lines))
      BY <1>3 DEF Line
    <2>2. Regrouped(Top.groups)
      BY <1>1, <1>3 DEF Regrouped
    <2> QED BY <1>1, <1>2, <2>1, <2>2, BlanksAgree DEF Goes
  <1>4. CASE Passes
    <2> DEFINE f == Row.file
               s == [ReadOn(Top.groups) EXCEPT
                       !.line = Row.number, !.name = IF Row.file = NoName THEN @ ELSE Row.file]
               n == Row.number - Top.line - 1
               c == LineCtrl(f, Row.number)
    <2>1. /\ stack' = Append(Front(stack), s) /\ output' = output \o (<<c>> \o Blanks(n))
          /\ contents' = contents
      BY <1>4 DEF Line, Goes
    <2>2. f # NoName /\ Row.number <= Top.line + 1
      <3>1. Top.next \in 1 .. Len(contents[Top.file])
        BY <1>1, <1>2 DEF AtEnd
      <3>2. Obeyed(Top.file, Top.next)
            /\ Counted(Top.file, contents[Top.file])[Top.next].line = Top.line
        BY <1>1, <1>4, HereFact
      <3> QED BY <1>1, <1>2, <3>1, <3>2 DEF AInv, LinesTame, Row
    <2>3. f \in Files
      BY <1>2, <2>2
    <2>4. c \in Items /\ c.kind = "line" /\ c.name = f /\ c.line = Row.number
      BY <1>2, <2>3 DEF LineCtrl, Items
    <2>5. <<c>> \o Blanks(n) = <<c>>
      <3>1. n \in Int /\ n <= 0
        BY <1>2, <2>2
      <3> HIDE DEF n
      <3>2. Blanks(n) \in Seq(Items) /\ Len(Blanks(n)) = 0
        BY <3>1, BlanksFact DEF Quiet
      <3> HIDE DEF c
      <3> QED BY <2>4, <3>2
    <2>6. output \in Seq(Items) /\ Agree(output)
      BY DEF SInv, Sound, AInv
    <2>7. CountsTo(output \o <<c>>, Len(output \o <<c>>) + 1, f, Row.number)
      BY <1>2, <2>3, <2>6, CountsCtrl
    <2>8. Agree(output \o <<c>>)
      <3> HIDE DEF c
      <3>1. <<c>> \in Seq(Items) /\ \A i \in 1 .. Len(<<c>>) : <<c>>[i].kind # "text"
        BY <2>4
      <3> QED BY <2>6, <3>1, AgreeMore
    <2>9. /\ s \in Readings /\ s.file = Top.file /\ s.line = Row.number /\ s.name = f
          /\ s.next = Top.next + 1 /\ s.groups = Top.groups
      BY <1>1, <2>2, LineRowFact
    <2>10. Count([name |-> Top.name, line |-> Top.line, groups |-> Top.groups], Row) =
             [name |-> f, line |-> Row.number, groups |-> Top.groups]
      <3>1. FALSE \notin Range(Top.groups)
        BY <1>1, <1>4, HereFact
      <3> QED BY <1>1, <2>2, <3>1 DEF Count
    <2> HIDE DEF s, c, f, n
    <2>11. Matches(s)
      BY <1>1, <2>9, <2>10, CountRow
    <2>12. output' = output \o <<c>>
      BY <2>1, <2>5
    <2> QED BY <1>1, <2>1, <2>7, <2>8, <2>9, <2>11, <2>12, RowAgrees
  <1> QED BY <1>3, <1>4

LEMMA EndOfFileAgrees ==
  ASSUME SInv, AInv, EndOfFile
  PROVE  AInv'
  BY LeaveAgrees, RefuseAgrees DEF EndOfFile, EndRead

LEMMA InitAgrees ==
  ASSUME Init, LinesTame
  PROVE  AInv
  <1> DEFINE none == <<>>
             c == LineCtrl(Main, 1)
  <1>1. Main \in Files
    BY SourcesAssumption
  <1>2. stack = <<Opened(Main)>> /\ output = <<c>>
    BY DEF Init
  <1>3. c \in Items /\ c.kind = "line"
    BY <1>1 DEF LineCtrl, Items
  <1>4. none \in Seq(Items)
    OBVIOUS
  <1>5. CountsTo(none \o <<c>>, Len(none \o <<c>>) + 1, Main, 1)
    BY <1>1, <1>4, CountsCtrl
  <1> HIDE DEF c
  <1>6. none \o <<c>> = <<c>>
    BY <1>3
  <1>7. Last(stack) = Opened(Main)
    BY <1>2 DEF Last
  <1>8. CountsTo(output, Len(output) + 1, Last(stack).name, Last(stack).line)
    BY <1>2, <1>5, <1>6, <1>7 DEF Opened
  <1>9. \A n \in 1 .. Len(stack) : Matches(stack[n])
    BY <1>2, CountedFact DEF Matches, Opened
  <1>10. Agree(output)
    BY <1>2, <1>3 DEF Agree
  <1> QED BY <1>8, <1>9, <1>10 DEF AInv

\* The compiler takes every line of text for the line of the file that it was
\* written on, through inclusions, skipped groups, directives and rows of any
\* length (cpp_process), for files whose directives keep to LinesTame: the
\* count at the end of the output is that of the file on top.
THEOREM LinesKept == Spec /\ LinesTame => []LinesAgree
  <1>1. Init /\ LinesTame => AInv
    BY InitAgrees
  <1>2. SInv /\ AInv /\ [Next]_vars => AInv'
    <2> SUFFICES ASSUME SInv, AInv, [Next]_vars
                 PROVE  AInv'
      OBVIOUS
    <2>1. CASE TextRow
      BY <2>1, TextRowAgrees
    <2>2. CASE Control
      BY <2>2, ControlAgrees
    <2>3. CASE If
      BY <2>3, IfAgrees
    <2>4. CASE Endif
      BY <2>4, EndifAgrees
    <2>5. CASE Include
      BY <2>5, IncludeAgrees
    <2>6. CASE PragmaOnce
      BY <2>6, PragmaOnceAgrees
    <2>7. CASE Line
      BY <2>7, LineAgrees
    <2>8. CASE EndOfFile
      BY <2>8, EndOfFileAgrees
    <2>9. CASE UNCHANGED vars
      BY <2>9, StillAgree DEF vars, AInv
    <2> QED BY <2>1, <2>2, <2>3, <2>4, <2>5, <2>6, <2>7, <2>8, <2>9 DEF Next
  <1>3. SInv /\ AInv => LinesAgree
    <2> SUFFICES ASSUME SInv, AInv, NEW n \in DOMAIN output, output[n].kind = "text"
                 PROVE  Seen(n) = Place(output[n].place[1], output[n].place[2])
      BY DEF LinesAgree
    <2> DEFINE at == Counted(output[n].place[1], contents[output[n].place[1]])[output[n].place[2]]
    <2>1. output \in Seq(Items) /\ n \in 1 .. Len(output)
      BY DEF SInv, Sound
    <2>2. CountsTo(output, n, at.name, at.line)
      BY <2>1 DEF AInv, Agree
    <2>3. Seen(n) = <<at.name, at.line>>
      <3> HIDE DEF at
      <3> QED BY <2>1, <2>2, SeenFact
    <2> QED BY <2>3 DEF Place
  <1> QED BY <1>1, <1>2, <1>3, SourcesInductive, PTL DEF Spec

=============================================================================
