---------------------------- MODULE FrameProofs -----------------------------
(* Proofs about Frame: the invariants of its runs, for every function.     *)
EXTENDS Frame, FiniteSetTheorems, TLAPS

-----------------------------------------------------------------------------
(* The inductive invariant.  NoOverlap speaks of wanted values only; what  *)
(* keeps it is that localuses lists places from the frame's top downwards  *)
(* and that nothing lies beyond curlocalbytes.                             *)

Ordered ==
  \A j \in DOMAIN localuses : \A i \in 1 .. j - 1 :
    /\ IsBlock(j) => localuses[i].depth <= localuses[j].depth
    /\ IsTmp(j) => localuses[i].depth <= localuses[j].depth - localuses[j].size

Within ==
  /\ \A i \in DOMAIN localuses :
       /\ localuses[i].depth <= curlocalbytes
       /\ IsTmp(i) => localuses[i].size <= localuses[i].depth
  /\ \A v \in locals : v.depth <= curlocalbytes /\ v.size <= v.depth
  /\ curlocalbytes <= maxlocalbytes

Owned ==
  \A d \in Dags : Live(d) =>
    \E i \in DOMAIN localuses :
      /\ IsTmp(i)
      /\ localuses[i].dag = d
      /\ localuses[i].depth = slot[d]
      /\ DagSize[d] <= localuses[i].size

Resident ==
  \A i \in DOMAIN localuses :
    IsTmp(i) /\ lastref[localuses[i].dag] >= seqid => inmemory[localuses[i].dag]

VarsApart ==
  /\ \A v, w \in locals : v # w => Apart(v, w)
  /\ \A v \in locals, i \in DOMAIN localuses : IsTmp(i) => Apart(v, localuses[i])

\* The entry of every block being translated is there, deeper blocks follow
\* it, and the variables of the blocks around it lie above its offset.
Opened(l, i) ==
  /\ OwnBlock(i, l)
  /\ \A j \in i + 1 .. Len(localuses) : IsBlock(j) => localuses[j].level > l
  /\ \A v \in locals : v.level < l => v.depth <= localuses[i].depth

Nested ==
  /\ \A l \in 1 .. level : \E i \in DOMAIN localuses : Opened(l, i)
  /\ \A v \in locals : v.level <= level

IInv ==
  /\ TypeOK
  /\ Ordered
  /\ Within
  /\ Owned
  /\ Resident
  /\ VarsApart
  /\ Nested

-----------------------------------------------------------------------------
(* util_roundup never returns less than it is given. *)
LEMMA RoundupFact == ASSUME NEW n \in Nat
                     PROVE  Roundup(n) \in Nat /\ n <= Roundup(n)
BY DEF Roundup

\* What TypeOK says of the parts of a state, in the form the steps need.
LEMMA Types ==
  TypeOK => /\ seqid \in Nat /\ level \in Nat
            /\ curlocalbytes \in Nat /\ maxlocalbytes \in Nat
            /\ lastref \in [Dags -> Nat]
            /\ inmemory \in [Dags -> BOOLEAN]
            /\ slot \in [Dags -> Nat]
            /\ localuses \in Seq(Entries)
            /\ Len(localuses) \in Nat
            /\ DOMAIN localuses = 1 .. Len(localuses)
            /\ \A i \in 1 .. Len(localuses) :
                 /\ localuses[i] \in Entries
                 /\ localuses[i].depth \in Nat
                 /\ localuses[i].size \in Nat
                 /\ localuses[i].level \in Nat
                 /\ IsBlock(i) <=> ~IsTmp(i)
                 /\ IsTmp(i) => localuses[i].dag \in Dags
            /\ \A v \in locals : v.depth \in Nat /\ v.size \in Nat /\ v.level \in Nat
<1> SUFFICES ASSUME TypeOK PROVE Types!2
  OBVIOUS
<1>1. /\ seqid \in Nat /\ level \in Nat
      /\ curlocalbytes \in Nat /\ maxlocalbytes \in Nat
      /\ lastref \in [Dags -> Nat]
      /\ inmemory \in [Dags -> BOOLEAN]
      /\ slot \in [Dags -> Nat]
  BY FrameAssumption DEF TypeOK
<1>2. /\ localuses \in Seq(Entries)
      /\ Len(localuses) \in Nat
      /\ DOMAIN localuses = 1 .. Len(localuses)
  BY DEF TypeOK
<1>3. ASSUME NEW i \in 1 .. Len(localuses)
      PROVE  /\ localuses[i] \in Entries
             /\ localuses[i].depth \in Nat
             /\ localuses[i].size \in Nat
             /\ localuses[i].level \in Nat
             /\ IsBlock(i) <=> ~IsTmp(i)
  <2>1. localuses[i] \in Entries
    BY <1>2
  <2> QED BY <2>1 DEF Entries, IsBlock, IsTmp
<1>4. \A i \in 1 .. Len(localuses) : IsTmp(i) => localuses[i].dag \in Dags
  BY <1>2 DEF TypeOK
<1>5. \A v \in locals : v.depth \in Nat /\ v.size \in Nat /\ v.level \in Nat
  BY DEF TypeOK
<1> QED BY <1>1, <1>2, <1>3, <1>4, <1>5

\* An empty frame satisfies the inductive invariant.
LEMMA InitIInv == Init => IInv
BY FrameAssumption DEF Init, IInv, TypeOK, Ordered, Within, Owned, Resident,
  VarsApart, Nested, Live

\* A triple that does nothing to the frame only ends the lives of values.
LEMMA OtherTripleIInv == IInv /\ OtherTriple => IInv'
<1> SUFFICES ASSUME IInv, OtherTriple PROVE IInv'
  OBVIOUS
<1> USE FrameAssumption DEF IInv, OtherTriple, NextTriple
<1>1. TypeOK'
  BY DEF TypeOK, IsTmp
<1>2. Ordered' /\ Within' /\ VarsApart'
  BY DEF Ordered, Within, VarsApart, Apart, IsBlock, IsTmp
<1>3. Owned'
  BY DEF Owned, Live, IsTmp, TypeOK
<1>4. Resident'
  BY DEF Resident, IsTmp, TypeOK
<1>5. Nested'
  BY DEF Nested, Opened, OwnBlock, IsBlock
<1> QED BY <1>1, <1>2, <1>3, <1>4, <1>5

\* block_enter appends an entry that holds no bytes.
LEMMA BlockEnterIInv == IInv /\ BlockEnter => IInv'
<1> SUFFICES ASSUME IInv, BlockEnter PROVE IInv'
  OBVIOUS
<1> USE FrameAssumption DEF IInv
<1> DEFINE n == Len(localuses)
<1>1. /\ seqid < MaxSeq /\ seqid' = seqid + 1 /\ seqid \in Nat
      /\ level < MaxLevel /\ level' = level + 1 /\ level \in Nat
      /\ localuses' = Append(localuses, BlockEntry(level + 1, curlocalbytes))
      /\ UNCHANGED <<lastref, curlocalbytes, maxlocalbytes, inmemory, slot, locals>>
  BY DEF BlockEnter, NextTriple, TypeOK
<1>2. BlockEntry(level + 1, curlocalbytes) \in Entries
  BY <1>1 DEF BlockEntry, Entries, TypeOK
<1>3. /\ localuses' \in Seq(Entries)
      /\ Len(localuses') = n + 1
      /\ \A i \in 1 .. n : localuses'[i] = localuses[i]
      /\ localuses'[n + 1] = BlockEntry(level + 1, curlocalbytes)
  BY <1>1, <1>2 DEF TypeOK
<1>4. /\ n \in Nat
      /\ DOMAIN localuses = 1 .. n
      /\ DOMAIN localuses' = 1 .. n + 1
  BY <1>3, Types
<1>5. /\ lastref \in [Dags -> Nat]
      /\ \A i \in 1 .. n : /\ localuses[i] \in Entries
                           /\ IsTmp(i) => localuses[i].dag \in Dags
      /\ \A v \in locals : v.level \in Nat
  BY <1>4, Types
<1> HIDE DEF n
<1> DEFINE b == BlockEntry(level + 1, curlocalbytes)
<1>0. /\ curlocalbytes \in Nat /\ curlocalbytes' \in Nat
      /\ b.kind = "block" /\ b.level = level + 1 /\ b.depth = curlocalbytes
  BY <1>1 DEF TypeOK, BlockEntry
<1> HIDE DEF b
<1>6. TypeOK'
  BY <1>1, <1>3, <1>4 DEF TypeOK, IsTmp, BlockEntry
<1>7. Ordered'
  BY <1>0, <1>3, <1>4, <1>5 DEF Ordered, Within, IsBlock, IsTmp, b
<1>8. Within'
  <2>1. \A i \in 1 .. n + 1 : /\ localuses'[i].depth <= curlocalbytes
                              /\ IsTmp(i)' => localuses'[i].size <= localuses'[i].depth
    BY <1>0, <1>3, <1>4 DEF Within, IsTmp, b
  <2> QED BY <1>1, <1>4, <2>1 DEF Within
<1>9. Owned'
  <2> SUFFICES ASSUME NEW d \in Dags, Live(d)'
               PROVE  \E i \in 1 .. n + 1 : /\ IsTmp(i)'
                                            /\ localuses'[i].dag = d
                                            /\ localuses'[i].depth = slot'[d]
                                            /\ DagSize[d] <= localuses'[i].size
    BY <1>4 DEF Owned
  <2>1. Live(d)
    BY <1>1 DEF Live, TypeOK
  <2>2. PICK i \in 1 .. n : /\ IsTmp(i)
                            /\ localuses[i].dag = d
                            /\ localuses[i].depth = slot[d]
                            /\ DagSize[d] <= localuses[i].size
    BY <1>4, <2>1 DEF Owned
  <2> QED BY <1>1, <1>3, <1>4, <2>2 DEF IsTmp
<1>10. Resident'
  <2> SUFFICES ASSUME NEW i \in 1 .. n, IsTmp(i), lastref[localuses[i].dag] >= seqid'
               PROVE  inmemory[localuses[i].dag]
    BY <1>0, <1>1, <1>3, <1>4 DEF Resident, IsTmp, b
  <2>1. lastref[localuses[i].dag] \in Nat
    <3>1. localuses[i].dag \in Dags
      BY <1>5
    <3> QED BY <3>1, <1>5
  <2> QED BY <1>1, <1>4, <2>1 DEF Resident
<1>11. VarsApart'
  BY <1>1, <1>3, <1>4 DEF VarsApart, Apart, IsTmp, BlockEntry
<1>12. Nested'
  <2>1. ASSUME NEW l \in 1 .. level
        PROVE  \E i \in DOMAIN localuses' : Opened(l, i)'
    <3>1. PICK i \in 1 .. n : Opened(l, i)
      BY <1>4 DEF Nested
    <3>2. OwnBlock(i, l)'
      BY <1>3, <3>1 DEF Opened, OwnBlock, IsBlock
    <3>3. ASSUME NEW j \in i + 1 .. n + 1, IsBlock(j)'
          PROVE  localuses'[j].level > l
      BY <1>0, <1>1, <1>3, <1>4, <3>1, <3>3 DEF Opened, IsBlock, b
    <3>4. Opened(l, i)'
      BY <1>1, <1>3, <3>1, <3>2, <3>3 DEF Opened
    <3> QED BY <3>1, <3>4, <1>4
  <2>2. ASSUME NEW l, l = level + 1
        PROVE  \E i \in DOMAIN localuses' : Opened(l, i)'
    <3>1. PICK i \in 1 .. n + 1 : i = n + 1
      BY <1>4
    <3>2. OwnBlock(i, l)'
      BY <1>0, <1>3, <2>2, <3>1 DEF OwnBlock, IsBlock, b
    <3>3. \A v \in locals : v.depth <= localuses'[i].depth
      BY <1>0, <1>3, <3>1 DEF Within, b
    <3> QED BY <1>1, <1>3, <1>4, <3>1, <3>2, <3>3 DEF Opened
  <2>3. \A v \in locals' : v.level <= level'
    BY <1>1, <1>5 DEF Nested
  <2>4. \A l \in 1 .. level' : l \in 1 .. level \/ l = level + 1
    BY <1>1
  <2> QED BY <2>1, <2>2, <2>3, <2>4 DEF Nested
<1> QED BY <1>6, <1>7, <1>8, <1>9, <1>10, <1>11, <1>12

\* A variable is placed beyond everything that is in the frame.
LEMMA LocalVariableIInv ==
  ASSUME IInv, NEW size \in VarSizes, LocalVariable(size)
  PROVE  IInv'
<1> USE DEF IInv
<1> DEFINE n == Len(localuses)
           depth == curlocalbytes + Roundup(size)
           new == [depth |-> depth, size |-> size, level |-> level]
<1>1. /\ seqid < MaxSeq /\ seqid' = seqid + 1
      /\ curlocalbytes' = depth
      /\ maxlocalbytes' = Larger(maxlocalbytes, depth)
      /\ locals' = locals \cup {new}
      /\ UNCHANGED <<lastref, localuses, inmemory, slot, level>>
  BY DEF LocalVariable, NextTriple
<1>2. size \in Nat /\ Roundup(size) \in Nat /\ size <= Roundup(size)
  BY RoundupFact, FrameAssumption
<1>3. /\ seqid \in Nat /\ level \in Nat
      /\ curlocalbytes \in Nat /\ maxlocalbytes \in Nat
      /\ lastref \in [Dags -> Nat]
      /\ DOMAIN localuses = 1 .. n
      /\ \A i \in 1 .. n : /\ localuses[i].depth \in Nat /\ localuses[i].size \in Nat
                           /\ IsTmp(i) => localuses[i].dag \in Dags
      /\ \A v \in locals : v.depth \in Nat /\ v.size \in Nat /\ v.level \in Nat
  BY Types
<1>4. /\ depth \in Nat /\ curlocalbytes <= depth - size
      /\ new \in [depth : Nat, size : Nat, level : Nat]
      /\ new.depth = depth /\ new.size = size /\ new.level = level
  BY <1>2, <1>3
<1> HIDE DEF n, depth, new
<1>5. maxlocalbytes' \in Nat /\ depth <= maxlocalbytes'
  BY <1>1, <1>3, <1>4 DEF Larger
<1>6. TypeOK'
  BY <1>1, <1>3, <1>4, <1>5, FrameAssumption DEF TypeOK, IsTmp
<1>7. Ordered'
  BY <1>1 DEF Ordered, IsBlock, IsTmp
<1>8. Within'
  BY <1>1, <1>2, <1>3, <1>4, <1>5 DEF Within, IsTmp
<1>9. Owned'
  BY <1>1, <1>3 DEF Owned, Live, IsTmp
<1>10. Resident'
  <2> SUFFICES ASSUME NEW i \in 1 .. n, IsTmp(i), lastref[localuses[i].dag] >= seqid'
               PROVE  inmemory[localuses[i].dag]
    BY <1>1, <1>3 DEF Resident, IsTmp
  <2>1. lastref[localuses[i].dag] \in Nat
    BY <1>3
  <2> QED BY <1>1, <1>3, <2>1 DEF Resident
<1>11. VarsApart'
  <2>1. \A v \in locals : Apart(v, new) /\ Apart(new, v)
    BY <1>2, <1>3, <1>4 DEF Within, Apart
  <2>2. \A v, w \in locals' : v # w => Apart(v, w)
    BY <1>1, <2>1 DEF VarsApart
  <2>3. \A i \in 1 .. n : Apart(new, localuses[i])
    BY <1>2, <1>3, <1>4 DEF Within, Apart
  <2>4. \A v \in locals', i \in 1 .. n : IsTmp(i) => Apart(v, localuses[i])
    BY <1>1, <1>3, <2>3 DEF VarsApart
  <2> QED BY <1>1, <1>3, <2>2, <2>4 DEF VarsApart, Apart, IsTmp
<1>12. Nested'
  <2>1. ASSUME NEW l \in 1 .. level
        PROVE  \E i \in DOMAIN localuses' : Opened(l, i)'
    <3>1. PICK i \in 1 .. n : Opened(l, i)
      BY <1>3 DEF Nested
    <3>2. ~(new.level < l)
      BY <1>3, <1>4
    <3> QED BY <1>1, <1>3, <3>1, <3>2 DEF Opened, OwnBlock, IsBlock
  <2>2. \A v \in locals' : v.level <= level'
    BY <1>1, <1>3, <1>4 DEF Nested
  <2> QED BY <1>1, <2>1, <2>2 DEF Nested
<1> QED BY <1>6, <1>7, <1>8, <1>9, <1>10, <1>11, <1>12

\* A new slot is placed beyond everything that is in the frame.
LEMMA NewSlotIInv ==
  ASSUME IInv, NEW d \in Dags, AllocTemporarySpace(d), NewSlot(d)
  PROVE  IInv'
<1> USE DEF IInv
<1> DEFINE n == Len(localuses)
           size == Roundup(DagSize[d])
           depth == curlocalbytes + size
           new == TmpEntry(d, depth, size)
<1>1. /\ lastref[d] >= seqid /\ ~inmemory[d]
      /\ curlocalbytes' = depth
      /\ maxlocalbytes' = Larger(maxlocalbytes, depth)
      /\ localuses' = Append(localuses, new)
      /\ inmemory' = [inmemory EXCEPT ![d] = TRUE]
      /\ slot' = [slot EXCEPT ![d] = depth]
      /\ UNCHANGED <<seqid, lastref, level, locals>>
  BY DEF AllocTemporarySpace, NewSlot
<1>2. /\ DagSize[d] \in Nat /\ size \in Nat /\ DagSize[d] <= size
  BY RoundupFact, FrameAssumption
<1>3. /\ seqid \in Nat /\ level \in Nat
      /\ curlocalbytes \in Nat /\ maxlocalbytes \in Nat
      /\ lastref \in [Dags -> Nat]
      /\ inmemory \in [Dags -> BOOLEAN]
      /\ slot \in [Dags -> Nat]
      /\ localuses \in Seq(Entries)
      /\ n \in Nat /\ n = Len(localuses)
      /\ DOMAIN localuses = 1 .. n
      /\ \A i \in 1 .. n : /\ localuses[i].depth \in Nat /\ localuses[i].size \in Nat
                           /\ IsTmp(i) => localuses[i].dag \in Dags
      /\ \A v \in locals : v.depth \in Nat /\ v.size \in Nat /\ v.level \in Nat
  BY Types
<1>4. /\ depth \in Nat /\ curlocalbytes = depth - size
      /\ new \in Entries
      /\ new.kind = "tmp" /\ new.dag = d /\ new.depth = depth /\ new.size = size
  BY <1>2, <1>3 DEF TmpEntry, Entries
<1>5. /\ localuses' \in Seq(Entries)
      /\ Len(localuses') = n + 1
      /\ DOMAIN localuses' = 1 .. n + 1
      /\ \A i \in 1 .. n : localuses'[i] = localuses[i]
      /\ localuses'[n + 1] = new
  <2> HIDE DEF new
  <2> QED BY <1>1, <1>3, <1>4
<1> HIDE DEF n, size, depth, new
<1>6. maxlocalbytes' \in Nat /\ depth <= maxlocalbytes'
  BY <1>1, <1>3, <1>4 DEF Larger
<1>7. \A i \in 1 .. n + 1 : i \in 1 .. n \/ i = n + 1
  BY <1>3
<1>8. TypeOK'
  <2>1. \A i \in 1 .. n + 1 : IsTmp(i)' => localuses'[i].dag \in Dags
    BY <1>3, <1>4, <1>5, <1>7 DEF IsTmp
  <2>2. inmemory' \in [Dags -> BOOLEAN] /\ slot' \in [Dags -> Nat]
    BY <1>1, <1>3, <1>4
  <2> QED BY <1>1, <1>3, <1>4, <1>5, <1>6, <2>1, <2>2 DEF TypeOK
<1>9. Ordered'
  <2> SUFFICES ASSUME NEW j \in 1 .. n + 1, NEW i \in 1 .. j - 1
               PROVE  /\ IsBlock(j)' => localuses'[i].depth <= localuses'[j].depth
                      /\ IsTmp(j)' => localuses'[i].depth <= localuses'[j].depth - localuses'[j].size
    BY <1>5 DEF Ordered
  <2>1. CASE j \in 1 .. n
    <3>1. i \in 1 .. n /\ localuses'[i] = localuses[i] /\ localuses'[j] = localuses[j]
      BY <1>3, <1>5, <2>1
    <3> QED BY <1>3, <2>1, <3>1 DEF Ordered, IsBlock, IsTmp
  <2>2. CASE j = n + 1
    <3>1. i \in 1 .. n /\ localuses'[i] = localuses[i] /\ localuses'[j] = new
      BY <1>3, <1>5, <2>2
    <3>2. localuses[i].depth <= curlocalbytes
      BY <1>3, <3>1 DEF Within
    <3> QED BY <1>3, <1>4, <3>1, <3>2 DEF IsBlock
  <2> QED BY <1>7, <2>1, <2>2
<1>10. Within'
  <2>1. \A i \in 1 .. n + 1 : /\ localuses'[i].depth <= depth
                              /\ IsTmp(i)' => localuses'[i].size <= localuses'[i].depth
    <3> SUFFICES ASSUME NEW i \in 1 .. n + 1
                 PROVE  /\ localuses'[i].depth <= depth
                        /\ IsTmp(i)' => localuses'[i].size <= localuses'[i].depth
      OBVIOUS
    <3>1. CASE i \in 1 .. n
      <4>1. /\ localuses[i].depth <= curlocalbytes
            /\ IsTmp(i) => localuses[i].size <= localuses[i].depth
        BY <1>3, <3>1 DEF Within
      <4> QED BY <1>2, <1>3, <1>4, <1>5, <3>1, <4>1 DEF IsTmp
    <3>2. CASE i = n + 1
      BY <1>2, <1>3, <1>4, <1>5, <3>2
    <3> QED BY <1>7, <3>1, <3>2
  <2>2. \A v \in locals : v.depth <= depth /\ v.size <= v.depth
    BY <1>2, <1>3, <1>4 DEF Within
  <2> QED BY <1>1, <1>5, <1>6, <2>1, <2>2 DEF Within
<1>11. Owned'
  <2> SUFFICES ASSUME NEW e \in Dags, Live(e)'
               PROVE  \E i \in 1 .. n + 1 : /\ IsTmp(i)'
                                            /\ localuses'[i].dag = e
                                            /\ localuses'[i].depth = slot'[e]
                                            /\ DagSize[e] <= localuses'[i].size
    BY <1>5 DEF Owned
  <2>1. CASE e = d
    BY <1>1, <1>2, <1>3, <1>4, <1>5, <2>1 DEF IsTmp
  <2>2. CASE e # d
    <3>1. Live(e) /\ slot'[e] = slot[e]
      BY <1>1, <1>3, <2>2 DEF Live
    <3>2. PICK i \in 1 .. n : /\ IsTmp(i)
                              /\ localuses[i].dag = e
                              /\ localuses[i].depth = slot[e]
                              /\ DagSize[e] <= localuses[i].size
      BY <1>3, <3>1 DEF Owned
    <3> QED BY <1>3, <1>5, <3>1, <3>2 DEF IsTmp
  <2> QED BY <2>1, <2>2
<1>12. Resident'
  <2> SUFFICES ASSUME NEW i \in 1 .. n + 1, IsTmp(i)', lastref[localuses'[i].dag] >= seqid
               PROVE  inmemory'[localuses'[i].dag]
    BY <1>1, <1>5 DEF Resident
  <2>1. CASE i \in 1 .. n
    <3>1. /\ IsTmp(i) /\ localuses'[i].dag = localuses[i].dag
          /\ localuses[i].dag \in Dags
      BY <1>3, <1>5, <2>1 DEF IsTmp
    <3>2. inmemory[localuses[i].dag]
      BY <1>3, <2>1, <3>1 DEF Resident
    <3> QED BY <1>1, <1>3, <3>1, <3>2
  <2>2. CASE i = n + 1
    BY <1>1, <1>3, <1>4, <1>5, <2>2
  <2> QED BY <1>7, <2>1, <2>2
<1>13. VarsApart'
  <2>1. \A v \in locals : Apart(v, new)
    BY <1>2, <1>3, <1>4 DEF Within, Apart
  <2>2. \A v \in locals, i \in 1 .. n + 1 : IsTmp(i)' => Apart(v, localuses'[i])
    BY <1>3, <1>5, <1>7, <2>1 DEF VarsApart, IsTmp
  <2> QED BY <1>1, <1>5, <2>2 DEF VarsApart, Apart
<1>14. Nested'
  <2>1. ASSUME NEW l \in 1 .. level
        PROVE  \E i \in DOMAIN localuses' : Opened(l, i)'
    <3>1. PICK i \in 1 .. n : Opened(l, i)
      BY <1>3 DEF Nested
    <3>2. OwnBlock(i, l)'
      BY <1>5, <3>1 DEF Opened, OwnBlock, IsBlock
    <3>3. ASSUME NEW j \in i + 1 .. n + 1, IsBlock(j)'
          PROVE  localuses'[j].level > l
      <4>1. j \in i + 1 .. n
        <5>1. j # n + 1
          BY <1>4, <1>5, <3>3 DEF IsBlock
        <5>2. n \in Nat
          BY <1>3
        <5> QED BY <5>1, <5>2
      <4>2. IsBlock(j) /\ localuses'[j] = localuses[j]
        BY <1>3, <1>5, <3>3, <4>1 DEF IsBlock
      <4> QED BY <1>3, <3>1, <4>1, <4>2 DEF Opened
    <3>4. \A v \in locals' : v.level < l => v.depth <= localuses'[i].depth
      BY <1>1, <1>5, <3>1 DEF Opened
    <3>5. Opened(l, i)'
      BY <1>5, <3>2, <3>3, <3>4 DEF Opened
    <3>6. i \in DOMAIN localuses'
      BY <1>3, <1>5
    <3> QED BY <3>5, <3>6
  <2> QED BY <1>1, <2>1 DEF Nested
<1> QED BY <1>8, <1>9, <1>10, <1>11, <1>12, <1>13, <1>14

\* A slot whose value is dead changes its owner and nothing else.
LEMMA ReuseSlotIInv ==
  ASSUME IInv, NEW d \in Dags, AllocTemporarySpace(d),
         NEW k \in DOMAIN localuses, ReuseSlot(d, k)
  PROVE  IInv'
<1> USE DEF IInv
<1> DEFINE n == Len(localuses)
           old == localuses[k].dag
           new == TmpEntry(d, localuses[k].depth, localuses[k].size)
<1>1. /\ lastref[d] >= seqid
      /\ Fits(k, d)
      /\ localuses' = [localuses EXCEPT ![k] = new]
      /\ inmemory' = [inmemory EXCEPT ![old] = FALSE, ![d] = TRUE]
      /\ slot' = [slot EXCEPT ![old] = 0, ![d] = localuses[k].depth]
      /\ UNCHANGED <<curlocalbytes, maxlocalbytes, seqid, lastref, level, locals>>
  BY DEF AllocTemporarySpace, ReuseSlot
<1>2. /\ seqid \in Nat
      /\ lastref \in [Dags -> Nat]
      /\ inmemory \in [Dags -> BOOLEAN]
      /\ slot \in [Dags -> Nat]
      /\ localuses \in Seq(Entries)
      /\ n \in Nat /\ n = Len(localuses)
      /\ DOMAIN localuses = 1 .. n
      /\ k \in 1 .. n
  BY Types
<1>3. /\ \A i \in 1 .. n : /\ localuses[i].depth \in Nat /\ localuses[i].size \in Nat
                           /\ IsBlock(i) <=> ~IsTmp(i)
                           /\ IsTmp(i) => localuses[i].dag \in Dags
  BY Types
<1>4. /\ IsTmp(k) /\ localuses[k].size >= DagSize[d]
      /\ lastref[old] < seqid /\ old \in Dags /\ old # d
  BY <1>1, <1>2, <1>3 DEF Fits
<1>5. /\ new \in Entries
      /\ new.kind = "tmp" /\ new.dag = d
      /\ new.depth = localuses[k].depth /\ new.size = localuses[k].size
  BY <1>2, <1>3 DEF TmpEntry, Entries
<1>6. /\ localuses' \in Seq(Entries)
      /\ Len(localuses') = n
      /\ DOMAIN localuses' = 1 .. n
      /\ \A i \in 1 .. n : i # k => localuses'[i] = localuses[i]
      /\ localuses'[k] = new
  <2> HIDE DEF new, n
  <2> QED BY <1>1, <1>2, <1>5
<1>7. \A i \in 1 .. n : /\ localuses'[i].depth = localuses[i].depth
                        /\ localuses'[i].size = localuses[i].size
                        /\ localuses'[i].level = localuses[i].level \/ i = k
                        /\ IsTmp(i)' <=> IsTmp(i)
                        /\ IsBlock(i)' <=> IsBlock(i)
  <2> HIDE DEF new, n
  <2> QED BY <1>4, <1>5, <1>6 DEF IsTmp, IsBlock
<1>8. /\ inmemory' \in [Dags -> BOOLEAN] /\ slot' \in [Dags -> Nat]
      /\ inmemory'[d] /\ slot'[d] = localuses[k].depth
      /\ \A e \in Dags : e # d /\ e # old => inmemory'[e] = inmemory[e] /\ slot'[e] = slot[e]
      /\ ~inmemory'[old]
  BY <1>1, <1>2, <1>3, <1>4
<1> HIDE DEF n, old, new
<1>9. TypeOK'
  <2>1. \A i \in 1 .. n : IsTmp(i)' => localuses'[i].dag \in Dags
    BY <1>3, <1>5, <1>6, <1>7
  <2> QED BY <1>1, <1>6, <1>8, <2>1 DEF TypeOK
<1>10. Ordered'
  <2> SUFFICES ASSUME NEW j \in 1 .. n, NEW i \in 1 .. j - 1
               PROVE  /\ IsBlock(j)' => localuses'[i].depth <= localuses'[j].depth
                      /\ IsTmp(j)' => localuses'[i].depth <= localuses'[j].depth - localuses'[j].size
    BY <1>6 DEF Ordered
  <2>1. i \in 1 .. n
    BY <1>2, i \in 1 .. j - 1, j \in 1 .. n
  <2>2. /\ IsBlock(j) => localuses[i].depth <= localuses[j].depth
        /\ IsTmp(j) => localuses[i].depth <= localuses[j].depth - localuses[j].size
    BY <1>2 DEF Ordered
  <2> QED BY <1>7, <2>1, <2>2
<1>11. Within'
  <2>1. \A i \in 1 .. n : /\ localuses'[i].depth <= curlocalbytes
                          /\ IsTmp(i)' => localuses'[i].size <= localuses'[i].depth
    BY <1>2, <1>7 DEF Within
  <2> QED BY <1>1, <1>6, <2>1 DEF Within
<1>12. Owned'
  <2> SUFFICES ASSUME NEW e \in Dags, Live(e)'
               PROVE  \E i \in 1 .. n : /\ IsTmp(i)'
                                        /\ localuses'[i].dag = e
                                        /\ localuses'[i].depth = slot'[e]
                                        /\ DagSize[e] <= localuses'[i].size
    BY <1>6 DEF Owned
  <2>1. CASE e = d
    BY <1>2, <1>4, <1>5, <1>6, <1>7, <1>8, <2>1, FrameAssumption
  <2>2. CASE e # d
    <3>1. e # old /\ inmemory'[e] = inmemory[e] /\ slot'[e] = slot[e] /\ Live(e)
      BY <1>1, <1>8, <2>2 DEF Live
    <3>2. PICK i \in 1 .. n : /\ IsTmp(i)
                              /\ localuses[i].dag = e
                              /\ localuses[i].depth = slot[e]
                              /\ DagSize[e] <= localuses[i].size
      BY <1>2, <3>1 DEF Owned
    <3>3. i # k
      BY <3>1, <3>2 DEF old
    <3> QED BY <1>6, <1>7, <3>1, <3>2, <3>3
  <2> QED BY <2>1, <2>2
<1>13. Resident'
  <2> SUFFICES ASSUME NEW i \in 1 .. n, IsTmp(i)', lastref[localuses'[i].dag] >= seqid
               PROVE  inmemory'[localuses'[i].dag]
    BY <1>1, <1>6 DEF Resident
  <2>1. CASE i = k
    BY <1>5, <1>6, <1>8, <2>1
  <2>2. CASE i # k
    <3>1. localuses'[i] = localuses[i] /\ IsTmp(i) /\ localuses[i].dag \in Dags
      BY <1>3, <1>6, <1>7, <2>2
    <3>2. inmemory[localuses[i].dag]
      BY <1>2, <3>1 DEF Resident
    <3>3. localuses[i].dag # old
      BY <1>2, <1>4, <3>1
    <3> QED BY <1>8, <3>1, <3>2, <3>3
  <2> QED BY <2>1, <2>2
<1>14. VarsApart'
  <2>1. \A v \in locals, i \in 1 .. n : IsTmp(i)' => Apart(v, localuses'[i])
    BY <1>2, <1>7 DEF VarsApart, Apart
  <2> QED BY <1>1, <1>6, <2>1 DEF VarsApart, Apart
<1>15. Nested'
  <2>1. ASSUME NEW l \in 1 .. level
        PROVE  \E i \in DOMAIN localuses' : Opened(l, i)'
    <3>1. PICK i \in 1 .. n : Opened(l, i)
      BY <1>2 DEF Nested
    <3>2. i # k /\ localuses'[i] = localuses[i]
      BY <1>3, <1>4, <1>6, <3>1 DEF Opened, OwnBlock
    <3>3. OwnBlock(i, l)'
      BY <3>1, <3>2 DEF Opened, OwnBlock, IsBlock
    <3>4. ASSUME NEW j \in i + 1 .. n, IsBlock(j)'
          PROVE  localuses'[j].level > l
      <4>1. j \in 1 .. n
        BY <3>1
      <4>2. j # k /\ IsBlock(j)
        BY <1>3, <1>4, <1>7, <3>4, <4>1
      <4> QED BY <1>2, <1>6, <3>1, <4>1, <4>2 DEF Opened
    <3>5. Opened(l, i)'
      BY <1>1, <1>6, <3>1, <3>2, <3>3, <3>4 DEF Opened
    <3>6. i \in DOMAIN localuses'
      BY <1>6
    <3> QED BY <3>5, <3>6
  <2> QED BY <1>1, <2>1 DEF Nested
<1> QED BY <1>9, <1>10, <1>11, <1>12, <1>13, <1>14, <1>15

\* What block_leave does when blocks nest: it drops the entries from some m
\* on, none of which holds a wanted value, and what is left lies within the
\* new curlocalbytes.
Leaves(m) ==
  /\ m \in 0 .. Len(localuses)
  /\ localuses' = SubSeq(localuses, 1, m)
  /\ curlocalbytes' \in Nat
  /\ curlocalbytes' <= curlocalbytes
  /\ \A i \in 1 .. m : localuses[i].depth <= curlocalbytes'
  /\ \A v \in locals : v.level < level => v.depth <= curlocalbytes'
  /\ \A l \in 1 .. level - 1 : \E i \in 1 .. m : Opened(l, i)
  /\ \A i \in m + 1 .. Len(localuses) :
       IsTmp(i) => lastref[localuses[i].dag] <= seqid

\* What the loop stopped at: a temporary that is wanted, or the block's entry.
StopsLiving(m) == m \in DOMAIN localuses /\ KeepsLiving(m)
StopsOwn(m) ==
  \E i \in DOMAIN localuses :
    OwnBlock(i, level) /\ m = i - 1 /\ curlocalbytes' = localuses[i].depth

\* What block_leave leaves is a prefix of the array that ends before the block.
LEMMA BlockLeaveLeaves ==
  ASSUME IInv, BlockLeave
  PROVE  \E m \in 0 .. Len(localuses) : Leaves(m) /\ (StopsLiving(m) \/ StopsOwn(m))
<1> USE DEF IInv
<1> DEFINE n == Len(localuses)
<1>1. /\ seqid \in Nat /\ level \in Nat /\ level > 0
      /\ curlocalbytes \in Nat
      /\ lastref \in [Dags -> Nat]
      /\ localuses \in Seq(Entries)
      /\ n \in Nat /\ n = Len(localuses)
      /\ DOMAIN localuses = 1 .. n
  BY Types DEF BlockLeave
<1>2. /\ \A i \in 1 .. n : /\ localuses[i].depth \in Nat /\ localuses[i].size \in Nat
                           /\ localuses[i].level \in Nat
                           /\ IsBlock(i) <=> ~IsTmp(i)
                           /\ IsTmp(i) => localuses[i].dag \in Dags
  BY Types
<1>3. \A v \in locals : v.depth \in Nat /\ v.size \in Nat /\ v.level \in Nat
  BY Types
<1>4. PICK s \in 0 .. n :
        /\ IsStop(s, level)
        /\ localuses' = SubSeq(localuses, 1, n - Cardinality(Popped(s, level)))
        /\ \/ /\ Reopened(s, level) = {}
              /\ curlocalbytes' = curlocalbytes
           \/ \E b \in Reopened(s, level) :
                /\ \A i \in Reopened(s, level) : b <= i
                /\ curlocalbytes' = localuses[b].depth
  BY DEF BlockLeave
<1>5. PICK b \in 1 .. n : Opened(level, b)
  BY <1>1 DEF Nested
<1> HIDE DEF n
<1>6. b <= s
  <2> SUFFICES ASSUME ~(b <= s) PROVE FALSE
    OBVIOUS
  <2>1. b \in s + 1 .. n
    BY <1>1
  <2>2. BreaksAt(b, level)
    BY <1>5 DEF Opened, BreaksAt
  <2> QED BY <1>1, <1>4, <2>1, <2>2 DEF IsStop
<1>7. \A i \in s + 1 .. n : i \in 1 .. n /\ i \in b + 1 .. n
  BY <1>1, <1>6
<1>8. \A i \in s + 1 .. n : IsBlock(i) => localuses[i].level > level
  BY <1>1, <1>5, <1>7 DEF Opened
<1>9. \A i \in s + 1 .. n : IsTmp(i) => lastref[localuses[i].dag] <= seqid
  <2> SUFFICES ASSUME NEW i \in s + 1 .. n, IsTmp(i)
               PROVE  lastref[localuses[i].dag] <= seqid
    OBVIOUS
  <2>1. ~(lastref[localuses[i].dag] > seqid)
    BY <1>1, <1>4 DEF IsStop, BreaksAt, KeepsLiving
  <2>2. lastref[localuses[i].dag] \in Nat
    BY <1>1, <1>2, <1>7
  <2> QED BY <1>1, <2>1, <2>2
<1>10. ASSUME NEW l \in 1 .. level - 1
       PROVE  \E i \in 1 .. b - 1 : Opened(l, i)
  <2>1. l \in 1 .. level
    BY <1>1
  <2>2. PICK i \in 1 .. n : Opened(l, i)
    BY <1>1, <2>1 DEF Nested
  <2>3. /\ IsBlock(i) /\ localuses[i].level = l
        /\ IsBlock(b) /\ localuses[b].level = level
    BY <1>5, <2>2 DEF Opened, OwnBlock
  <2>4. i # b
    BY <1>1, <2>3
  <2>5. ~(i > b)
    <3> SUFFICES ASSUME i > b PROVE FALSE
      OBVIOUS
    <3>1. i \in b + 1 .. n
      BY <1>1
    <3>2. localuses[i].level > level
      BY <1>1, <1>5, <2>3, <3>1 DEF Opened
    <3> QED BY <1>1, <2>3, <3>2
  <2>6. i \in 1 .. b - 1
    BY <1>1, <2>4, <2>5
  <2> QED BY <2>2, <2>6
<1>11. Popped(s, level) = {i \in s + 1 .. n : IsTmp(i)} \cup Reopened(s, level)
  BY <1>1 DEF Popped
<1>12. Reopened(s, level) = {i \in s .. n : i # 0 /\ IsBlock(i) /\ localuses[i].level >= level}
  BY <1>1 DEF Reopened
<1>13. \A i \in s + 1 .. n : i \in Popped(s, level)
  <2> SUFFICES ASSUME NEW i \in s + 1 .. n, IsBlock(i)
               PROVE  i \in Reopened(s, level)
    BY <1>2, <1>7, <1>11
  <2>1. localuses[i].level >= level
    BY <1>1, <1>2, <1>7, <1>8
  <2>2. i \in s .. n /\ i # 0
    BY <1>1, <1>7
  <2> QED BY <1>12, <2>1, <2>2
<1>14. CASE IsTmp(s)
  <2>1. s \in 1 .. n
    BY <1>1, <1>6
  <2>2. s \notin Reopened(s, level)
    BY <1>2, <1>12, <1>14, <2>1
  <2>3. Reopened(s, level) \subseteq s + 1 .. n
    BY <1>1, <1>12, <2>2
  <2>4. Popped(s, level) = s + 1 .. n
    BY <1>11, <1>13, <2>3
  <2>5. Cardinality(s + 1 .. n) = n - s
    <3>1. s + 1 \in Int /\ n \in Int
      BY <1>1, <2>1
    <3>2. Cardinality(s + 1 .. n) = IF s + 1 > n THEN 0 ELSE n - (s + 1) + 1
      BY <3>1, FS_Interval
    <3> QED BY <1>1, <2>1, <3>2
  <2>6. localuses' = SubSeq(localuses, 1, s)
    BY <1>1, <1>4, <2>1, <2>4, <2>5
  <2>7. \/ curlocalbytes' = curlocalbytes
        \/ \E j \in s + 1 .. n : IsBlock(j) /\ curlocalbytes' = localuses[j].depth
    BY <1>4, <1>12, <2>3
  <2>8. /\ curlocalbytes' \in Nat
        /\ curlocalbytes' <= curlocalbytes
        /\ \A i \in 1 .. s : localuses[i].depth <= curlocalbytes'
    <3>1. CASE curlocalbytes' = curlocalbytes
      <4>1. \A i \in 1 .. s : i \in 1 .. n
        BY <1>1, <2>1
      <4>2. \A i \in 1 .. n : localuses[i].depth <= curlocalbytes
        BY <1>1 DEF Within
      <4> QED BY <1>1, <3>1, <4>1, <4>2
    <3>2. CASE \E j \in s + 1 .. n : IsBlock(j) /\ curlocalbytes' = localuses[j].depth
      <4>1. PICK j \in s + 1 .. n : IsBlock(j) /\ curlocalbytes' = localuses[j].depth
        BY <3>2
      <4>2. j \in 1 .. n /\ \A i \in 1 .. s : i \in 1 .. j - 1
        BY <1>1, <2>1
      <4>3. \A i \in 1 .. s : localuses[i].depth <= localuses[j].depth
        BY <1>1, <4>1, <4>2 DEF Ordered
      <4>4. localuses[j].depth <= curlocalbytes
        BY <1>1, <4>2 DEF Within
      <4> QED BY <1>2, <4>1, <4>2, <4>3, <4>4
    <3> QED BY <2>7, <3>1, <3>2
  <2>9. \A v \in locals : v.level < level => v.depth <= curlocalbytes'
    <3>1. b \in 1 .. s
      BY <1>6, <2>1
    <3>2. localuses[b].depth <= curlocalbytes' /\ localuses[b].depth \in Nat
      BY <1>2, <2>8, <3>1
    <3>3. \A v \in locals : v.level < level => v.depth <= localuses[b].depth
      BY <1>5 DEF Opened
    <3> QED BY <1>3, <2>8, <3>2, <3>3
  <2>10. \A l \in 1 .. level - 1 : \E i \in 1 .. s : Opened(l, i)
    <3>1. \A i \in 1 .. b - 1 : i \in 1 .. s
      BY <1>6, <2>1
    <3> QED BY <1>10, <3>1
  <2>11. Leaves(s)
    BY <1>1, <1>9, <2>1, <2>6, <2>8, <2>9, <2>10 DEF Leaves
  <2>12. StopsLiving(s)
    BY <1>1, <1>2, <1>4, <1>14, <2>1 DEF IsStop, BreaksAt, OwnBlock, StopsLiving
  <2> QED BY <1>1, <2>1, <2>11, <2>12
<1>15. CASE IsBlock(s)
  <2>1. s \in 1 .. n
    BY <1>1, <1>6
  <2>2. OwnBlock(s, level)
    BY <1>2, <1>4, <1>15, <2>1 DEF IsStop, BreaksAt, KeepsLiving
  <2>3. s = b
    <3> SUFFICES ASSUME s # b PROVE FALSE
      OBVIOUS
    <3>1. s \in b + 1 .. n
      BY <1>1, <1>6, <2>1
    <3>2. localuses[s].level > level
      BY <1>1, <1>5, <1>15, <3>1 DEF Opened
    <3> QED BY <1>1, <2>2, <3>2 DEF OwnBlock
  <2>4. s \in Reopened(s, level)
    BY <1>1, <1>12, <1>15, <2>1, <2>2 DEF OwnBlock
  <2>5. Popped(s, level) = s .. n
    BY <1>1, <1>11, <1>12, <1>13, <2>1, <2>4
  <2>6. Cardinality(s .. n) = n - s + 1
    <3>1. s \in Int /\ n \in Int
      BY <1>1, <2>1
    <3>2. Cardinality(s .. n) = IF s > n THEN 0 ELSE n - s + 1
      BY <3>1, FS_Interval
    <3> QED BY <1>1, <2>1, <3>2
  <2>7. localuses' = SubSeq(localuses, 1, s - 1)
    <3>1. n - Cardinality(Popped(s, level)) = s - 1
      BY <1>1, <2>1, <2>5, <2>6
    <3> QED BY <1>4, <3>1
  <2>8. curlocalbytes' = localuses[s].depth
    <3>1. PICK j \in Reopened(s, level) :
            /\ \A i \in Reopened(s, level) : j <= i
            /\ curlocalbytes' = localuses[j].depth
      BY <1>4, <2>4
    <3>2. j \in s .. n /\ j <= s
      BY <1>12, <2>4, <3>1
    <3> QED BY <1>1, <2>1, <3>1, <3>2
  <2>9. /\ curlocalbytes' \in Nat
        /\ curlocalbytes' <= curlocalbytes
        /\ \A i \in 1 .. s - 1 : localuses[i].depth <= curlocalbytes'
    BY <1>1, <1>2, <1>15, <2>1, <2>8 DEF Within, Ordered
  <2>10. \A v \in locals : v.level < level => v.depth <= curlocalbytes'
    BY <1>5, <2>3, <2>8 DEF Opened
  <2>11. \A i \in s .. n : IsTmp(i) => lastref[localuses[i].dag] <= seqid
    <3>1. \A i \in s .. n : i = s \/ i \in s + 1 .. n
      BY <1>1, <2>1
    <3> QED BY <1>2, <1>9, <1>15, <2>1, <3>1
  <2>12. Leaves(s - 1)
    BY <1>1, <1>10, <2>1, <2>3, <2>7, <2>9, <2>10, <2>11 DEF Leaves
  <2>13. StopsOwn(s - 1)
    BY <1>1, <2>1, <2>2, <2>8 DEF StopsOwn
  <2> QED BY <1>1, <2>1, <2>12, <2>13
<1> QED
  <2>1. s \in 1 .. n
    BY <1>1, <1>6
  <2> QED BY <1>2, <1>14, <1>15, <2>1

\* block_leave gives back the offset of its block, above what it keeps.
LEMMA BlockLeaveIInv ==
  ASSUME IInv, BlockLeave
  PROVE  IInv'
<1> USE DEF IInv
<1> DEFINE n == Len(localuses)
<1>1. /\ seqid \in Nat /\ level \in Nat
      /\ maxlocalbytes \in Nat /\ curlocalbytes \in Nat
      /\ lastref \in [Dags -> Nat]
      /\ inmemory \in [Dags -> BOOLEAN]
      /\ localuses \in Seq(Entries)
      /\ n \in Nat /\ n = Len(localuses)
      /\ DOMAIN localuses = 1 .. n
      /\ curlocalbytes <= maxlocalbytes
  BY Types DEF Within
<1>2. \A i \in 1 .. n : IsTmp(i) => localuses[i].dag \in Dags
  BY Types
<1>3. PICK m \in 0 .. n : Leaves(m)
  BY BlockLeaveLeaves
<1>4. /\ seqid < MaxSeq /\ seqid' = seqid + 1
      /\ level > 0 /\ level' = level - 1
      /\ locals' = {v \in locals : v.level < level}
      /\ UNCHANGED <<lastref, maxlocalbytes, inmemory, slot>>
  BY DEF BlockLeave, NextTriple
<1> HIDE DEF n
<1>5. /\ localuses' = SubSeq(localuses, 1, m)
      /\ curlocalbytes' \in Nat
      /\ curlocalbytes' <= curlocalbytes
      /\ \A i \in 1 .. m : localuses[i].depth <= curlocalbytes'
      /\ \A v \in locals : v.level < level => v.depth <= curlocalbytes'
  BY <1>3 DEF Leaves
<1>6. /\ \A l \in 1 .. level - 1 : \E i \in 1 .. m : Opened(l, i)
      /\ \A i \in m + 1 .. n : IsTmp(i) => lastref[localuses[i].dag] <= seqid
  BY <1>1, <1>3 DEF Leaves
<1>7. /\ localuses' \in Seq(Entries)
      /\ Len(localuses') = m
      /\ DOMAIN localuses' = 1 .. m
      /\ \A i \in 1 .. m : localuses'[i] = localuses[i]
  BY <1>1, <1>3, <1>5
<1>8. /\ m \in Nat
      /\ \A i \in 1 .. m : i \in 1 .. n
      /\ \A i \in 1 .. n : i \in 1 .. m \/ i \in m + 1 .. n
  BY <1>1, <1>3
<1>9. locals' \subseteq locals
  BY <1>4
<1>10. TypeOK'
  <2>1. \A i \in 1 .. m : IsTmp(i)' => localuses'[i].dag \in Dags
    BY <1>2, <1>7, <1>8 DEF IsTmp
  <2>2. \A v \in locals' : v \in [depth : Nat, size : Nat, level : Nat]
    BY <1>9 DEF TypeOK
  <2> QED BY <1>1, <1>4, <1>5, <1>7, <2>1, <2>2, FrameAssumption DEF TypeOK
<1>11. Ordered'
  <2> SUFFICES ASSUME NEW j \in 1 .. m, NEW i \in 1 .. j - 1
               PROVE  /\ IsBlock(j)' => localuses'[i].depth <= localuses'[j].depth
                      /\ IsTmp(j)' => localuses'[i].depth <= localuses'[j].depth - localuses'[j].size
    BY <1>7 DEF Ordered
  <2>1. i \in 1 .. m /\ j \in 1 .. n
    BY <1>8, i \in 1 .. j - 1, j \in 1 .. m
  <2>2. localuses'[i] = localuses[i] /\ localuses'[j] = localuses[j]
    BY <1>7, <2>1
  <2> QED BY <1>1, <2>1, <2>2 DEF Ordered, IsBlock, IsTmp
<1>12. Within'
  <2>1. \A i \in 1 .. m : IsTmp(i)' => localuses'[i].size <= localuses'[i].depth
    BY <1>1, <1>7, <1>8 DEF Within, IsTmp
  <2>2. \A v \in locals' : v.depth <= curlocalbytes' /\ v.size <= v.depth
    BY <1>4, <1>5 DEF Within
  <2>3. \A i \in 1 .. m : localuses'[i].depth <= curlocalbytes'
    BY <1>5, <1>7
  <2>4. curlocalbytes' <= maxlocalbytes
    BY <1>1, <1>5
  <2> QED BY <1>4, <1>7, <2>1, <2>2, <2>3, <2>4 DEF Within
<1>13. Owned'
  <2> SUFFICES ASSUME NEW d \in Dags, Live(d)'
               PROVE  \E i \in 1 .. m : /\ IsTmp(i)'
                                        /\ localuses'[i].dag = d
                                        /\ localuses'[i].depth = slot'[d]
                                        /\ DagSize[d] <= localuses'[i].size
    BY <1>7 DEF Owned
  <2>1. lastref[d] \in Nat /\ lastref[d] >= seqid + 1 /\ Live(d)
    BY <1>1, <1>4 DEF Live
  <2>2. PICK i \in 1 .. n : /\ IsTmp(i)
                            /\ localuses[i].dag = d
                            /\ localuses[i].depth = slot[d]
                            /\ DagSize[d] <= localuses[i].size
    BY <1>1, <2>1 DEF Owned
  <2>3. i \in 1 .. m
    BY <1>1, <1>6, <1>8, <2>1, <2>2
  <2>4. localuses'[i] = localuses[i] /\ IsTmp(i)'
    BY <1>7, <2>2, <2>3 DEF IsTmp
  <2> QED BY <1>4, <2>2, <2>3, <2>4
<1>14. Resident'
  <2> SUFFICES ASSUME NEW i \in 1 .. m, IsTmp(i)', lastref[localuses'[i].dag] >= seqid'
               PROVE  inmemory[localuses'[i].dag]
    BY <1>4, <1>7 DEF Resident
  <2>1. localuses'[i] = localuses[i] /\ IsTmp(i) /\ i \in 1 .. n
    BY <1>7, <1>8 DEF IsTmp
  <2>2. lastref[localuses[i].dag] \in Nat
    BY <1>1, <1>2, <2>1
  <2>3. lastref[localuses[i].dag] >= seqid
    BY <1>1, <1>4, <2>1, <2>2
  <2> QED BY <1>1, <2>1, <2>3 DEF Resident
<1>15. VarsApart'
  <2>1. \A v \in locals', i \in 1 .. m : IsTmp(i)' => Apart(v, localuses'[i])
    BY <1>1, <1>7, <1>8, <1>9 DEF VarsApart, IsTmp
  <2> QED BY <1>7, <1>9, <2>1 DEF VarsApart, Apart
<1>16. Nested'
  <2>1. ASSUME NEW l \in 1 .. level - 1
        PROVE  \E i \in DOMAIN localuses' : Opened(l, i)'
    <3>1. PICK i \in 1 .. m : Opened(l, i)
      BY <1>6
    <3>2. OwnBlock(i, l)'
      BY <1>7, <3>1 DEF Opened, OwnBlock, IsBlock
    <3>3. ASSUME NEW j \in i + 1 .. m, IsBlock(j)'
          PROVE  localuses'[j].level > l
      <4>1. j \in 1 .. m /\ j \in i + 1 .. n
        BY <1>1, <1>8, <3>1
      <4>2. IsBlock(j) /\ localuses'[j] = localuses[j]
        BY <1>7, <3>3, <4>1 DEF IsBlock
      <4> QED BY <1>1, <3>1, <4>1, <4>2 DEF Opened
    <3>4. \A v \in locals' : v.level < l => v.depth <= localuses'[i].depth
      BY <1>7, <1>9, <3>1 DEF Opened
    <3>5. Opened(l, i)'
      BY <1>7, <3>2, <3>3, <3>4 DEF Opened
    <3>6. i \in DOMAIN localuses'
      BY <1>7
    <3> QED BY <3>5, <3>6
  <2>2. \A v \in locals' : v.level <= level - 1
    BY <1>1, <1>4, Types
  <2> QED BY <1>4, <2>1, <2>2 DEF Nested
<1> QED BY <1>10, <1>11, <1>12, <1>13, <1>14, <1>15, <1>16

\* Every step of the code keeps the inductive invariant.
LEMMA NextIInv == IInv /\ [Next]_vars => IInv'
<1> SUFFICES ASSUME IInv, [Next]_vars PROVE IInv'
  OBVIOUS
<1>1. CASE OtherTriple
  BY <1>1, OtherTripleIInv
<1>2. CASE BlockEnter
  BY <1>2, BlockEnterIInv
<1>3. CASE BlockLeave
  BY <1>3, BlockLeaveIInv
<1>4. ASSUME NEW size \in VarSizes, LocalVariable(size) PROVE IInv'
  BY <1>4, LocalVariableIInv
<1>5. ASSUME NEW d \in Dags, AllocTemporarySpace(d) PROVE IInv'
  <2>1. CASE NewSlot(d)
    BY <1>5, <2>1, NewSlotIInv
  <2>2. CASE \E i \in DOMAIN localuses : ReuseSlot(d, i)
    BY <1>5, <2>2, ReuseSlotIInv
  <2> QED BY <1>5, <2>1, <2>2 DEF AllocTemporarySpace
<1>6. CASE UNCHANGED vars
  BY <1>6 DEF vars, IInv, TypeOK, Ordered, Within, Owned, Resident, VarsApart,
    Nested, Opened, OwnBlock, Live, Apart, IsBlock, IsTmp
<1> QED BY <1>1, <1>2, <1>3, <1>4, <1>5, <1>6 DEF Next

\* The frame's bookkeeping is well typed and keeps its inductive invariant.
THEOREM Inductive == Spec => []IInv
<1>1. Init => IInv
  BY InitIInv
<1>2. IInv /\ [Next]_vars => IInv'
  BY NextIInv
<1> QED BY <1>1, <1>2, PTL DEF Spec

-----------------------------------------------------------------------------
(* The properties of the runs.                                             *)

\* Type correctness of gen_context and of the nodes' locations.
THEOREM TypeCorrect == Spec => []TypeOK
<1>1. IInv => TypeOK
  BY DEF IInv
<1> QED BY <1>1, Inductive, PTL

\* Two entries whose places are listed one after the other do not meet.
LEMMA EntriesApart ==
  ASSUME IInv, NEW i \in DOMAIN localuses, NEW j \in DOMAIN localuses,
         i # j, IsTmp(i), IsTmp(j)
  PROVE  \/ localuses[i].depth <= localuses[j].depth - localuses[j].size
         \/ localuses[j].depth <= localuses[i].depth - localuses[i].size
<1>1. DOMAIN localuses = 1 .. Len(localuses) /\ Len(localuses) \in Nat
  BY Types DEF IInv
<1>2. CASE i < j
  BY <1>1, <1>2 DEF IInv, Ordered
<1>3. CASE j < i
  BY <1>1, <1>3 DEF IInv, Ordered
<1> QED BY <1>1, <1>2, <1>3

\* The order of the entries keeps the places of wanted values apart.
LEMMA IInvNoOverlap == IInv => NoOverlap
<1> SUFFICES ASSUME IInv PROVE NoOverlap
  OBVIOUS
<1> USE DEF IInv
<1>1. /\ DOMAIN localuses = 1 .. Len(localuses)
      /\ slot \in [Dags -> Nat]
      /\ \A i \in 1 .. Len(localuses) :
           localuses[i].depth \in Nat /\ localuses[i].size \in Nat
      /\ \A v \in locals : v.depth \in Nat /\ v.size \in Nat
  BY Types
<1>2. \A d \in Dags : DagSize[d] \in Nat
  BY FrameAssumption
<1>3. ASSUME NEW d \in Dags, NEW e \in Dags, d # e, Live(d), Live(e)
      PROVE  Apart(Place(d), Place(e))
  <2>1. PICK i \in DOMAIN localuses : /\ IsTmp(i) /\ localuses[i].dag = d
                                      /\ localuses[i].depth = slot[d]
                                      /\ DagSize[d] <= localuses[i].size
    BY <1>3 DEF Owned
  <2>2. PICK j \in DOMAIN localuses : /\ IsTmp(j) /\ localuses[j].dag = e
                                      /\ localuses[j].depth = slot[e]
                                      /\ DagSize[e] <= localuses[j].size
    BY <1>3 DEF Owned
  <2>3. i # j
    BY <1>3, <2>1, <2>2
  <2>4. \/ localuses[i].depth <= localuses[j].depth - localuses[j].size
        \/ localuses[j].depth <= localuses[i].depth - localuses[i].size
    BY <2>1, <2>2, <2>3, EntriesApart
  <2> QED BY <1>1, <1>2, <2>1, <2>2, <2>4 DEF Apart, Place
<1>4. ASSUME NEW d \in Dags, NEW v \in locals, Live(d)
      PROVE  Apart(Place(d), v)
  <2>1. PICK i \in DOMAIN localuses : /\ IsTmp(i) /\ localuses[i].dag = d
                                      /\ localuses[i].depth = slot[d]
                                      /\ DagSize[d] <= localuses[i].size
    BY <1>4 DEF Owned
  <2>2. Apart(v, localuses[i])
    BY <2>1 DEF VarsApart
  <2> QED BY <1>1, <1>2, <2>1, <2>2 DEF Apart, Place
<1> QED BY <1>3, <1>4 DEF NoOverlap, VarsApart

\* No two values still wanted, and no variable in scope, share a byte, however
\* many values, blocks and triples the function has.
THEOREM FrameSafe == Spec => []NoOverlap
BY IInvNoOverlap, Inductive, PTL

\* Every entry lies within the largest extent the frame ever had.
LEMMA IInvFrameReserved == IInv => FrameReserved
<1> SUFFICES ASSUME IInv PROVE FrameReserved
  OBVIOUS
<1> USE DEF IInv
<1>1. /\ DOMAIN localuses = 1 .. Len(localuses)
      /\ slot \in [Dags -> Nat]
      /\ curlocalbytes \in Nat /\ maxlocalbytes \in Nat
      /\ \A i \in 1 .. Len(localuses) :
           localuses[i].depth \in Nat /\ localuses[i].size \in Nat
      /\ \A v \in locals : v.depth \in Nat /\ v.size \in Nat
  BY Types
<1>2. ASSUME NEW d \in Dags, Live(d)
      PROVE  slot[d] <= maxlocalbytes /\ slot[d] >= DagSize[d]
  <2>1. PICK i \in DOMAIN localuses : /\ IsTmp(i) /\ localuses[i].dag = d
                                      /\ localuses[i].depth = slot[d]
                                      /\ DagSize[d] <= localuses[i].size
    BY <1>2 DEF Owned
  <2>2. DagSize[d] \in Nat
    BY FrameAssumption
  <2> QED BY <1>1, <2>1, <2>2 DEF Within
<1>3. ASSUME NEW v \in locals
      PROVE  v.depth <= maxlocalbytes /\ v.depth >= v.size
  BY <1>1 DEF Within
<1> QED BY <1>2, <1>3 DEF FrameReserved

\* The bytes the prologue reserves cover every place in use.
THEOREM PrologueSuffices == Spec => []FrameReserved
BY IInvFrameReserved, Inductive, PTL

\* A value still wanted is never moved, nor its slot taken.
THEOREM SlotsStable == Spec => SlotStable
<1> DEFINE Stable == \A d \in Dags : Live(d) /\ lastref[d] >= seqid' =>
                       inmemory'[d] /\ slot'[d] = slot[d]
<1>1. IInv /\ [Next]_vars => [Stable]_vars
  <2> SUFFICES ASSUME IInv, Next, NEW d \in Dags, Live(d), lastref[d] >= seqid'
               PROVE  inmemory'[d] /\ slot'[d] = slot[d]
    OBVIOUS
  <2>1. /\ lastref \in [Dags -> Nat] /\ seqid \in Nat
        /\ inmemory \in [Dags -> BOOLEAN] /\ slot \in [Dags -> Nat]
        /\ DOMAIN localuses = 1 .. Len(localuses)
        /\ \A i \in 1 .. Len(localuses) : IsTmp(i) => localuses[i].dag \in Dags
    BY Types DEF IInv
  <2>2. ASSUME UNCHANGED <<inmemory, slot>>
        PROVE  inmemory'[d] /\ slot'[d] = slot[d]
    BY <2>2 DEF Live
  <2>3. ASSUME NEW e \in Dags, AllocTemporarySpace(e)
        PROVE  inmemory'[d] /\ slot'[d] = slot[d]
    <3>1. e # d /\ seqid' = seqid /\ lastref[d] >= seqid /\ inmemory[d]
      BY <2>3 DEF AllocTemporarySpace, Live
    <3>2. CASE NewSlot(e)
      BY <2>1, <3>1, <3>2 DEF NewSlot
    <3>3. ASSUME NEW i \in DOMAIN localuses, ReuseSlot(e, i)
          PROVE  inmemory'[d] /\ slot'[d] = slot[d]
      <4>1. localuses[i].dag \in Dags /\ localuses[i].dag # d
        BY <2>1, <3>1, <3>3 DEF ReuseSlot, Fits
      <4> QED BY <2>1, <3>1, <3>3, <4>1 DEF ReuseSlot
    <3> QED BY <2>3, <3>2, <3>3 DEF AllocTemporarySpace
  <2> QED BY <2>2, <2>3 DEF Next, OtherTriple, BlockEnter, BlockLeave, LocalVariable
<1> QED BY <1>1, Inductive, PTL DEF Spec, SlotStable

\* A block that no wanted value outlives gives back what was allocated since
\* it was entered, for any nesting.
THEOREM BlocksReclaimed == Spec => LeaveReclaims
<1> DEFINE Reclaims == level' < level /\ (\A d \in Dags : inmemory[d] => lastref[d] <= seqid) =>
                         \E i \in DOMAIN localuses :
                           /\ OwnBlock(i, level)
                           /\ localuses' = SubSeq(localuses, 1, i - 1)
                           /\ curlocalbytes' = localuses[i].depth
<1>1. IInv /\ [Next]_vars => [Reclaims]_vars
  <2> SUFFICES ASSUME IInv, Next, level' < level,
                      \A d \in Dags : inmemory[d] => lastref[d] <= seqid
               PROVE  \E i \in DOMAIN localuses :
                        /\ OwnBlock(i, level)
                        /\ localuses' = SubSeq(localuses, 1, i - 1)
                        /\ curlocalbytes' = localuses[i].depth
    OBVIOUS
  <2>1. /\ level \in Nat /\ seqid \in Nat /\ lastref \in [Dags -> Nat]
        /\ DOMAIN localuses = 1 .. Len(localuses)
        /\ \A i \in 1 .. Len(localuses) : IsTmp(i) => localuses[i].dag \in Dags
    BY Types DEF IInv
  <2>2. BlockLeave
    BY <2>1 DEF Next, OtherTriple, BlockEnter, LocalVariable, AllocTemporarySpace
  <2>3. PICK m \in 0 .. Len(localuses) : Leaves(m) /\ (StopsLiving(m) \/ StopsOwn(m))
    BY <2>2, BlockLeaveLeaves
  <2>4. ~StopsLiving(m)
    <3> SUFFICES ASSUME m \in DOMAIN localuses, IsTmp(m), lastref[localuses[m].dag] > seqid
                 PROVE  FALSE
      BY DEF StopsLiving, KeepsLiving
    <3>1. localuses[m].dag \in Dags /\ lastref[localuses[m].dag] \in Nat
      BY <2>1
    <3>2. inmemory[localuses[m].dag]
      BY <2>1, <3>1 DEF IInv, Resident
    <3> QED BY <2>1, <3>1, <3>2
  <2> QED BY <2>3, <2>4 DEF StopsOwn, Leaves
<1> QED BY <1>1, Inductive, PTL DEF Spec, LeaveReclaims
=============================================================================
