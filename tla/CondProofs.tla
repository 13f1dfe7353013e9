----------------------------- MODULE CondProofs -----------------------------
(* Proofs about CondStack: its invariants hold for stacks of any depth, and *)
(* it implements CondGroups.                                                *)
EXTENDS CondStack, WellFoundedInduction, TLAPS

n == Len(condstack)

\* The blocks of a group agree on the parent flag.
SameParent ==
  \A i, j \in DOMAIN condstack :
    SameGroup(i, j) => (condstack[i].parent <=> condstack[j].parent)

\* A block without the parent flag is inside groups that are in their taken
\* branch.
OuterTaken ==
  \A j \in DOMAIN condstack : ~condstack[j].parent =>
    \A i \in 1 .. j - 1 : IsOpener(i + 1) => ~condstack[i].parent /\ ~condstack[i].self

\* A block is skipped for one reason.
OneReason == \A i \in DOMAIN condstack : ~(condstack[i].parent /\ condstack[i].self)

CInv == CSTypeOK /\ OneBranch /\ ElseLast /\ SameParent /\ OuterTaken /\ OneReason

-----------------------------------------------------------------------------
\* The empty stack has no block to say anything of.
LEMMA InitCInv == CSInit => CInv
  BY MaxBlocksAssumption DEF CSInit, CInv, CSTypeOK, OneBranch, ElseLast, SameParent,
     OuterTaken, OneReason

\* A row that leaves the stack alone keeps the invariant.
LEMMA SameStackCInv ==
  ASSUME CInv, UNCHANGED condstack, verdict' \in {"kept", "skipped", "error", "done"}
  PROVE  CInv'
  BY DEF CInv, CSTypeOK, OneBranch, ElseLast, SameParent, OuterTaken, OneReason,
     SameGroup, IsOpener

\* What a push does to the stack.
LEMMA PushFact ==
  ASSUME CSTypeOK, NEW c \in Ctrls, NEW p \in BOOLEAN, NEW s \in BOOLEAN,
         Push(c, p, s)
  PROVE  /\ n \in Nat /\ n' = n + 1 /\ n' <= MaxBlocks
         /\ DOMAIN condstack = 1 .. n /\ DOMAIN condstack' = 1 .. n + 1
         /\ \A i \in 1 .. n : condstack'[i] = condstack[i]
         /\ condstack'[n + 1] = Block(c, p, s)
         /\ condstack' \in Seq(Blocks)
         /\ verdict' = "skipped"
  <1>1. Block(c, p, s) \in Blocks
    BY DEF Block, Blocks
  <1> QED BY <1>1, MaxBlocksAssumption DEF CSTypeOK, Push, n

\* A pushed block keeps the invariant if it opens a group or follows a block
\* that is not an #else with a taken sibling only when it fails itself, and
\* its parent flag is the failure of what is around it.
LEMMA PushCInv ==
  ASSUME CInv, NEW c \in Ctrls, NEW p \in BOOLEAN, NEW s \in BOOLEAN,
         Push(c, p, s), ~(p /\ s),
         c = "if" => (p <=> ~Passes),
         c # "if" => Matches /\ (p <=> ~OuterPasses),
         c # "if" /\ ~p /\ SiblingPasses => s
  PROVE  CInv'
  <1> USE DEF CInv
  <1>1. /\ n \in Nat /\ n' = n + 1 /\ n' <= MaxBlocks
        /\ DOMAIN condstack = 1 .. n /\ DOMAIN condstack' = 1 .. n + 1
        /\ \A i \in 1 .. n : condstack'[i] = condstack[i]
        /\ condstack'[n + 1] = Block(c, p, s)
        /\ condstack' \in Seq(Blocks)
        /\ verdict' = "skipped"
    BY PushFact
  <1>2. /\ condstack'[n + 1].ctrl = c
        /\ condstack'[n + 1].parent = p
        /\ condstack'[n + 1].self = s
    BY <1>1 DEF Block
  <1>3. condstack = <<>> <=> n = 0
    BY DEF CSTypeOK, n
  <1>4. n # 0 => /\ Top = condstack[n]
                 /\ n \in 1 .. n
    BY <1>1 DEF Top, n
  <1>5. ASSUME NEW i \in 1 .. n + 1, NEW j \in 1 .. n + 1, SameGroup(i, j)'
        PROVE  /\ i \in 1 .. n
               /\ j # n + 1 => j \in 1 .. n /\ SameGroup(i, j)
               /\ j = n + 1 => /\ c # "if" /\ n # 0 /\ InGroup(i)
                               /\ i # n => SameGroup(i, n)
    <2>1. i < j /\ \A k \in i + 1 .. j : condstack'[k].ctrl # "if"
      BY <1>5 DEF SameGroup, IsOpener
    <2>2. i \in 1 .. n
      BY <2>1, <1>1
    <2>3. ASSUME j # n + 1 PROVE j \in 1 .. n /\ SameGroup(i, j)
      BY <2>1, <2>2, <2>3, <1>1 DEF SameGroup, IsOpener
    <2>4. ASSUME j = n + 1
          PROVE  c # "if" /\ n # 0 /\ InGroup(i) /\ (i # n => SameGroup(i, n))
      <3>1. condstack'[n + 1].ctrl # "if"
        BY <2>1, <2>2, <2>4, <1>1
      <3>2. \A k \in i + 1 .. n : condstack[k].ctrl # "if"
        BY <2>1, <2>2, <2>4, <1>1
      <3>3. c # "if" /\ n # 0
        BY <3>1, <2>2, <1>1, <1>2
      <3>4. InGroup(i)
        <4>1. \A k \in i + 1 .. Len(condstack) : condstack[k].ctrl # "if"
          BY <3>2 DEF n
        <4> QED BY <4>1, <2>2, <1>1 DEF InGroup, IsOpener
      <3>5. i # n => i < n
        BY <2>2, <1>1
      <3> QED BY <3>2, <3>3, <3>4, <3>5 DEF SameGroup, IsOpener
    <2> QED BY <2>2, <2>3, <2>4
  <1>6. CSTypeOK'
    <2>1. n' = Len(condstack')
      BY DEF n
    <2>2. condstack'[1].ctrl = "if"
      <3>1. CASE n = 0
        BY <3>1, <1>1, <1>2, <1>3 DEF Matches, Ctrls
      <3>2. CASE n # 0
        BY <3>2, <1>1, <1>3 DEF CSTypeOK, IsOpener
      <3> QED BY <3>1, <3>2
    <2> QED BY <1>1, <2>1, <2>2 DEF CSTypeOK, IsOpener
  <1>7. OneBranch'
    <2> SUFFICES ASSUME NEW i \in 1 .. n + 1, NEW j \in 1 .. n + 1, SameGroup(i, j)',
                        ~condstack'[i].parent
                 PROVE  condstack'[i].self \/ condstack'[j].self
      BY <1>1 DEF OneBranch
    <2>1. CASE j # n + 1
      BY <2>1, <1>5, <1>1 DEF OneBranch
    <2>2. CASE j = n + 1
      <3>1. c # "if" /\ n # 0 /\ InGroup(i) /\ i \in 1 .. n /\ (i # n => SameGroup(i, n))
        BY <2>2, <1>5
      <3>2. condstack'[i] = condstack[i]
        BY <3>1, <1>1
      <3>3. ~condstack[n].parent
        BY <3>1, <3>2, <1>1, <1>4 DEF SameParent
      <3>4. ~p
        BY <3>1, <3>3, <1>3, <1>4 DEF OuterPasses
      <3>5. condstack[i].self \/ SiblingPasses
        BY <3>1, <1>1 DEF SiblingPasses
      <3> QED BY <3>1, <3>2, <3>4, <3>5, <2>2, <1>2
    <2> QED BY <2>1, <2>2
  <1>8. ElseLast'
    <2> SUFFICES ASSUME NEW i \in 1 .. n + 1, NEW j \in 1 .. n + 1, SameGroup(i, j)'
                 PROVE  condstack'[i].ctrl # "else"
      BY <1>1 DEF ElseLast
    <2>1. CASE j # n + 1
      BY <2>1, <1>5, <1>1 DEF ElseLast
    <2>2. CASE j = n + 1
      <3>1. c # "if" /\ n # 0 /\ i \in 1 .. n /\ (i # n => SameGroup(i, n))
        BY <2>2, <1>5
      <3>2. condstack[n].ctrl # "else"
        BY <3>1, <1>4 DEF Matches
      <3> QED BY <3>1, <3>2, <1>1, <1>4 DEF ElseLast
    <2> QED BY <2>1, <2>2
  <1>9. SameParent'
    <2> SUFFICES ASSUME NEW i \in 1 .. n + 1, NEW j \in 1 .. n + 1, SameGroup(i, j)'
                 PROVE  condstack'[i].parent <=> condstack'[j].parent
      BY <1>1 DEF SameParent
    <2>1. CASE j # n + 1
      BY <2>1, <1>5, <1>1 DEF SameParent
    <2>2. CASE j = n + 1
      <3>1. c # "if" /\ n # 0 /\ i \in 1 .. n /\ (i # n => SameGroup(i, n))
        BY <2>2, <1>5
      <3>2. condstack[n].parent <=> p
        BY <3>1, <1>3, <1>4 DEF OuterPasses
      <3>3. condstack[i].parent <=> condstack[n].parent
        BY <3>1, <1>1, <1>4 DEF SameParent
      <3> QED BY <3>1, <3>2, <3>3, <2>2, <1>1, <1>2
    <2> QED BY <2>1, <2>2
  <1>10. OuterTaken'
    <2> SUFFICES ASSUME NEW j \in 1 .. n + 1, ~condstack'[j].parent,
                        NEW i \in 1 .. j - 1, IsOpener(i + 1)'
                 PROVE  ~condstack'[i].parent /\ ~condstack'[i].self
      BY <1>1 DEF OuterTaken
    <2>1. i \in 1 .. n /\ condstack'[i] = condstack[i]
      BY <1>1
    <2>2. CASE j # n + 1
      BY <2>1, <2>2, <1>1 DEF OuterTaken, IsOpener
    <2>3. CASE j = n + 1
      <3>1. ~condstack[n].parent /\ n \in 1 .. n
        BY <2>1, <2>3, <1>2, <1>3, <1>4 DEF OuterPasses, Passes
      <3>2. CASE i = n
        BY <3>2, <2>1, <2>3, <1>2, <1>3, <1>4 DEF IsOpener, Passes
      <3>3. CASE i # n
        <4>1. i \in 1 .. n - 1 /\ i + 1 \in 1 .. n
          BY <3>3, <2>1, <1>1
        <4>2. IsOpener(i + 1)
          BY <4>1, <1>1 DEF IsOpener
        <4> QED BY <4>1, <4>2, <3>1, <2>1, <1>1 DEF OuterTaken
      <3> QED BY <3>2, <3>3
    <2> QED BY <2>2, <2>3
  <1>11. OneReason'
    BY <1>1, <1>2 DEF OneReason
  <1> QED BY <1>6, <1>7, <1>8, <1>9, <1>10, <1>11

\* What is left of the stack after #endif keeps the invariant.
LEMMA EndifCInv ==
  ASSUME CInv, NEW bad \in BOOLEAN, EndifHandler(bad)
  PROVE  CInv'
  <1>1. CASE Error
    BY <1>1, SameStackCInv DEF Error
  <1>2. ASSUME NEW i \in DOMAIN condstack, condstack' = SubSeq(condstack, 1, i - 1),
               verdict' = "skipped"
        PROVE  CInv'
    <2>1. /\ condstack \in Seq(Blocks) /\ n \in Nat /\ n <= MaxBlocks
          /\ DOMAIN condstack = 1 .. n /\ i \in 1 .. n
      BY DEF CInv, CSTypeOK, n
    <2>2. /\ condstack' \in Seq(Blocks) /\ Len(condstack') = i - 1
          /\ DOMAIN condstack' = 1 .. i - 1
          /\ \A k \in 1 .. i - 1 : condstack'[k] = condstack[k]
      BY <1>2, <2>1
    <2>3. CSTypeOK'
      BY <1>2, <2>1, <2>2, MaxBlocksAssumption DEF CInv, CSTypeOK, IsOpener
    <2>4. ASSUME NEW k \in 1 .. i - 1, NEW j \in 1 .. i - 1, SameGroup(k, j)'
          PROVE  SameGroup(k, j)
      BY <2>1, <2>2, <2>4 DEF SameGroup, IsOpener
    <2>5. OneBranch' /\ ElseLast' /\ SameParent'
      BY <2>1, <2>2, <2>4 DEF CInv, OneBranch, ElseLast, SameParent
    <2>6. OuterTaken'
      BY <2>1, <2>2 DEF CInv, OuterTaken, IsOpener
    <2>7. OneReason'
      BY <2>1, <2>2 DEF CInv, OneReason
    <2> QED BY <2>3, <2>5, <2>6, <2>7 DEF CInv
  <1> QED BY <1>1, <1>2 DEF EndifHandler

\* Every row keeps the invariant.
LEMMA NextCInv == CInv /\ [CSNext]_csvars => CInv'
  <1> SUFFICES ASSUME CInv, [CSNext]_csvars PROVE CInv'
    OBVIOUS
  <1>1. CASE Error
    BY <1>1, SameStackCInv DEF Error
  <1>2. ASSUME NEW cond \in Conds, IfHandler(cond) PROVE CInv'
    <2>1. CASE Passes /\ Push("if", FALSE, cond = "false")
      BY <2>1, PushCInv DEF Ctrls
    <2>2. CASE ~Passes /\ Push("if", TRUE, FALSE)
      BY <2>2, PushCInv DEF Ctrls
    <2> QED BY <1>1, <1>2, <2>1, <2>2 DEF IfHandler
  <1>3. ASSUME NEW cond \in Conds, ElifHandler(cond) PROVE CInv'
    <2>1. CASE Matches /\ ~OuterPasses /\ Push("elif", TRUE, FALSE)
      BY <2>1, PushCInv DEF Ctrls
    <2>2. CASE Matches /\ OuterPasses /\ SiblingPasses /\ Push("elif", FALSE, TRUE)
      BY <2>2, PushCInv DEF Ctrls
    <2>3. CASE Matches /\ OuterPasses /\ ~SiblingPasses /\ Push("elif", FALSE, cond = "false")
      BY <2>3, PushCInv DEF Ctrls
    <2> QED BY <1>1, <1>3, <2>1, <2>2, <2>3 DEF ElifHandler
  <1>4. ASSUME NEW bad \in BOOLEAN, ElseHandler(bad) PROVE CInv'
    <2>1. CASE Matches /\ ~OuterPasses /\ Push("else", TRUE, FALSE)
      BY <2>1, PushCInv DEF Ctrls
    <2>2. CASE Matches /\ OuterPasses /\ Push("else", FALSE, SiblingPasses)
      <3>1. SiblingPasses \in BOOLEAN
        BY DEF SiblingPasses
      <3> QED BY <3>1, <2>2, PushCInv DEF Ctrls
    <2> QED BY <1>1, <1>4, <2>1, <2>2 DEF ElseHandler
  <1>5. ASSUME NEW bad \in BOOLEAN, EndifHandler(bad) PROVE CInv'
    BY <1>5, EndifCInv
  <1>6. ASSUME NEW bad \in BOOLEAN, OtherRow(bad) PROVE CInv'
    BY <1>6, SameStackCInv DEF OtherRow
  <1>7. CASE EndOfFile
    BY <1>7, SameStackCInv DEF EndOfFile
  <1>8. CASE UNCHANGED csvars
    <2>1. verdict' \in {"kept", "skipped", "error", "done"}
      BY <1>8 DEF csvars, CInv, CSTypeOK
    <2> QED BY <1>8, <2>1, SameStackCInv DEF csvars
  <1>9. CASE SeenBefore
    BY <1>9, SameStackCInv DEF SeenBefore
  <1> QED BY <1>2, <1>3, <1>4, <1>5, <1>6, <1>7, <1>8, <1>9 DEF CSNext

\* All lines around a kept line are kept: AllTaken is OuterTaken at the top.
LEMMA CInvAllTaken == CInv => AllTaken
  <1> SUFFICES ASSUME CInv, Passes, NEW i \in DOMAIN condstack,
                      i = Len(condstack) \/ IsOpener(i + 1)
               PROVE  ~condstack[i].parent /\ ~condstack[i].self
    BY DEF AllTaken
  <1>1. /\ n \in Nat /\ DOMAIN condstack = 1 .. n /\ n # 0 /\ n = Len(condstack)
        /\ Top = condstack[n]
    BY DEF CInv, CSTypeOK, n, Top
  <1>2. ~condstack[n].parent /\ ~condstack[n].self
    BY <1>1 DEF Passes
  <1>3. CASE i = n
    BY <1>2, <1>3
  <1>4. CASE i # n
    <2>1. i \in 1 .. n - 1 /\ n \in 1 .. n
      BY <1>1, <1>4
    <2> QED BY <1>1, <1>2, <1>4, <2>1 DEF CInv, OuterTaken
  <1> QED BY <1>3, <1>4

-----------------------------------------------------------------------------
\* The inductive invariant holds in every run, for stacks of any depth.
THEOREM CondInductive == CSSpec => []CInv
  BY InitCInv, NextCInv, PTL DEF CSSpec

\* The stack of conditions keeps its types and its bound.
THEOREM CondTypeCorrect == CSSpec => []CSTypeOK
  <1>1. CInv => CSTypeOK
    BY DEF CInv
  <1> QED BY <1>1, CondInductive, PTL

\* In each #if group at most one branch is taken.
THEOREM CondOneBranch == CSSpec => []OneBranch
  <1>1. CInv => OneBranch
    BY DEF CInv
  <1> QED BY <1>1, CondInductive, PTL

\* Lines are kept only inside groups that are all in their taken branch.
THEOREM CondAllTaken == CSSpec => []AllTaken
  BY CInvAllTaken, CondInductive, PTL

\* Nothing follows #else in its group.
THEOREM CondElseLast == CSSpec => []ElseLast
  <1>1. CInv => ElseLast
    BY DEF CInv
  <1> QED BY <1>1, CondInductive, PTL

-----------------------------------------------------------------------------
(* CondStack implements CondGroups.                                        *)

Mapped == [i \in Openers |-> GroupOf(i)]

\* A set of naturals has a least element.
LEMMA LeastFact ==
  ASSUME NEW S \in SUBSET Nat, S # {}
  PROVE  \E m \in S : \A k \in S : m <= k
  <1>1. PICK m \in S : \A k \in S : <<k, m>> \notin OpToRel(<, Nat)
    BY NatLessThanWellFounded, WFMin
  <1>2. \A k \in S : ~(k < m)
    BY <1>1 DEF OpToRel
  <1> QED BY <1>2

\* Shape of the stack, in the terms the proofs below use.
LEMMA StackFact ==
  ASSUME CSTypeOK
  PROVE  /\ n \in Nat /\ n = Len(condstack) /\ DOMAIN condstack = 1 .. n
         /\ Openers \subseteq 1 .. n
         /\ condstack = <<>> <=> n = 0
         /\ n # 0 => Top = condstack[n] /\ n \in 1 .. n /\ 1 \in Openers
         /\ \A i \in 1 .. n : condstack[i] \in Blocks
  BY DEF CSTypeOK, Openers, Top, n

\* A stack that is not empty has an innermost #if.
LEMMA InnermostFact ==
  ASSUME CSTypeOK, condstack # <<>>
  PROVE  \E o \in Openers : InGroup(o) /\ (\A h \in Openers : h <= o)
  <1> DEFINE S == {n - i : i \in Openers}
  <1>1. S \in SUBSET Nat /\ S # {}
    BY StackFact
  <1>2. PICK m \in S : \A k \in S : m <= k
    BY <1>1, LeastFact
  <1>3. PICK o \in Openers : m = n - o
    BY <1>2
  <1>4. \A h \in Openers : h <= o
    <2> SUFFICES ASSUME NEW h \in Openers PROVE h <= o
      OBVIOUS
    <2>1. n - o <= n - h
      BY <1>2, <1>3
    <2>2. n \in Int /\ o \in Int /\ h \in Int
      BY StackFact
    <2> QED BY <2>1, <2>2
  <1>5. \A j \in o + 1 .. Len(condstack) : ~IsOpener(j)
    <2> SUFFICES ASSUME NEW j \in o + 1 .. Len(condstack), IsOpener(j) PROVE FALSE
      OBVIOUS
    <2>1. n \in Nat /\ o \in 1 .. n /\ j \in o + 1 .. n /\ DOMAIN condstack = 1 .. n
      BY StackFact
    <2>2. j \in Openers
      BY <2>1 DEF Openers
    <2> QED BY <1>4, <2>1, <2>2
  <1>6. InGroup(o)
    BY <1>5 DEF InGroup, Openers
  <1> QED BY <1>4, <1>6

\* A group ends in one block.
LEMMA LastUnique ==
  ASSUME CSTypeOK, NEW i \in Openers, NEW j, NEW k, LastOf(i, j), LastOf(i, k)
  PROVE  j = k
  <1>1. n \in Nat /\ n = Len(condstack) /\ DOMAIN condstack = 1 .. n
        /\ i \in 1 .. n /\ j \in 1 .. n /\ k \in 1 .. n
    BY StackFact DEF LastOf
  <1>2. ASSUME NEW x \in 1 .. n, NEW y \in 1 .. n, LastOf(i, x), LastOf(i, y), x < y
        PROVE  FALSE
    <2>1. IsOpener(x + 1) /\ i <= x
      BY <1>1, <1>2 DEF LastOf, SameGroup
    <2>2. x + 1 \in i + 1 .. y /\ SameGroup(i, y)
      BY <1>1, <1>2, <2>1 DEF LastOf
    <2> QED BY <2>1, <2>2 DEF SameGroup
  <1>3. ~(j < k) /\ ~(k < j)
    BY <1>1, <1>2
  <1> QED BY <1>1, <1>3

\* The group of an #if whose last block is known.
LEMMA GroupFact ==
  ASSUME CSTypeOK, NEW i \in Openers, NEW j, LastOf(i, j)
  PROVE  GroupOf(i) = [enclosed |-> ~condstack[i].parent,
                       branch |-> BranchOf(i, j),
                       closed |-> condstack[j].ctrl = "else"]
  <1>1. j \in DOMAIN condstack
    BY DEF LastOf
  <1>2. (CHOOSE k \in DOMAIN condstack : LastOf(i, k)) = j
    BY <1>1, LastUnique
  <1> QED BY <1>2 DEF GroupOf

\* Every group has a last block.
LEMMA LastExists ==
  ASSUME CSTypeOK, NEW i \in Openers
  PROVE  \E j \in DOMAIN condstack : LastOf(i, j)
  <1>1. n \in Nat /\ n = Len(condstack) /\ DOMAIN condstack = 1 .. n /\ i \in 1 .. n
    BY StackFact
  <1> DEFINE S == {j \in i .. n : j = n \/ IsOpener(j + 1)}
  <1>2. S \in SUBSET Nat /\ S # {}
    <2>1. n \in S
      BY <1>1
    <2> QED BY <1>1, <2>1
  <1>3. PICK j \in S : \A k \in S : j <= k
    BY <1>2, LeastFact
  <1>4. j \in 1 .. n /\ i <= j
    BY <1>1, <1>3
  <1>5. ASSUME NEW k \in i + 1 .. j PROVE ~IsOpener(k)
    <2>1. k - 1 \in i .. n /\ k - 1 < j /\ (k - 1) + 1 = k
      BY <1>1, <1>4
    <2>2. k - 1 \notin S
      BY <1>3, <2>1, <1>4
    <2> QED BY <2>1, <2>2
  <1>6. i = j \/ SameGroup(i, j)
    BY <1>1, <1>4, <1>5 DEF SameGroup
  <1> QED BY <1>1, <1>3, <1>4, <1>6 DEF LastOf

GroupIs(i, j) ==
  GroupOf(i) = [enclosed |-> ~condstack[i].parent,
                branch |-> BranchOf(i, j),
                closed |-> condstack[j].ctrl = "else"]

GroupsKnown ==
  CSTypeOK => \A i \in Openers : \A j \in DOMAIN condstack :
                LastOf(i, j) => GroupIs(i, j)

\* GroupFact as a formula, which can be primed.
LEMMA GroupsKnownHolds == GroupsKnown
  BY GroupFact DEF GroupsKnown, GroupIs

\* The innermost group says what the top of the stack says.
LEMMA TopGroup ==
  ASSUME CInv, condstack # <<>>
  PROVE  \E o \in Openers :
           /\ LastOf(o, n) /\ IsOpener(o)
           /\ \A h \in Openers : h <= o
           /\ \A i \in DOMAIN condstack : InGroup(i) <=> o <= i
           /\ GroupIs(o, n)
           /\ condstack[o].parent <=> Top.parent
           /\ Top.parent => BranchOf(o, n) = "taking"
           /\ ~Top.parent => (BranchOf(o, n) = "taking" <=> ~Top.self)
           /\ ~Top.parent => (BranchOf(o, n) = "seeking" <=> ~SiblingPasses)
  <1>1. /\ n \in Nat /\ n = Len(condstack) /\ DOMAIN condstack = 1 .. n
        /\ Openers \subseteq 1 .. n /\ n # 0 /\ Top = condstack[n] /\ n \in 1 .. n
    BY StackFact DEF CInv
  <1>2. PICK o \in Openers : InGroup(o) /\ (\A h \in Openers : h <= o)
    BY InnermostFact DEF CInv
  <1>3. IsOpener(o) /\ o \in 1 .. n
    BY <1>1 DEF Openers
  <1>4. \A k \in o + 1 .. n : ~IsOpener(k)
    BY <1>1, <1>2 DEF InGroup
  <1>5. o = n \/ SameGroup(o, n)
    BY <1>1, <1>3, <1>4 DEF SameGroup
  <1>6. LastOf(o, n)
    BY <1>1, <1>5 DEF LastOf
  <1>7. ASSUME NEW i \in DOMAIN condstack PROVE InGroup(i) <=> o <= i
    <2>1. ASSUME o <= i PROVE InGroup(i)
      <3>1. \A k \in i + 1 .. n : k \in o + 1 .. n
        BY <2>1, <1>1, <1>3
      <3> QED BY <3>1, <1>1, <1>4 DEF InGroup
    <2>2. ASSUME ~(o <= i) PROVE ~InGroup(i)
      <3>1. o \in i + 1 .. Len(condstack)
        BY <2>2, <1>1, <1>3
      <3> QED BY <3>1, <1>3 DEF InGroup
    <2> QED BY <2>1, <2>2
  <1>8. condstack[o].parent <=> Top.parent
    BY <1>1, <1>3, <1>5 DEF CInv, SameParent
  <1>9. GroupIs(o, n)
    BY <1>1, <1>6, GroupsKnownHolds DEF GroupsKnown, CInv
  <1>10. Top.parent => BranchOf(o, n) = "taking"
    BY <1>8 DEF BranchOf
  <1>11. ~Top.parent => (BranchOf(o, n) = "taking" <=> ~Top.self)
    BY <1>1, <1>8 DEF BranchOf
  <1>12. SiblingPasses <=> \E k \in o .. n : ~condstack[k].self
    <2>1. \A k : k \in o .. n <=> k \in 1 .. n /\ o <= k
      BY <1>1, <1>3
    <2> QED BY <2>1, <1>1, <1>7 DEF SiblingPasses
  <1>13. ~Top.parent => (BranchOf(o, n) = "seeking" <=> ~SiblingPasses)
    <2>1. n \in o .. n
      BY <1>1, <1>3
    <2> QED BY <2>1, <1>1, <1>8, <1>12 DEF BranchOf
  <1> QED BY <1>2, <1>3, <1>6, <1>7, <1>8, <1>9, <1>10, <1>11, <1>13

\* A group whose last block stays where it is is not changed by a push.
LEMMA PushKeepsGroup ==
  ASSUME CInv, CInv', NEW c \in Ctrls, NEW p \in BOOLEAN, NEW s \in BOOLEAN,
         Push(c, p, s), NEW h \in Openers,
         NEW j \in DOMAIN condstack, LastOf(h, j), j # n \/ c = "if"
  PROVE  h \in Openers' /\ GroupOf(h)' = GroupOf(h)
  <1>1. /\ n \in Nat /\ n = Len(condstack) /\ n' = n + 1 /\ n' = Len(condstack')
        /\ DOMAIN condstack = 1 .. n /\ DOMAIN condstack' = 1 .. n + 1
        /\ \A i \in 1 .. n : condstack'[i] = condstack[i]
        /\ condstack'[n + 1].ctrl = c
        /\ h \in 1 .. n /\ j \in 1 .. n
    <2>1. CSTypeOK
      BY DEF CInv
    <2>2. n = Len(condstack) /\ n' = Len(condstack')
      BY DEF n
    <2>3. condstack'[n + 1].ctrl = c
      <3>1. condstack'[n + 1] = Block(c, p, s)
        BY <2>1, PushFact
      <3> QED BY <3>1 DEF Block
    <2>4. h \in 1 .. n /\ j \in 1 .. n
      BY <2>1, StackFact
    <2>5. /\ n \in Nat /\ n' = n + 1
          /\ DOMAIN condstack = 1 .. n /\ DOMAIN condstack' = 1 .. n + 1
          /\ \A i \in 1 .. n : condstack'[i] = condstack[i]
      BY <2>1, PushFact
    <2> QED BY <2>2, <2>3, <2>4, <2>5
  <1>2. \A i \in 1 .. n : IsOpener(i)' <=> IsOpener(i)
    BY <1>1 DEF IsOpener
  <1>3. h \in Openers'
    BY <1>1, <1>2 DEF Openers
  <1>4. h = j \/ SameGroup(h, j)'
    BY <1>1, <1>2 DEF LastOf, SameGroup
  <1>5. IsOpener(j + 1)'
    <2>1. CASE j = n
      BY <2>1, <1>1 DEF IsOpener
    <2>2. CASE j # n
      <3>1. IsOpener(j + 1) /\ j + 1 \in 1 .. n
        BY <2>2, <1>1 DEF LastOf
      <3> QED BY <3>1, <1>2
    <2> QED BY <2>1, <2>2
  <1>6. LastOf(h, j)'
    BY <1>1, <1>4, <1>5 DEF LastOf
  <1>7. GroupIs(h, j)'
    <2>1. GroupsKnown'
      BY GroupsKnownHolds, PTL
    <2> QED BY <2>1, <1>1, <1>3, <1>6 DEF GroupsKnown, CInv
  <1>8. GroupIs(h, j)
    BY GroupsKnownHolds DEF GroupsKnown, CInv
  <1>9. BranchOf(h, j)' = BranchOf(h, j)
    <2>1. h .. j \subseteq 1 .. n
      BY <1>1
    <2> QED BY <2>1, <1>1 DEF BranchOf
  <1> QED BY <1>1, <1>3, <1>7, <1>8, <1>9 DEF GroupIs

\* An #if adds a group.
LEMMA OpenerGroup ==
  ASSUME CInv, CInv', NEW p \in BOOLEAN, NEW s \in BOOLEAN, Push("if", p, s), ~(p /\ s)
  PROVE  /\ n + 1 \in 1 .. MaxBlocks /\ \A h \in Openers : h < n + 1
         /\ Mapped' = [h \in Openers \cup {n + 1} |->
              IF h \in Openers THEN Mapped[h]
              ELSE [enclosed |-> ~p,
                    branch |-> IF ~s THEN "taking" ELSE "seeking",
                    closed |-> FALSE]]
  <1>1. CSTypeOK /\ "if" \in Ctrls
    BY DEF CInv, Ctrls
  <1>2. /\ n \in Nat /\ n' = n + 1 /\ n' <= MaxBlocks
        /\ DOMAIN condstack = 1 .. n /\ DOMAIN condstack' = 1 .. n + 1
        /\ \A i \in 1 .. n : condstack'[i] = condstack[i]
        /\ condstack'[n + 1] = Block("if", p, s)
    BY <1>1, PushFact
  <1>m. PICK m \in Nat : m = n + 1
    BY <1>2
  <1>3. /\ condstack'[n + 1].ctrl = "if"
        /\ condstack'[n + 1].parent = p
        /\ condstack'[n + 1].self = s
    BY <1>2 DEF Block
  <1>4. Openers \subseteq 1 .. n
    BY <1>1, StackFact
  <1>5. Openers' = Openers \cup {m}
    BY <1>m, <1>2, <1>3 DEF Openers, IsOpener
  <1>6. ASSUME NEW h \in Openers PROVE GroupOf(h)' = Mapped[h]
    <2>1. PICK j \in DOMAIN condstack : LastOf(h, j)
      BY <1>1, LastExists
    <2>2. GroupOf(h)' = GroupOf(h)
      BY <1>1, <2>1, PushKeepsGroup
    <2> QED BY <2>2 DEF Mapped
  <1>7. LastOf(m, m)'
    BY <1>m, <1>2 DEF LastOf, n
  <1>8. GroupIs(m, m)'
    <2>1. GroupsKnown'
      BY GroupsKnownHolds, PTL
    <2>2. m \in Openers' /\ m \in DOMAIN condstack'
      BY <1>m, <1>2, <1>5
    <2> QED BY <1>m, <2>1, <2>2, <1>7 DEF GroupsKnown, CInv
  <1>9. BranchOf(m, m)' = IF ~s THEN "taking" ELSE "seeking"
    BY <1>m, <1>2, <1>3 DEF BranchOf
  <1>10. GroupOf(m)' = [enclosed |-> ~p,
                            branch |-> IF ~s THEN "taking" ELSE "seeking",
                            closed |-> FALSE]
    BY <1>m, <1>3, <1>8, <1>9 DEF GroupIs
  <1>11. m \notin Openers
    BY <1>m, <1>2, <1>4
  <1> QED BY <1>m, <1>2, <1>4, <1>5, <1>6, <1>10, <1>11 DEF Mapped

\* An #elif or #else changes the innermost group.
LEMMA SiblingGroup ==
  ASSUME CInv, CInv', condstack # <<>>, NEW c \in Ctrls, c # "if",
         NEW p \in BOOLEAN, NEW s \in BOOLEAN, Push(c, p, s),
         NEW o \in Openers, LastOf(o, n), \A h \in Openers : h <= o,
         SiblingPasses <=> \E k \in o .. n : ~condstack[k].self
  PROVE  Mapped' = [Mapped EXCEPT ![o] =
           [enclosed |-> ~condstack[o].parent,
            branch |-> IF condstack[o].parent \/ ~s THEN "taking"
                       ELSE IF SiblingPasses THEN "taken" ELSE "seeking",
            closed |-> c = "else"]]
  <1>1. CSTypeOK
    BY DEF CInv
  <1>2. /\ n \in Nat /\ n' = n + 1
        /\ DOMAIN condstack = 1 .. n /\ DOMAIN condstack' = 1 .. n + 1
        /\ \A i \in 1 .. n : condstack'[i] = condstack[i]
        /\ condstack'[n + 1] = Block(c, p, s)
    BY <1>1, PushFact
  <1>m. PICK m \in Nat : m = n + 1
    BY <1>2
  <1>3. /\ condstack'[n + 1].ctrl = c
        /\ condstack'[n + 1].self = s
    BY <1>2 DEF Block
  <1>4. Openers \subseteq 1 .. n /\ o \in 1 .. n
    BY <1>1, StackFact
  <1>5. Openers' = Openers
    BY <1>2, <1>3 DEF Openers, IsOpener
  <1>6. ASSUME NEW h \in Openers, h # o PROVE GroupOf(h)' = GroupOf(h)
    <2>1. PICK j \in DOMAIN condstack : LastOf(h, j)
      BY <1>1, LastExists
    <2>2. j # n
      <3> SUFFICES ASSUME j = n PROVE FALSE
        OBVIOUS
      <3>1. h < o
        BY <1>4, <1>6
      <3>2. SameGroup(h, n)
        BY <2>1, <3>1, <1>4 DEF LastOf
      <3>3. o \in h + 1 .. n /\ IsOpener(o)
        BY <3>1, <1>4 DEF Openers
      <3> QED BY <3>2, <3>3 DEF SameGroup
    <2> QED BY <1>1, <2>1, <2>2, PushKeepsGroup
  <1>7. LastOf(o, m)'
    <2>1. ASSUME NEW k \in o + 1 .. m PROVE ~IsOpener(k)'
      <3>1. CASE k = m
        BY <1>m, <3>1, <1>3 DEF IsOpener
      <3>2. CASE k # m
        <4>1. k \in o + 1 .. n /\ k \in 1 .. n /\ o < n
          BY <1>m, <3>2, <1>2, <1>4
        <4>2. ~IsOpener(k)
          <5>1. SameGroup(o, n)
            BY <1>2, <1>4, <4>1 DEF LastOf
          <5>2. \A i \in o + 1 .. n : ~IsOpener(i)
            BY <5>1 DEF SameGroup
          <5> QED BY <4>1, <5>2
        <4> QED BY <1>m, <4>1, <4>2, <1>2 DEF IsOpener
      <3> QED BY <3>1, <3>2
    <2>2. SameGroup(o, m)'
      BY <1>m, <2>1, <1>2, <1>4 DEF SameGroup
    <2>3. m = Len(condstack')
      BY <1>m, <1>2 DEF n
    <2> QED BY <1>m, <2>2, <2>3, <1>2 DEF LastOf
  <1>8. GroupIs(o, m)'
    <2>1. GroupsKnown'
      BY GroupsKnownHolds, PTL
    <2>2. o \in Openers' /\ m \in DOMAIN condstack'
      BY <1>m, <1>2, <1>5
    <2> QED BY <1>m, <2>1, <2>2, <1>7 DEF GroupsKnown, CInv
  <1>9. ~s \/ (\E k \in o .. m : ~condstack'[k].self) <=> ~s \/ SiblingPasses
    <2>1. ASSUME NEW k \in o .. m, ~condstack'[k].self, s PROVE SiblingPasses
      <3>1. k # m
        BY <1>m, <2>1, <1>3
      <3>2. k \in o .. n /\ k \in 1 .. n
        BY <1>m, <3>1, <1>2, <1>4
      <3> QED BY <1>m, <2>1, <3>2, <1>2
    <2>2. ASSUME SiblingPasses PROVE \E k \in o .. m : ~condstack'[k].self
      <3>1. PICK k \in o .. n : ~condstack[k].self
        BY <1>m, <2>2
      <3>2. k \in o .. m /\ k \in 1 .. n
        BY <1>m, <1>2, <1>4
      <3> QED BY <1>m, <3>1, <3>2, <1>2
    <2> QED BY <1>m, <2>1, <2>2
  <1>10. BranchOf(o, m)' = IF condstack[o].parent \/ ~s THEN "taking"
                              ELSE IF SiblingPasses THEN "taken" ELSE "seeking"
    BY <1>m, <1>2, <1>3, <1>4, <1>9 DEF BranchOf
  <1>11. GroupOf(o)' = [enclosed |-> ~condstack[o].parent,
                        branch |-> IF condstack[o].parent \/ ~s THEN "taking"
                                   ELSE IF SiblingPasses THEN "taken" ELSE "seeking",
                        closed |-> c = "else"]
    BY <1>m, <1>2, <1>3, <1>4, <1>8, <1>10 DEF GroupIs
  <1> QED BY <1>m, <1>5, <1>6, <1>11 DEF Mapped

\* An #endif removes the innermost group.
LEMMA EndifGroup ==
  ASSUME CInv, CInv', NEW o \in Openers, \A h \in Openers : h <= o,
         condstack' = SubSeq(condstack, 1, o - 1)
  PROVE  Mapped' = [h \in Openers \ {o} |-> Mapped[h]]
  <1>1. CSTypeOK
    BY DEF CInv
  <1>2. /\ n \in Nat /\ n = Len(condstack) /\ DOMAIN condstack = 1 .. n
        /\ Openers \subseteq 1 .. n /\ o \in 1 .. n /\ IsOpener(o)
    BY <1>1, StackFact DEF Openers
  <1>3. /\ Len(condstack') = o - 1 /\ DOMAIN condstack' = 1 .. o - 1
        /\ \A k \in 1 .. o - 1 : condstack'[k] = condstack[k]
    BY <1>1, <1>2 DEF CSTypeOK
  <1>4. Openers' = Openers \ {o}
    <2>1. \A h \in Openers : h # o => h \in 1 .. o - 1
      BY <1>2
    <2> QED BY <2>1, <1>2, <1>3 DEF Openers, IsOpener
  <1>5. ASSUME NEW h \in Openers', NEW j \in DOMAIN condstack, LastOf(h, j)
        PROVE  GroupOf(h)' = GroupOf(h)
    <2>1. h \in Openers /\ h \in 1 .. o - 1 /\ j \in 1 .. n
      BY <1>2, <1>3, <1>4 DEF Openers
    <2>2. j \in 1 .. o - 1 /\ h <= j
      <3>1. h <= j
        BY <2>1, <1>2, <1>5 DEF LastOf, SameGroup
      <3>2. ASSUME o <= j PROVE FALSE
        <4>1. o \in h + 1 .. j /\ SameGroup(h, j)
          BY <3>2, <2>1, <1>2, <1>5 DEF LastOf
        <4> QED BY <4>1, <1>2 DEF SameGroup
      <3> QED BY <3>1, <3>2, <2>1, <1>2
    <2>3. h = j \/ SameGroup(h, j)'
      BY <2>1, <2>2, <1>2, <1>3, <1>5 DEF LastOf, SameGroup, IsOpener
    <2>4. j = Len(condstack') \/ IsOpener(j + 1)'
      <3>1. CASE j = o - 1
        BY <3>1, <1>3
      <3>2. CASE j # o - 1
        <4>1. j + 1 \in 1 .. o - 1 /\ j # n
          BY <3>2, <2>2, <1>2
        <4>2. IsOpener(j + 1)
          BY <4>1, <1>2, <1>5 DEF LastOf
        <4> QED BY <4>1, <4>2, <1>3 DEF IsOpener
      <3> QED BY <3>1, <3>2
    <2>5. LastOf(h, j)'
      BY <2>2, <2>3, <2>4, <1>3 DEF LastOf
    <2>6. GroupIs(h, j)'
      <3>1. GroupsKnown'
        BY GroupsKnownHolds, PTL
      <3> QED BY <3>1, <2>2, <2>5, <1>3, <1>5 DEF GroupsKnown, CInv
    <2>7. GroupIs(h, j)
      BY <2>1, <1>1, <1>5, GroupsKnownHolds DEF GroupsKnown
    <2>8. BranchOf(h, j)' = BranchOf(h, j)
      <3>1. h .. j \subseteq 1 .. o - 1
        BY <2>1, <2>2, <1>2
      <3> QED BY <3>1, <2>1, <2>2, <1>3 DEF BranchOf
    <2> QED BY <2>1, <2>2, <2>6, <2>7, <2>8, <1>3 DEF GroupIs
  <1>6. ASSUME NEW h \in Openers' PROVE GroupOf(h)' = Mapped[h]
    <2>1. h \in Openers
      BY <1>4, <1>6
    <2>2. PICK j \in DOMAIN condstack : LastOf(h, j)
      BY <2>1, <1>1, LastExists
    <2> QED BY <2>1, <2>2, <1>5, <1>6 DEF Mapped
  <1> QED BY <1>4, <1>6 DEF Mapped

\* What the abstract operators say of the mapped groups.
LEMMA MappedFact ==
  ASSUME CInv
  PROVE  /\ Groups!Open = Openers
         /\ Groups!Keeping <=> Passes
         /\ Openers = {} <=> condstack = <<>>
         /\ Matches <=> \E o \in Openers : Groups!Innermost(o) /\ ~Mapped[o].closed
  <1>1. Groups!Open = Openers
    BY DEF Groups!Open
  <1>2. /\ n \in Nat /\ n = Len(condstack) /\ DOMAIN condstack = 1 .. n
        /\ Openers \subseteq 1 .. n /\ (condstack = <<>> <=> n = 0)
        /\ n # 0 => 1 \in Openers
    BY StackFact DEF CInv
  <1>3. Openers = {} <=> condstack = <<>>
    BY <1>2
  <1>4. CASE condstack = <<>>
    BY <1>1, <1>3, <1>4 DEF Groups!Keeping, Passes, Matches
  <1>5. CASE condstack # <<>>
    <2>1. PICK o \in Openers :
            /\ \A h \in Openers : h <= o
            /\ GroupIs(o, n)
            /\ condstack[o].parent <=> Top.parent
            /\ ~Top.parent => (BranchOf(o, n) = "taking" <=> ~Top.self)
      BY <1>5, TopGroup
    <2>2. \A h \in Openers : Groups!Innermost(h) <=> h = o
      <3>1. \A h \in Openers : h <= o
        BY <2>1
      <3>2. Openers \subseteq Int
        BY <1>2
      <3>3. \A h \in Openers : o <= h => h = o
        BY <3>1, <3>2
      <3> QED BY <3>1, <3>3, <1>1 DEF Groups!Innermost
    <2>3. /\ Mapped[o].enclosed = ~condstack[o].parent
          /\ Mapped[o].branch = BranchOf(o, n)
          /\ Mapped[o].closed = (condstack[n].ctrl = "else")
      <3>1. Mapped[o] = [enclosed |-> ~condstack[o].parent,
                         branch |-> BranchOf(o, n),
                         closed |-> condstack[n].ctrl = "else"]
        BY <2>1 DEF Mapped, GroupIs
      <3> QED BY <3>1
    <2>4. Groups!Keeping <=> Mapped[o].enclosed /\ Mapped[o].branch = "taking"
      BY <1>1, <2>2 DEF Groups!Keeping, Mapped
    <2>5. Groups!Keeping <=> Passes
      BY <1>5, <2>1, <2>3, <2>4 DEF Passes
    <2>6. Matches <=> ~Mapped[o].closed
      BY <1>2, <1>5, <2>3 DEF Matches, Top
    <2> QED BY <1>1, <1>3, <2>2, <2>5, <2>6
  <1> QED BY <1>4, <1>5

\* #if, #ifdef and #ifndef open a group.
LEMMA IfStep ==
  ASSUME CInv, CInv', NEW cond \in Conds, IfHandler(cond)
  PROVE  Groups!GOpen(cond)
  <1>0. Groups!Open = Openers /\ (Groups!Keeping <=> Passes)
    BY MappedFact
  <1>k. Groups!Keeping = Passes
    BY <1>0 DEF Groups!Keeping, Passes
  <1>1. CASE Passes /\ cond \in Wrong /\ Error
    <2>1. Mapped' = Mapped
      BY <1>1 DEF Error, Mapped, Openers, GroupOf, LastOf, SameGroup, BranchOf, IsOpener
    <2> QED BY <1>0, <1>1, <2>1 DEF Groups!GOpen, Groups!GError, Error, Mapped,
                                    Wrong, Groups!Wrong
  <1>2. ASSUME NEW p \in BOOLEAN, NEW s \in BOOLEAN, Push("if", p, s), ~(p /\ s),
               p <=> ~Passes, ~p => cond \notin Wrong /\ (s <=> cond = "false")
        PROVE  Groups!GOpen(cond)
    <2>1. /\ n + 1 \in 1 .. MaxBlocks /\ \A h \in Openers : h < n + 1
          /\ Mapped' = [h \in Openers \cup {n + 1} |->
               IF h \in Openers THEN Mapped[h]
               ELSE [enclosed |-> ~p,
                     branch |-> IF ~s THEN "taking" ELSE "seeking",
                     closed |-> FALSE]]
      BY <1>2, OpenerGroup
    <2>2. (~s) <=> (~Passes \/ cond = "true")
      BY <1>2 DEF Conds, Wrong
    <2>3. PICK m \in 1 .. MaxBlocks : m = n + 1
      BY <2>1
    <2>4. Mapped' = [h \in Openers \cup {m} |->
               IF h \in Openers THEN Mapped[h]
               ELSE [enclosed |-> Passes,
                     branch |-> IF ~Passes \/ cond = "true" THEN "taking" ELSE "seeking",
                     closed |-> FALSE]]
      <3>1. (~p) = Passes
        BY <1>2 DEF Passes
      <3>2. (IF ~s THEN "taking" ELSE "seeking")
              = IF ~Passes \/ cond = "true" THEN "taking" ELSE "seeking"
        BY <2>2
      <3> QED BY <2>1, <2>3, <3>1, <3>2
    <2>5. verdict' = "skipped"
      BY <1>2 DEF Push
    <2>6. ~(Groups!Keeping /\ cond \in Groups!Wrong)
      BY <1>0, <1>2 DEF Groups!Wrong, Wrong
    <2>7. \A h \in Groups!Open : h < m
      BY <1>0, <2>1, <2>3
    <2>8. Mapped' = [h \in Groups!Open \cup {m} |->
               IF h \in Groups!Open THEN Mapped[h]
               ELSE [enclosed |-> Groups!Keeping,
                     branch |-> IF ~Groups!Keeping \/ cond = "true" THEN "taking"
                                ELSE "seeking",
                     closed |-> FALSE]]
      BY <1>0, <1>k, <2>4
    <2> QED BY <2>5, <2>6, <2>7, <2>8 DEF Groups!GOpen, Groups!Group, Mapped
  <1>3. CASE Passes /\ cond \notin Wrong /\ Push("if", FALSE, cond = "false")
    BY <1>2, <1>3
  <1>4. CASE ~Passes /\ Push("if", TRUE, FALSE)
    BY <1>2, <1>4
  <1> QED BY <1>1, <1>3, <1>4 DEF IfHandler

\* What is known of the innermost group when there is one.
LEMMA InnermostGroup ==
  ASSUME CInv, condstack # <<>>
  PROVE  \E o \in Openers :
           /\ LastOf(o, n) /\ IsOpener(o) /\ (\A h \in Openers : h <= o)
           /\ \A i \in DOMAIN condstack : InGroup(i) <=> o <= i
           /\ SiblingPasses <=> \E k \in o .. n : ~condstack[k].self
           /\ Groups!Innermost(o)
           /\ \A h \in Openers : Groups!Innermost(h) => h = o
           /\ Mapped[o] = [enclosed |-> ~condstack[o].parent,
                           branch |-> BranchOf(o, n),
                           closed |-> condstack[n].ctrl = "else"]
           /\ condstack[o].parent <=> Top.parent
           /\ ~Top.parent => (BranchOf(o, n) = "seeking" <=> ~SiblingPasses)
  <1>1. PICK o \in Openers :
          /\ LastOf(o, n) /\ IsOpener(o)
          /\ \A h \in Openers : h <= o
          /\ \A i \in DOMAIN condstack : InGroup(i) <=> o <= i
          /\ GroupIs(o, n)
          /\ condstack[o].parent <=> Top.parent
          /\ ~Top.parent => (BranchOf(o, n) = "seeking" <=> ~SiblingPasses)
    BY TopGroup
  <1>2. n \in Nat /\ DOMAIN condstack = 1 .. n /\ Openers \subseteq 1 .. n
    BY StackFact DEF CInv
  <1>3. SiblingPasses <=> \E k \in o .. n : ~condstack[k].self
    <2>1. \A k : k \in o .. n <=> k \in 1 .. n /\ o <= k
      BY <1>2
    <2>2. \A i \in 1 .. n : InGroup(i) <=> o <= i
      BY <1>1, <1>2
    <2> QED BY <2>1, <2>2, <1>2 DEF SiblingPasses
  <1>4. \A h \in Openers : Groups!Innermost(h) <=> h = o
    <2>1. \A h \in Openers : h <= o
      BY <1>1
    <2>2. \A h \in Openers : o <= h => h = o
      BY <2>1, <1>2
    <2> QED BY <2>1, <2>2, MappedFact DEF Groups!Innermost
  <1>5. Mapped[o] = [enclosed |-> ~condstack[o].parent,
                     branch |-> BranchOf(o, n),
                     closed |-> condstack[n].ctrl = "else"]
    BY <1>1 DEF Mapped, GroupIs
  <1> QED BY <1>1, <1>3, <1>4, <1>5

\* The push of an #elif or #else is a step of the innermost group.
LEMMA SiblingStep ==
  ASSUME CInv, CInv', Matches, NEW c \in Ctrls, c # "if",
         NEW p \in BOOLEAN, NEW s \in BOOLEAN, NEW holds \in BOOLEAN,
         Push(c, p, s), p <=> ~OuterPasses, p => ~s,
         ~p => (s <=> SiblingPasses \/ ~holds)
  PROVE  \E o \in Openers :
           /\ Groups!Innermost(o) /\ ~Mapped[o].closed
           /\ Mapped' = [Mapped EXCEPT ![o] =
                [enclosed |-> Mapped[o].enclosed,
                 branch |-> Groups!Entered(o, holds),
                 closed |-> c = "else"]]
  <1>1. condstack # <<>> /\ Top = condstack[n] /\ Top.ctrl # "else"
    BY DEF Matches, Top, n
  <1>2. PICK o \in Openers :
          /\ LastOf(o, n) /\ (\A h \in Openers : h <= o)
          /\ SiblingPasses <=> \E k \in o .. n : ~condstack[k].self
          /\ Groups!Innermost(o)
          /\ Mapped[o] = [enclosed |-> ~condstack[o].parent,
                          branch |-> BranchOf(o, n),
                          closed |-> condstack[n].ctrl = "else"]
          /\ condstack[o].parent <=> Top.parent
          /\ ~Top.parent => (BranchOf(o, n) = "seeking" <=> ~SiblingPasses)
    BY <1>1, InnermostGroup
  <1>3. Mapped' = [Mapped EXCEPT ![o] =
           [enclosed |-> ~condstack[o].parent,
            branch |-> IF condstack[o].parent \/ ~s THEN "taking"
                       ELSE IF SiblingPasses THEN "taken" ELSE "seeking",
            closed |-> c = "else"]]
    BY <1>1, <1>2, SiblingGroup
  <1>4. /\ Mapped[o].enclosed = ~condstack[o].parent
        /\ Mapped[o].branch = BranchOf(o, n)
        /\ Mapped[o].closed = (condstack[n].ctrl = "else")
    BY <1>2
  <1>5. p <=> condstack[o].parent
    BY <1>1, <1>2 DEF OuterPasses
  <1>6. Groups!Entered(o, holds) =
          IF condstack[o].parent \/ ~s THEN "taking"
          ELSE IF SiblingPasses THEN "taken" ELSE "seeking"
    <2>1. Groups!Entered(o, holds) =
            CASE ~Mapped[o].enclosed -> "taking"
              [] Mapped[o].enclosed /\ Mapped[o].branch # "seeking" -> "taken"
              [] Mapped[o].enclosed /\ Mapped[o].branch = "seeking" ->
                   IF holds THEN "taking" ELSE "seeking"
      BY DEF Groups!Entered, Mapped
    <2>2. CASE condstack[o].parent
      BY <2>1, <2>2, <1>4
    <2>3. CASE ~condstack[o].parent /\ SiblingPasses
      <3>1. Mapped[o].enclosed /\ Mapped[o].branch # "seeking" /\ s
        BY <2>3, <1>2, <1>4, <1>5
      <3> QED BY <3>1, <2>1, <2>3
    <2>4. CASE ~condstack[o].parent /\ ~SiblingPasses
      <3>1. Mapped[o].enclosed /\ Mapped[o].branch = "seeking" /\ (s <=> ~holds)
        BY <2>4, <1>2, <1>4, <1>5
      <3> QED BY <3>1, <2>1, <2>4
    <2> QED BY <2>2, <2>3, <2>4
  <1>7. ~Mapped[o].closed
    BY <1>1, <1>4
  <1> QED BY <1>2, <1>3, <1>4, <1>6, <1>7

\* A row that leaves the stack leaves the groups.
LEMMA SameGroups ==
  ASSUME UNCHANGED condstack
  PROVE  Mapped' = Mapped
  BY DEF Mapped, Openers, GroupOf, LastOf, SameGroup, BranchOf, IsOpener

\* #elif
LEMMA ElifStep ==
  ASSUME CInv, CInv', NEW cond \in Conds, ElifHandler(cond)
  PROVE  Groups!GElif(cond)
  <1>0. Groups!Open = Openers /\ (Groups!Keeping <=> Passes)
        /\ (Matches <=> \E o \in Openers : Groups!Innermost(o) /\ ~Mapped[o].closed)
    BY MappedFact
  <1>e. Error => Groups!GError
    <2>1. Error => Mapped' = Mapped
      BY SameGroups DEF Error
    <2> QED BY <2>1 DEF Error, Groups!GError, Mapped
  <1>1. CASE ~Matches /\ Error
    BY <1>0, <1>e, <1>1 DEF Groups!GElif, Mapped
  <1>2. ASSUME Matches PROVE
          \E o \in Openers :
            /\ Groups!Innermost(o) /\ ~Mapped[o].closed
            /\ Mapped[o].enclosed = OuterPasses
            /\ OuterPasses => (Mapped[o].branch = "seeking" <=> ~SiblingPasses)
            /\ \A h \in Openers : Groups!Innermost(h) => h = o
    <2>1. condstack # <<>> /\ Top = condstack[n] /\ Top.ctrl # "else"
      BY <1>2 DEF Matches, Top, n
    <2>2. PICK o \in Openers :
           /\ Groups!Innermost(o)
           /\ \A h \in Openers : Groups!Innermost(h) => h = o
           /\ Mapped[o] = [enclosed |-> ~condstack[o].parent,
                           branch |-> BranchOf(o, n),
                           closed |-> condstack[n].ctrl = "else"]
           /\ condstack[o].parent <=> Top.parent
           /\ ~Top.parent => (BranchOf(o, n) = "seeking" <=> ~SiblingPasses)
      BY <2>1, InnermostGroup
    <2>3. (~condstack[o].parent) = OuterPasses
      BY <2>1, <2>2 DEF OuterPasses
    <2>4. (condstack[n].ctrl = "else") = FALSE
      BY <2>1
    <2>5. Mapped[o] = [enclosed |-> OuterPasses, branch |-> BranchOf(o, n),
                       closed |-> FALSE]
      BY <2>2, <2>3, <2>4
    <2>6. OuterPasses => ~Top.parent
      BY <2>1 DEF OuterPasses
    <2>7. /\ Mapped[o].enclosed = OuterPasses /\ Mapped[o].branch = BranchOf(o, n)
          /\ ~Mapped[o].closed
      BY <2>5
    <2>8. OuterPasses => (Mapped[o].branch = "seeking" <=> ~SiblingPasses)
      BY <2>2, <2>6, <2>7
    <2> QED BY <2>2, <2>7, <2>8
  <1>3. ASSUME Matches, OuterPasses, Error,
               cond = "empty" \/ (cond = "bad" /\ ~SiblingPasses)
        PROVE  Groups!GElif(cond)
    <2>1. PICK o \in Openers :
            /\ Groups!Innermost(o) /\ ~Mapped[o].closed
            /\ Mapped[o].enclosed = OuterPasses
            /\ OuterPasses => (Mapped[o].branch = "seeking" <=> ~SiblingPasses)
      BY <1>2, <1>3
    <2>2. Groups!Asked(o, cond)
      BY <1>3, <2>1 DEF Groups!Asked, Mapped
    <2> QED BY <1>0, <1>e, <1>3, <2>1, <2>2 DEF Groups!GElif, Mapped
  <1>4. ASSUME Matches, NEW p \in BOOLEAN, NEW s \in BOOLEAN, Push("elif", p, s),
               p <=> ~OuterPasses, p => ~s,
               ~p => (s <=> SiblingPasses \/ ~(cond = "true")),
               ~p => cond # "empty" /\ (cond = "bad" => SiblingPasses)
        PROVE  Groups!GElif(cond)
    <2>1. PICK o \in Openers :
            /\ Groups!Innermost(o) /\ ~Mapped[o].closed
            /\ Mapped[o].enclosed = OuterPasses
            /\ OuterPasses => (Mapped[o].branch = "seeking" <=> ~SiblingPasses)
            /\ \A h \in Openers : Groups!Innermost(h) => h = o
      BY <1>2, <1>4
    <2>2. Mapped' = [Mapped EXCEPT ![o] =
            [enclosed |-> Mapped[o].enclosed,
             branch |-> Groups!Entered(o, cond = "true"),
             closed |-> FALSE]]
      <3>1. "elif" \in Ctrls /\ (cond = "true") \in BOOLEAN /\ ("elif" = "else") = FALSE
        BY DEF Ctrls
      <3>2. \E g \in Openers :
              /\ Groups!Innermost(g)
              /\ Mapped' = [Mapped EXCEPT ![g] =
                   [enclosed |-> Mapped[g].enclosed,
                    branch |-> Groups!Entered(g, cond = "true"),
                    closed |-> "elif" = "else"]]
        BY <3>1, <1>4, SiblingStep, ZenonT(40)
      <3>3. PICK g \in Openers :
              /\ Groups!Innermost(g)
              /\ Mapped' = [Mapped EXCEPT ![g] =
                   [enclosed |-> Mapped[g].enclosed,
                    branch |-> Groups!Entered(g, cond = "true"),
                    closed |-> "elif" = "else"]]
        BY <3>2
      <3>4. g = o
        BY <2>1, <3>3
      <3> QED BY <3>1, <3>3, <3>4
    <2>4. ~Groups!Asked(o, cond)
      BY <1>4, <2>1 DEF Groups!Asked, Mapped
    <2>5. verdict' = "skipped"
      BY <1>4 DEF Push
    <2> QED BY <1>0, <2>1, <2>2, <2>4, <2>5 DEF Groups!GElif, Groups!Group, Mapped
  <1>5. CASE Matches /\ ~OuterPasses /\ Push("elif", TRUE, FALSE)
    BY <1>4, <1>5
  <1>6. CASE Matches /\ OuterPasses /\ cond # "empty" /\ SiblingPasses
             /\ Push("elif", FALSE, TRUE)
    BY <1>4, <1>6
  <1>7. CASE Matches /\ OuterPasses /\ cond \notin Wrong /\ ~SiblingPasses
             /\ Push("elif", FALSE, cond = "false")
    <2>1. cond = "true" \/ cond = "false"
      BY <1>7 DEF Wrong, Conds
    <2> QED BY <1>4, <1>7, <2>1
  <1> QED BY <1>1, <1>3, <1>5, <1>6, <1>7 DEF ElifHandler

\* #else
LEMMA ElseStep ==
  ASSUME CInv, CInv', NEW bad \in BOOLEAN, ElseHandler(bad)
  PROVE  Groups!GElse(bad)
  <1>0. Groups!Open = Openers /\ (Groups!Keeping <=> Passes)
        /\ (Matches <=> \E o \in Openers : Groups!Innermost(o) /\ ~Mapped[o].closed)
    BY MappedFact
  <1>e. Error => Groups!GError
    <2>1. Error => Mapped' = Mapped
      BY SameGroups DEF Error
    <2> QED BY <2>1 DEF Error, Groups!GError, Mapped
  <1>1. CASE ~Matches /\ Error
    BY <1>0, <1>e, <1>1 DEF Groups!GElse, Mapped
  <1>2. ASSUME Matches, NEW o \in Openers, Groups!Innermost(o)
        PROVE  Mapped[o].enclosed = OuterPasses /\ ~Mapped[o].closed
    <2>1. condstack # <<>> /\ Top = condstack[n] /\ Top.ctrl # "else"
      BY <1>2 DEF Matches, Top, n
    <2>2. PICK q \in Openers :
           /\ \A h \in Openers : Groups!Innermost(h) => h = q
           /\ Mapped[q] = [enclosed |-> ~condstack[q].parent,
                           branch |-> BranchOf(q, n),
                           closed |-> condstack[n].ctrl = "else"]
           /\ condstack[q].parent <=> Top.parent
      BY <2>1, InnermostGroup
    <2>3. (~condstack[q].parent) = OuterPasses
      BY <2>1, <2>2 DEF OuterPasses
    <2>4. (condstack[n].ctrl = "else") = FALSE
      BY <2>1
    <2>5. Mapped[q] = [enclosed |-> OuterPasses, branch |-> BranchOf(q, n),
                       closed |-> FALSE]
      BY <2>2, <2>3, <2>4
    <2>6. Mapped[q].enclosed = OuterPasses /\ ~Mapped[q].closed
      BY <2>5
    <2>7. o = q
      BY <1>2, <2>2
    <2> QED BY <2>6, <2>7
  <1>3. CASE Matches /\ OuterPasses /\ bad /\ Error
    <2>1. PICK o \in Openers : Groups!Innermost(o) /\ ~Mapped[o].closed
      BY <1>0, <1>3
    <2>2. Mapped[o].enclosed = OuterPasses
      BY <1>2, <1>3, <2>1
    <2> QED BY <1>0, <1>e, <1>3, <2>1, <2>2 DEF Groups!GElse, Mapped
  <1>4. ASSUME Matches, NEW p \in BOOLEAN, NEW s \in BOOLEAN, Push("else", p, s),
               p <=> ~OuterPasses, p => ~s, ~p => (s <=> SiblingPasses), ~p => ~bad
        PROVE  Groups!GElse(bad)
    <2>1. "else" \in Ctrls /\ TRUE \in BOOLEAN /\ ("else" = "else") = TRUE
      BY DEF Ctrls
    <2>2. PICK o \in Openers :
            /\ Groups!Innermost(o) /\ ~Mapped[o].closed
            /\ Mapped' = [Mapped EXCEPT ![o] =
                 [enclosed |-> Mapped[o].enclosed,
                  branch |-> Groups!Entered(o, TRUE),
                  closed |-> "else" = "else"]]
      BY <2>1, <1>4, SiblingStep
    <2>3. ~(Mapped[o].enclosed /\ bad)
      BY <1>2, <1>4, <2>2
    <2>4. verdict' = "skipped"
      BY <1>4 DEF Push
    <2>5. Mapped' = [Mapped EXCEPT ![o] =
            [enclosed |-> Mapped[o].enclosed,
             branch |-> Groups!Entered(o, TRUE),
             closed |-> TRUE]]
      BY <2>1, <2>2
    <2> QED BY <1>0, <2>2, <2>3, <2>4, <2>5 DEF Groups!GElse, Groups!Group, Mapped
  <1>5. CASE Matches /\ ~OuterPasses /\ Push("else", TRUE, FALSE)
    BY <1>4, <1>5
  <1>6. CASE Matches /\ OuterPasses /\ ~bad /\ Push("else", FALSE, SiblingPasses)
    <2>1. SiblingPasses \in BOOLEAN
      BY DEF SiblingPasses
    <2> QED BY <1>4, <1>6, <2>1
  <1> QED BY <1>1, <1>3, <1>5, <1>6 DEF ElseHandler

\* #endif
LEMMA EndifStep ==
  ASSUME CInv, CInv', NEW bad \in BOOLEAN, EndifHandler(bad)
  PROVE  Groups!GEndif(bad)
  <1>0. Groups!Open = Openers /\ (Openers = {} <=> condstack = <<>>)
    BY MappedFact
  <1>1. CASE (bad \/ condstack = <<>>) /\ Error
    <2>1. Mapped' = Mapped
      BY <1>1, SameGroups DEF Error
    <2> QED BY <1>0, <1>1, <2>1 DEF Error, Groups!GEndif, Mapped
  <1>2. ASSUME ~bad, NEW i \in DOMAIN condstack, InGroup(i), IsOpener(i),
               condstack' = SubSeq(condstack, 1, i - 1), verdict' = "skipped"
        PROVE  Groups!GEndif(bad)
    <2>1. /\ n \in Nat /\ DOMAIN condstack = 1 .. n /\ Openers \subseteq 1 .. n
          /\ i \in Openers /\ condstack # <<>>
      BY <1>2, StackFact DEF CInv, Openers
    <2>2. PICK o \in Openers :
            /\ \A h \in Openers : h <= o
            /\ \A k \in DOMAIN condstack : InGroup(k) <=> o <= k
            /\ Groups!Innermost(o)
      BY <2>1, InnermostGroup
    <2>3. i = o
      <3>1. i <= o /\ o <= i
        BY <1>2, <2>1, <2>2
      <3> QED BY <3>1, <2>1
    <2>4. Mapped' = [h \in Openers \ {o} |-> Mapped[h]]
      BY <1>2, <2>2, <2>3, EndifGroup
    <2> QED BY <1>0, <1>2, <2>2, <2>4 DEF Groups!GEndif, Mapped
  <1> QED BY <1>1, <1>2 DEF EndifHandler

\* Rows that push and pop nothing, and the end of the file.
LEMMA RowStep ==
  ASSUME CInv
  PROVE  /\ \A bad \in BOOLEAN : OtherRow(bad) => Groups!GRow(bad)
         /\ EndOfFile => Groups!GEnd
         /\ SeenBefore => Groups!GLeave
  <1>0. Groups!Open = Openers /\ (Groups!Keeping <=> Passes)
        /\ (Openers = {} <=> condstack = <<>>)
    BY MappedFact
  <1>1. ASSUME NEW bad \in BOOLEAN, OtherRow(bad) PROVE Groups!GRow(bad)
    <2>1. Mapped' = Mapped
      BY <1>1, SameGroups DEF OtherRow
    <2> QED BY <1>0, <1>1, <2>1 DEF OtherRow, Groups!GRow, Mapped
  <1>2. ASSUME EndOfFile PROVE Groups!GEnd
    <2>1. Mapped' = Mapped
      BY <1>2, SameGroups DEF EndOfFile
    <2> QED BY <1>0, <1>2, <2>1 DEF EndOfFile, Groups!GEnd, Mapped
  <1>3. ASSUME SeenBefore PROVE Groups!GLeave
    <2>1. Mapped' = Mapped
      BY <1>3, SameGroups DEF SeenBefore
    <2> QED BY <1>0, <1>3, <2>1 DEF SeenBefore, Groups!GLeave, Mapped
  <1> QED BY <1>1, <1>2, <1>3

\* Every step of the block stack is a step of the groups.
LEMMA NextStep ==
  ASSUME CInv, CInv', [CSNext]_csvars
  PROVE  [Groups!GNext]_(Groups!cgvars)
  <1> DEFINE Runs == verdict \notin {"error", "done"}
  <1>1. ASSUME NEW cond \in Conds, Runs, IfHandler(cond) \/ ElifHandler(cond)
        PROVE  Groups!GNext
    <2>1. cond \in Groups!Conds
      BY DEF Conds, Groups!Conds
    <2> QED BY <1>1, <2>1, IfStep, ElifStep DEF Groups!GNext, Groups!Running
  <1>2. ASSUME NEW bad \in BOOLEAN, Runs,
               ElseHandler(bad) \/ EndifHandler(bad) \/ OtherRow(bad)
        PROVE  Groups!GNext
    BY <1>2, ElseStep, EndifStep, RowStep DEF Groups!GNext, Groups!Running
  <1>3. ASSUME Runs, EndOfFile PROVE Groups!GNext
    BY <1>3, RowStep DEF Groups!GNext, Groups!Running
  <1>4. ASSUME Runs, SeenBefore PROVE Groups!GNext
    BY <1>4, RowStep DEF Groups!GNext, Groups!Running
  <1>5. ASSUME UNCHANGED csvars PROVE UNCHANGED Groups!cgvars
    <2>1. Mapped' = Mapped /\ verdict' = verdict
      BY <1>5, SameGroups DEF csvars
    <2> QED BY <2>1 DEF Groups!cgvars, Mapped
  <1> QED BY <1>1, <1>2, <1>3, <1>4, <1>5 DEF CSNext

\* The block stack implements the groups, for stacks of any depth.
THEOREM CondRefinement == CSSpec => RefinesGroups
  <1>1. CSInit => Groups!GInit
    <2> SUFFICES ASSUME CSInit PROVE Groups!GInit
      OBVIOUS
    <2>1. Openers = {}
      BY DEF CSInit, Openers
    <2> QED BY <2>1 DEF CSInit, Groups!GInit
  <1>2. CInv /\ CInv' /\ [CSNext]_csvars => [Groups!GNext]_(Groups!cgvars)
    BY NextStep
  <1> QED BY <1>1, <1>2, CondInductive, PTL DEF CSSpec, RefinesGroups, Groups!GSpec
=============================================================================
