----------------------------- MODULE GenProofs ------------------------------
(***************************************************************************)
(* Theorems about the register file and instruction selection: whatever    *)
(* functions are translated, every context is well formed, no register     *)
(* stays set aside and no value that is wanted later is lost; for          *)
(* functions of words the descriptors' lists of users and the nodes' own   *)
(* locations agree; in those that read nothing through pointers a wanted   *)
(* value is where its node says; and where these handle no structures no   *)
(* assertion stops the compiler.                                           *)
(***************************************************************************)
EXTENDS GenX86, WellFoundedInduction, TLAPS

-----------------------------------------------------------------------------
(* The invariant of a context, and what an operation may do to one.        *)

RegIds == {NIL} \cup Registers

\* A node in a register has one, and only a 64-bit value has a second one.
Located(s) ==
  /\ \A d \in s.inregister : \E p \in 0 .. 1 : s.regs[d][p] # NIL
  /\ \A d \in Dags : Ty[d] # "q" => s.regs[d][1] = NIL

\* Functions of words, whose shift counts are constants that no triple of the
\* function loads, and whose comparisons read no second operand through the
\* first.
Plain ==
  /\ \A d \in Dags : Parts[d] = 1
  /\ \A f \in Functions : \A t \in Triples[f] :
       /\ t.op \in {"LSH", "RSH"} =>
            /\ t.rhs \in Imms
            /\ \A u \in Triples[f] :
                 u.lhs # t.rhs /\ (u.op \in {"DIV", "MOD"} => u.rhs # t.rhs)
       /\ t.op = "J" => t.rhs \notin Inds \/ Kid[t.rhs] # t.lhs

\* UsersMatch of any context of such a function.
Match(s) ==
  /\ \A r \in Registers :
       /\ IsInjective(s.link[r])
       /\ ToSet(s.link[r]) = {w \in Words : s.regs[w[1]][w[2]] = r}
       /\ s.lastref[r] = LastrefOf(s, s.link[r])
  /\ \A d \in Dags : d \in s.inregister <=> s.regs[d][0] # NIL

Sound(s) == s \in Contexts /\ s.using \subseteq {EAX, EDX} /\ Located(s)

Good(s) == Sound(s) /\ (Plain => Match(s))

\* Codes are emitted: what the compiler knows stays the same.
Emits(s, a) ==
  /\ a \in Contexts
  /\ a.link = s.link /\ a.lastref = s.lastref /\ a.using = s.using
  /\ a.last = s.last /\ a.inregister = s.inregister /\ a.regs = s.regs
  /\ a.inmemory = s.inmemory

\* The same, but for a place in memory that d gets.
Stores(s, a, d) ==
  /\ a \in Contexts
  /\ a.link = s.link /\ a.lastref = s.lastref /\ a.using = s.using
  /\ a.last = s.last /\ a.inregister = s.inregister /\ a.regs = s.regs
  /\ a.inmemory = s.inmemory \cup {d}

\* Values move: only those of D come into registers, and one that is wanted
\* later keeps a place; where nodes are words, only D and what was in a register
\* come into memory.
Places(s, a, D) ==
  /\ a.last = s.last
  /\ s.inmemory \subseteq a.inmemory
  /\ Plain => a.inmemory \subseteq s.inmemory \cup s.inregister \cup D
  /\ a.inregister \subseteq s.inregister \cup D
  /\ \A d \in s.inregister : s.last[d] > seqid => d \in a.inregister \cup a.inmemory

Moves(s, a, D) == Good(a) /\ a.using = s.using /\ Places(s, a, D)

LEMMA PlacesTwice ==
  ASSUME NEW s, NEW a, NEW b, NEW D, NEW E, NEW F, D \subseteq F, E \subseteq F,
         Places(s, a, D), Places(a, b, E)
  PROVE  Places(s, b, F)
  BY DEF Places

LEMMA MovesTwice ==
  ASSUME NEW s, NEW a, NEW b, NEW D, NEW E, NEW F, D \subseteq F, E \subseteq F,
         Moves(s, a, D), Moves(a, b, E)
  PROVE  Moves(s, b, F)
  BY DEF Moves, Places

LEMMA EmitsTwice ==
  ASSUME NEW s, NEW a, NEW b, Emits(s, a), Emits(a, b)
  PROVE  Emits(s, b)
  BY DEF Emits

LEMMA ThenMoves ==
  ASSUME NEW s, NEW a, NEW b, NEW D, NEW E, NEW F, D \subseteq F, E \subseteq F,
         Moves(s, a, D), Moves(a, b, E)
  PROVE  Moves(s, b, F) /\ Good(b) /\ b \in Contexts
  <1>1. Moves(s, b, F)
    BY MovesTwice
  <1> QED BY <1>1 DEF Moves, Good, Sound

LEMMA EmitsMoves ==
  ASSUME NEW s, NEW a, NEW D, Good(s), Emits(s, a)
  PROVE  Moves(s, a, D)
  <1>1. Located(a)
    BY DEF Located, Emits, Good, Sound
  <1>2. Match(s) => Match(a)
    <2>1. \A r \in Registers : LastrefOf(a, a.link[r]) = LastrefOf(s, s.link[r])
      BY DEF LastrefOf, Emits
    <2> QED BY <2>1 DEF Match, Emits
  <1> QED BY <1>1, <1>2 DEF Moves, Places, Good, Sound, Emits

LEMMA ThenEmits ==
  ASSUME NEW s, NEW a, NEW b, NEW D, Moves(s, a, D), Emits(a, b)
  PROVE  /\ Moves(s, b, D) /\ Good(b) /\ b \in Contexts
         /\ b.inregister = a.inregister /\ b.inmemory = a.inmemory
  <1>1. Moves(a, b, {})
    BY EmitsMoves DEF Moves
  <1>2. Moves(s, b, D) /\ Good(b) /\ b \in Contexts
    BY <1>1, ThenMoves
  <1> QED BY <1>2 DEF Emits

LEMMA StoresMoves ==
  ASSUME NEW s, NEW a, NEW d, Good(s), Stores(s, a, d)
  PROVE  Moves(s, a, {d})
  <1>1. Located(a)
    BY DEF Located, Stores, Good, Sound
  <1>2. Match(s) => Match(a)
    <2>1. \A r \in Registers : LastrefOf(a, a.link[r]) = LastrefOf(s, s.link[r])
      BY DEF LastrefOf, Stores
    <2> QED BY <2>1 DEF Match, Stores
  <1> QED BY <1>1, <1>2 DEF Moves, Places, Good, Sound, Stores

LEMMA StaysMoves ==
  ASSUME NEW s, NEW D, Good(s)
  PROVE  Moves(s, s, D)
  BY DEF Moves, Places, Good

-----------------------------------------------------------------------------
(* Greatest elements, and recursive functions.                             *)

\* A set of naturals has a least element.
LEMMA LeastFact ==
  ASSUME NEW S \in SUBSET Nat, S # {}
  PROVE  \E m \in S : \A k \in S : m <= k
  <1>1. PICK m \in S : \A k \in S : <<k, m>> \notin OpToRel(<, Nat)
    BY NatLessThanWellFounded, WFMin
  <1>2. \A k \in S : ~(k < m)
    BY <1>1 DEF OpToRel
  <1>3. \A k \in S : m <= k
    BY <1>2
  <1> QED BY <1>3

\* A set of naturals up to N has a greatest element, its maximum; and a least
\* one, its minimum.
LEMMA GreatestFact ==
  ASSUME NEW N \in Nat, NEW S \in SUBSET (0 .. N), S # {}
  PROVE  /\ Max(S) \in S /\ \A k \in S : k <= Max(S)
         /\ Min(S) \in S
  <1> DEFINE Rest == {N - k : k \in S}
  <1>a. \A k \in S : k \in Nat /\ k <= N
    OBVIOUS
  <1>b. \A k \in S : N - k \in Nat
    BY <1>a
  <1>c. Rest \in SUBSET Nat
    BY <1>b
  <1>d. PICK s \in S : TRUE
    OBVIOUS
  <1>e. N - s \in Rest
    BY <1>d
  <1>1. Rest \in SUBSET Nat /\ Rest # {}
    BY <1>c, <1>e
  <1>2. PICK m \in Rest : \A k \in Rest : m <= k
    BY <1>1, LeastFact
  <1>3. PICK g \in S : m = N - g
    BY <1>2
  <1>4. \A k \in S : N - g <= N - k
    BY <1>2, <1>3
  <1>5. \A k \in S : g >= k
    BY <1>3, <1>4
  <1>6. Max(S) \in S /\ \A k \in S : Max(S) >= k
    BY <1>5 DEF Max
  <1>7. S \in SUBSET Nat
    OBVIOUS
  <1>8. \E l \in S : \A k \in S : l <= k
    BY <1>7, LeastFact
  <1>9. Min(S) \in S
    BY <1>8 DEF Min
  <1> QED BY <1>6, <1>9

\* What holds of 0, and of each number up to N if it does of the one before.
LEMMA Steps ==
  ASSUME NEW N \in Nat, NEW P, 0 \in P, \A n \in 1 .. N : n - 1 \in P => n \in P
  PROVE  \A n \in 0 .. N : n \in P
  <1> DEFINE Bad == {n \in 0 .. N : n \notin P}
  <1> SUFFICES ASSUME Bad # {} PROVE FALSE
    OBVIOUS
  <1>1. Bad \in SUBSET Nat
    OBVIOUS
  <1>2. PICK b \in Bad : \A k \in Bad : b <= k
    BY <1>1, LeastFact
  <1>3. b \in 1 .. N /\ b - 1 \in 0 .. N /\ ~(b <= b - 1)
    BY <1>2
  <1>4. b - 1 \in P
    BY <1>2, <1>3
  <1> QED BY <1>2, <1>3, <1>4

\* c has the first value a, and goes on by the steps g.
Recurs(c, N, a, g) == \A n \in 0 .. N : c[n] = IF n = 0 THEN a ELSE g[<<n, c[n - 1]>>]

\* A function that is given by its first value and by steps exists.
LEMMA Recursion ==
  ASSUME NEW N \in Nat, NEW S, NEW a \in S, NEW g \in [(1 .. N) \X S -> S]
  PROVE  \E c \in [0 .. N -> S] : Recurs(c, N, a, g)
  <1> DEFINE Is(c, m) == \A n \in 0 .. m : c[n] = IF n = 0 THEN a ELSE g[<<n, c[n - 1]>>]
             P == {m \in 0 .. N : \E c \in [0 .. m -> S] : Is(c, m)}
  <1>1. 0 \in P
    <2> DEFINE c == [n \in 0 .. 0 |-> a]
    <2>1. c \in [0 .. 0 -> S]
      OBVIOUS
    <2>2. Is(c, 0)
      OBVIOUS
    <2> HIDE DEF Is, c
    <2>3. \E d \in [0 .. 0 -> S] : Is(d, 0)
      BY <2>1, <2>2
    <2> QED BY <2>3
  <1>2. ASSUME NEW m \in 1 .. N, m - 1 \in P PROVE m \in P
    <2>1. m \in Nat /\ m - 1 \in Nat /\ m - 1 \in 0 .. m - 1 /\ m \notin 0 .. m - 1
      OBVIOUS
    <2>2. PICK p \in [0 .. m - 1 -> S] : Is(p, m - 1)
      BY <1>2
    <2>3. g[<<m, p[m - 1]>>] \in S
      <3>1. <<m, p[m - 1]>> \in (1 .. N) \X S
        BY <2>1
      <3> QED BY <3>1
    <2> DEFINE c == [n \in 0 .. m |-> IF n = m THEN g[<<m, p[m - 1]>>] ELSE p[n]]
    <2>4. \A n \in 0 .. m : n # m => n \in 0 .. m - 1
      BY <2>1
    <2>5. c \in [0 .. m -> S]
      BY <2>3, <2>4
    <2>6. Is(c, m)
      <3>1. c[m] = g[<<m, c[m - 1]>>] /\ m # 0
        BY <2>1
      <3>2. ASSUME NEW n \in 0 .. m - 1 PROVE c[n] = IF n = 0 THEN a ELSE g[<<n, c[n - 1]>>]
        <4>1. c[n] = p[n]
          BY <2>1
        <4>2. n # 0 => n - 1 \in 0 .. m /\ n - 1 # m
          BY <2>1
        <4>3. n # 0 => c[n - 1] = p[n - 1]
          BY <4>2
        <4> QED BY <2>2, <4>1, <4>3
      <3> QED BY <2>4, <3>1, <3>2
    <2> HIDE DEF Is, c
    <2>7. \E d \in [0 .. m -> S] : Is(d, m)
      BY <2>5, <2>6
    <2> QED BY <2>7
  <1> HIDE DEF P
  <1>3. \A m \in 0 .. N : m \in P
    BY <1>1, <1>2, Steps
  <1>4. N \in P
    BY <1>3
  <1> QED BY <1>4 DEF P, Recurs

-----------------------------------------------------------------------------
(* The register file: what the small operations leave behind.              *)

LEMMA RegisterFact == Registers \subseteq Int /\ 0 \notin Registers /\ Registers \subseteq 0 .. 9
  BY DEF Registers, EAX, EDI, ST0

LEMMA AssertionFact ==
  ASSUME NEW s \in Contexts, NEW holds, NEW name \in Assertions
  PROVE  /\ Assertion(s, holds, name) \in Contexts
         /\ Emits(s, Assertion(s, holds, name))
         /\ Assertion(s, holds, name).cell = s.cell
         /\ Assertion(s, holds, name).reg = s.reg
  BY DEF Assertion, Emits, Contexts

LEMMA LastFact ==
  ASSUME NEW s \in Contexts, NEW users \in Seq(Words)
  PROVE  LastrefOf(s, users) \in 0 .. MaxSeq
  <1> DEFINE S == {0} \cup {s.last[users[i][1]] : i \in DOMAIN users}
  <1>1. MaxSeq \in Nat
    BY GenAssumption
  <1>2. \A i \in DOMAIN users : users[i][1] \in Dags
    BY DEF Words
  <1>3. S \in SUBSET (0 .. MaxSeq) /\ S # {}
    BY <1>1, <1>2 DEF Contexts
  <1>4. Max(S) \in S
    BY <1>1, <1>3, GreatestFact
  <1> QED BY <1>3, <1>4 DEF LastrefOf

\* a is s with part p of d in r.
Associated(s, r, d, p, a) ==
  /\ a \in Contexts
  /\ a.link = [s.link EXCEPT ![r] = <<<<d, p>>>> \o s.link[r]]
  /\ a.lastref = [s.lastref EXCEPT ![r] = LastrefOf(s, a.link[r])]
  /\ a.using = s.using /\ a.last = s.last /\ a.inmemory = s.inmemory
  /\ a.inregister = s.inregister \cup {d}
  /\ a.regs = [s.regs EXCEPT ![d] = [s.regs[d] EXCEPT ![p] = r]]

LEMMA AssociateFields ==
  ASSUME NEW s \in Contexts, NEW r \in Registers, NEW d \in Dags, NEW p \in 0 .. 1
  PROVE  Associated(s, r, d, p, Associate(s, r, d, p))
  <1> DEFINE a == Associate(s, r, d, p)
  <1> DEFINE users == <<<<d, p>>>> \o s.link[r]
  <1>1. r # NIL
    BY RegisterFact DEF NIL
  <1>2. users \in Seq(Words)
    BY DEF Contexts, Words
  <1>3. LastrefOf(s, users) \in 0 .. MaxSeq
    BY <1>2, LastFact
  <1> DEFINE last == LastrefOf(s, users)
  <1>4. a = [s EXCEPT !.link[r] = users, !.inregister = s.inregister \cup {d},
                      !.regs[d][p] = r, !.lastref[r] = last]
    BY <1>1 DEF Associate
  <1>5. a.link[r] = users
    BY <1>4 DEF Contexts
  <1> HIDE DEF users
  <1>6. LastrefOf(s, a.link[r]) = last
    BY <1>5
  <1> HIDE DEF last
  <1>7. s.regs[d] \in [0 .. 1 -> RegIds] /\ r \in RegIds
    BY DEF Contexts, RegIds
  <1>8. [s.regs EXCEPT ![d] = [s.regs[d] EXCEPT ![p] = r]] \in [Dags -> [0 .. 1 -> RegIds]]
    BY <1>7 DEF Contexts, RegIds
  <1>9. last \in 0 .. MaxSeq
    BY <1>3 DEF last
  <1> DEFINE link == [s.link EXCEPT ![r] = users]
             lastref == [s.lastref EXCEPT ![r] = last]
             regs == [s.regs EXCEPT ![d] = [s.regs[d] EXCEPT ![p] = r]]
  <1>10. link \in [Registers -> Seq(Words)] /\ lastref \in [Registers -> 0 .. MaxSeq]
    BY <1>2, <1>9 DEF Contexts
  <1>11. a = [s EXCEPT !.link = link, !.inregister = s.inregister \cup {d},
                       !.regs = regs, !.lastref = lastref]
    BY <1>4 DEF Contexts
  <1>12. s.inregister \cup {d} \in SUBSET Dags
    BY DEF Contexts
  <1>13. regs \in [Dags -> [0 .. 1 -> {NIL} \cup Registers]]
    BY <1>8 DEF RegIds
  <1> HIDE DEF link, lastref, regs
  <1>14. /\ a \in Contexts
         /\ a.link = link /\ a.lastref = lastref /\ a.regs = regs
         /\ a.using = s.using /\ a.last = s.last /\ a.inmemory = s.inmemory
         /\ a.inregister = s.inregister \cup {d}
    BY <1>10, <1>11, <1>12, <1>13 DEF Contexts
  <1>15. link = [s.link EXCEPT ![r] = <<<<d, p>>>> \o s.link[r]]
    BY DEF link, users
  <1> HIDE DEF a
  <1>16. Associated(s, r, d, p, a)
    BY <1>6, <1>14, <1>15 DEF lastref, regs, Associated
  <1> QED BY <1>16 DEF a

\* A word more at the head of a list of words.
LEMMA PrependFact ==
  ASSUME NEW T, NEW l \in Seq(T), NEW w \in T
  PROVE  /\ <<w>> \o l \in Seq(T)
         /\ ToSet(<<w>> \o l) = {w} \cup ToSet(l)
         /\ IsInjective(l) /\ w \notin ToSet(l) => IsInjective(<<w>> \o l)
  <1> DEFINE m == <<w>> \o l
  <1>1. /\ m \in Seq(T) /\ Len(m) = Len(l) + 1 /\ m[1] = w
        /\ \A i \in 1 .. Len(l) : m[i + 1] = l[i]
    OBVIOUS
  <1>2. \A j \in 2 .. Len(m) : j - 1 \in 1 .. Len(l) /\ m[j] = l[j - 1]
    BY <1>1
  <1>3. DOMAIN m = 1 .. Len(m) /\ DOMAIN l = 1 .. Len(l) /\ Len(l) \in Nat
    BY <1>1
  <1> HIDE DEF m
  <1>4. ToSet(m) = {w} \cup ToSet(l)
    <2>1. ASSUME NEW j \in 1 .. Len(m) PROVE m[j] \in {w} \cup ToSet(l)
      BY <1>1, <1>2, <1>3 DEF ToSet
    <2>2. ASSUME NEW i \in 1 .. Len(l) PROVE l[i] \in ToSet(m)
      <3>1. i + 1 \in 1 .. Len(m)
        BY <1>1, <1>3
      <3> QED BY <1>1, <1>3, <3>1 DEF ToSet
    <2>3. w \in ToSet(m)
      BY <1>1, <1>3 DEF ToSet
    <2> QED BY <1>3, <2>1, <2>2, <2>3 DEF ToSet
  <1>5. ASSUME IsInjective(l), w \notin ToSet(l) PROVE IsInjective(m)
    <2>1. \A j \in 2 .. Len(m) : m[j] # w
      BY <1>2, <1>3, <1>5 DEF ToSet
    <2>2. ASSUME NEW i \in 1 .. Len(m), NEW j \in 1 .. Len(m), m[i] = m[j] PROVE i = j
      <3>1. CASE i = 1 \/ j = 1
        <4>1. i \in 2 .. Len(m) \/ i = 1
          OBVIOUS
        <4>2. j \in 2 .. Len(m) \/ j = 1
          OBVIOUS
        <4> QED BY <1>1, <2>1, <2>2, <3>1, <4>1, <4>2
      <3>2. CASE i # 1 /\ j # 1
        <4>1. i \in 2 .. Len(m) /\ j \in 2 .. Len(m)
          BY <3>2
        <4>2. l[i - 1] = l[j - 1] /\ i - 1 \in DOMAIN l /\ j - 1 \in DOMAIN l
          BY <1>2, <1>3, <2>2, <4>1
        <4>3. i - 1 = j - 1
          BY <1>5, <4>2 DEF IsInjective
        <4> QED BY <4>1, <4>3
      <3> QED BY <3>1, <3>2
    <2> QED BY <1>3, <2>2 DEF IsInjective
  <1> QED BY <1>1, <1>4, <1>5 DEF m

LEMMA PlainFact ==
  ASSUME Plain, NEW d \in Dags
  PROVE  Ty[d] # "q" /\ PartsOf(d) = {0}
  <1>1. Parts[d] = 1 /\ (Parts[d] = 2 <=> Ty[d] = "q")
    BY GenAssumption DEF Plain
  <1> QED BY <1>1 DEF PartsOf

\* A node comes into a register; where nodes are words it was in none.
LEMMA AssociateFact ==
  ASSUME NEW s, Good(s), NEW r \in RegIds, NEW d \in Dags, NEW p \in 0 .. 1,
         p = 1 => Ty[d] = "q",
         Plain => d \notin s.inregister
  PROVE  /\ Moves(s, Associate(s, r, d, p), {d})
         /\ r # NIL => d \in Associate(s, r, d, p).inregister
  <1>1. CASE r = NIL
    <2>1. Associate(s, r, d, p) = s
      BY <1>1 DEF Associate
    <2> QED BY <1>1, <2>1, StaysMoves
  <1>2. CASE r # NIL
    <2>1. r \in Registers /\ s \in Contexts /\ r # NIL
      BY <1>2 DEF RegIds, Good, Sound
    <2> DEFINE a == Associate(s, r, d, p)
    <2>0. Associated(s, r, d, p, a)
      BY <2>1, AssociateFields
    <2> HIDE DEF a
    <2>2. /\ a \in Contexts
          /\ a.link = [s.link EXCEPT ![r] = <<<<d, p>>>> \o s.link[r]]
          /\ a.lastref = [s.lastref EXCEPT ![r] = LastrefOf(s, a.link[r])]
          /\ a.using = s.using /\ a.last = s.last /\ a.inmemory = s.inmemory
          /\ a.inregister = s.inregister \cup {d}
          /\ a.regs = [s.regs EXCEPT ![d] = [s.regs[d] EXCEPT ![p] = r]]
      BY <2>0 DEF Associated
    <2>3. /\ s.regs \in [Dags -> [0 .. 1 -> RegIds]]
          /\ s.link \in [Registers -> Seq(Words)] /\ s.inregister \subseteq Dags
          /\ s.lastref \in [Registers -> 0 .. MaxSeq]
      BY <2>1 DEF Contexts, RegIds
    <2>4. /\ \A e \in Dags : e # d => a.regs[e] = s.regs[e]
          /\ a.regs[d][p] = r
          /\ \A q \in 0 .. 1 : q # p => a.regs[d][q] = s.regs[d][q]
      BY <2>2, <2>3
    <2>5. Located(a)
      <3>1. \A e \in a.inregister : \E q \in 0 .. 1 : a.regs[e][q] # NIL
        BY <2>1, <2>2, <2>3, <2>4 DEF Good, Sound, Located
      <3>2. \A e \in Dags : Ty[e] # "q" => a.regs[e][1] = NIL
        BY <2>4 DEF Good, Sound, Located
      <3> QED BY <3>1, <3>2 DEF Located
    <2>6. ASSUME Plain PROVE Match(a)
      <3>1. p = 0 /\ s.regs[d][0] = NIL /\ s.regs[d][1] = NIL /\ Match(s)
        BY <2>6, PlainFact DEF Good, Sound, Located, Match
      <3> DEFINE w == <<d, p>>
      <3>2. w \in Words /\ w[1] = d /\ w[2] = p
        BY DEF Words
      <3>3. ASSUME NEW v \in Words, v # w PROVE a.regs[v[1]][v[2]] = s.regs[v[1]][v[2]]
        <4>1. v[1] \in Dags /\ v[2] \in 0 .. 1 /\ (v[1] # d \/ v[2] # p)
          BY <3>3 DEF Words
        <4> QED BY <2>4, <4>1
      <3>4. a.regs[w[1]][w[2]] = r /\ s.regs[w[1]][w[2]] = NIL
        BY <2>4, <3>1, <3>2
      <3> HIDE DEF w
      <3>5. ASSUME NEW q \in Registers
            PROVE  /\ IsInjective(a.link[q])
                   /\ ToSet(a.link[q]) = {v \in Words : a.regs[v[1]][v[2]] = q}
        <4>1. q # NIL /\ s.link[q] \in Seq(Words)
          BY <2>3, RegisterFact DEF NIL
        <4>2. /\ IsInjective(s.link[q])
              /\ ToSet(s.link[q]) = {v \in Words : s.regs[v[1]][v[2]] = q}
          BY <3>1 DEF Match
        <4>3. CASE q = r
          <5>1. a.link[q] = <<w>> \o s.link[q]
            BY <2>2, <2>3, <4>3 DEF w
          <5>2. w \notin ToSet(s.link[q])
            BY <3>4, <4>1, <4>2
          <5>3. IsInjective(a.link[q]) /\ ToSet(a.link[q]) = {w} \cup ToSet(s.link[q])
            BY <3>2, <4>1, <4>2, <5>1, <5>2, PrependFact
          <5> QED BY <3>2, <3>3, <3>4, <4>2, <4>3, <5>3
        <4>4. CASE q # r
          <5>1. a.link[q] = s.link[q]
            BY <2>2, <2>3, <4>4
          <5> QED BY <3>3, <3>4, <4>1, <4>2, <4>4, <5>1
        <4> QED BY <4>3, <4>4
      <3>6. ASSUME NEW q \in Registers PROVE a.lastref[q] = LastrefOf(a, a.link[q])
        <4>1. LastrefOf(a, a.link[q]) = LastrefOf(s, a.link[q])
          BY <2>2 DEF LastrefOf
        <4>2. CASE q = r
          BY <2>2, <2>3, <4>1, <4>2
        <4>3. CASE q # r
          <5>1. a.lastref[q] = s.lastref[q] /\ a.link[q] = s.link[q]
            BY <2>2, <2>3, <4>3
          <5> QED BY <3>1, <4>1, <5>1 DEF Match
        <4> QED BY <4>2, <4>3
      <3>7. ASSUME NEW e \in Dags PROVE e \in a.inregister <=> a.regs[e][0] # NIL
        BY <2>1, <2>2, <2>4, <3>1 DEF Match
      <3> QED BY <3>5, <3>6, <3>7 DEF Match
    <2>7. Good(a)
      BY <2>2, <2>5, <2>6 DEF Good, Sound
    <2>8. Places(s, a, {d}) /\ a.using = s.using /\ d \in a.inregister
      BY <2>2 DEF Places
    <2> QED BY <2>7, <2>8 DEF Moves, a
  <1> QED BY <1>1, <1>2

-----------------------------------------------------------------------------
(* cc_reg_spill, cc_reg_make_unassociated and cc_reg_free.                 *)

LEMMA ContentFact ==
  ASSUME NEW s \in Contexts, NEW r \in RegIds
  PROVE  Content(s, r) \in SUBSET Words
  BY DEF Content, RegIds, Contexts

LEMMA SpillFact ==
  ASSUME NEW s \in Contexts, NEW d \in Dags
  PROVE  Stores(s, Spill(s, d), d)
  <1> DEFINE a == Assertion(s, s.last[d] > seqid, "_lastref > curseqid")
             b == Assertion(a, d \notin s.inmemory, "!_inmemory")
             c == Assertion(b, d \in s.inregister, "_inregister")
             saved == [p \in 0 .. 1 |-> Content(s, s.regs[d][p])]
  <1>1. Spill(s, d) = [[c EXCEPT !.inmemory = c.inmemory \cup {d}] EXCEPT !.cell[d] = saved]
    BY DEF Spill, AllocTemporary
  <1>2. a \in Contexts /\ Emits(s, a)
    BY AssertionFact DEF Assertions
  <1> HIDE DEF a
  <1>3. b \in Contexts /\ Emits(a, b)
    BY <1>2, AssertionFact DEF Assertions
  <1> HIDE DEF b
  <1>4. c \in Contexts /\ Emits(b, c)
    BY <1>3, AssertionFact DEF Assertions
  <1> HIDE DEF c
  <1>5. Emits(s, c)
    BY <1>2, <1>3, <1>4, EmitsTwice
  <1>6. saved \in [0 .. 1 -> SUBSET Words]
    <2>1. \A p \in 0 .. 1 : s.regs[d][p] \in RegIds
      BY DEF Contexts, RegIds
    <2> QED BY <2>1, ContentFact
  <1> HIDE DEF saved
  <1> DEFINE cell == [c.cell EXCEPT ![d] = saved]
             inmemory == c.inmemory \cup {d}
  <1>7. cell \in [Dags -> [0 .. 1 -> SUBSET Words]] /\ inmemory \in SUBSET Dags
    BY <1>4, <1>6 DEF Contexts
  <1>8. Spill(s, d) = [c EXCEPT !.inmemory = inmemory, !.cell = cell]
    BY <1>1, <1>4 DEF Contexts
  <1>9. inmemory = s.inmemory \cup {d}
    BY <1>5 DEF Emits
  <1> HIDE DEF cell, inmemory
  <1>10. /\ Spill(s, d) \in Contexts /\ Spill(s, d).inmemory = inmemory
         /\ Spill(s, d).link = c.link /\ Spill(s, d).lastref = c.lastref
         /\ Spill(s, d).using = c.using /\ Spill(s, d).last = c.last
         /\ Spill(s, d).inregister = c.inregister /\ Spill(s, d).regs = c.regs
    BY <1>4, <1>7, <1>8 DEF Contexts
  <1> QED BY <1>5, <1>9, <1>10 DEF Emits, Stores

LEMMA EmitsNothing ==
  ASSUME NEW s \in Contexts
  PROVE  Emits(s, s)
  BY DEF Emits

LEMMA SaveFact ==
  ASSUME NEW s \in Contexts, NEW d \in Dags
  PROVE  /\ Emits(s, Save(s, d)) \/ Stores(s, Save(s, d), d)
         /\ s.last[d] > seqid => d \in Save(s, d).inmemory
  <1>1. CASE s.last[d] > seqid /\ d \notin s.inmemory
    BY <1>1, SpillFact DEF Save, Stores
  <1>2. CASE ~(s.last[d] > seqid /\ d \notin s.inmemory)
    BY <1>2, EmitsNothing DEF Save
  <1> QED BY <1>1, <1>2

LEMMA WithoutFact ==
  ASSUME NEW users \in Seq(Words), NEW u
  PROVE  Without(users, u) \in Seq(Words)
  <1> DEFINE I == {i \in 1 .. Len(users) : users[i] = u}
             k == IF I # {} THEN Min(I) ELSE 0
  <1>1. Len(users) \in Nat /\ I \in SUBSET (0 .. Len(users))
    OBVIOUS
  <1>2. I # {} => Min(I) \in I
    BY <1>1, GreatestFact
  <1>3. k \in Nat
    BY <1>1, <1>2
  <1>4. SelectInSeq(users, LAMBDA v : v = u) = k
    BY DEF SelectInSeq
  <1> HIDE DEF k
  <1>5. SubSeq(users, k + 1, Len(users)) \in Seq(Words)
    <2>1. \A i \in k + 1 .. Len(users) : users[i] \in Words
      BY <1>1, <1>3
    <2> DEFINE m == k + 1
    <2>2. m \in Nat
      BY <1>3
    <2>3. \A i \in m .. Len(users) : users[i] \in Words
      BY <2>1
    <2> HIDE DEF m
    <2>4. SubSeq(users, m, Len(users)) \in Seq(Words)
      BY <1>1, <2>2, <2>3
    <2> QED BY <2>4 DEF m
  <1> QED BY <1>4, <1>5 DEF Without

\* A node lost one of its registers: it is in none any more, and nothing else
\* changed its place.
Leaves(s, a, d, p) ==
  /\ a \in Contexts
  /\ a.using = s.using /\ a.last = s.last /\ a.inmemory = s.inmemory
  /\ a.inregister = s.inregister \ {d}
  /\ \A e \in Dags : e # d => a.regs[e] = s.regs[e]

LEMMA LeaveFact ==
  ASSUME NEW s \in Contexts, NEW users \in Seq(Words), NEW r \in Registers,
         NEW d \in Dags, NEW p \in 0 .. 1
  PROVE  Leaves(s, Leave(s, users, r, d, p), d, p)
  <1> DEFINE a == Leave(s, users, r, d, p)
             link == [s.link EXCEPT ![r] = users]
             lastref == [s.lastref EXCEPT ![r] = LastrefOf(s, users)]
             regs == [s.regs EXCEPT ![d] = [s.regs[d] EXCEPT ![p] = NIL]]
  <1>1. LastrefOf(s, users) \in 0 .. MaxSeq
    BY LastFact
  <1>2. link \in [Registers -> Seq(Words)] /\ lastref \in [Registers -> 0 .. MaxSeq]
    BY <1>1 DEF Contexts
  <1>3. /\ regs \in [Dags -> [0 .. 1 -> {NIL} \cup Registers]]
        /\ \A e \in Dags : e # d => regs[e] = s.regs[e]
    BY DEF Contexts
  <1>4. s.inregister \ {d} \in SUBSET Dags
    BY DEF Contexts
  <1>5. a = [s EXCEPT !.link = link, !.inregister = s.inregister \ {d},
                      !.regs = regs, !.lastref = lastref]
    BY DEF Leave, Contexts
  <1> HIDE DEF a, link, lastref, regs
  <1>6. /\ a \in Contexts /\ a.using = s.using /\ a.last = s.last
        /\ a.inmemory = s.inmemory /\ a.regs = regs
        /\ a.inregister = s.inregister \ {d}
    BY <1>2, <1>3, <1>4, <1>5 DEF Contexts
  <1>7. Leaves(s, a, d, p)
    BY <1>3, <1>6 DEF Leaves
  <1> QED BY <1>7 DEF a

LEMMA UnassociateFact ==
  ASSUME NEW s \in Contexts, NEW r \in Registers, NEW d \in Dags, NEW p \in 0 .. 1
  PROVE  Leaves(s, Unassociate(s, r, d, p), d, p)
  <1> DEFINE a == Assertion(s, s.regs[d][p] = r, "regs[part] == regid")
             users == Without(s.link[r], <<d, p>>)
  <1>1. r # NIL
    BY RegisterFact DEF NIL
  <1>2. a \in Contexts /\ Emits(s, a)
    BY AssertionFact DEF Assertions
  <1>3. users \in Seq(Words)
    BY WithoutFact DEF Contexts
  <1>4. Unassociate(s, r, d, p) = Leave(a, users, r, d, p)
    BY <1>1 DEF Unassociate
  <1> HIDE DEF a, users
  <1>5. Leaves(a, Leave(a, users, r, d, p), d, p)
    BY <1>2, <1>3, LeaveFact
  <1> QED BY <1>2, <1>4, <1>5 DEF Leaves, Emits

\* The other register of d is freed of it, when it has one.
LEMMA FreeOtherFact ==
  ASSUME NEW s \in Contexts, NEW r \in Registers, NEW d \in Dags
  PROVE  \/ FreeOther(s, r, d) = s
         \/ /\ s.regs[d][1] # NIL
            /\ \/ Emits(s, FreeOther(s, r, d))
               \/ \E p \in 0 .. 1 : Leaves(s, FreeOther(s, r, d), d, p)
  <1>1. \A p \in 0 .. 1 : s.regs[d][p] \in RegIds
    BY DEF Contexts, RegIds
  <1>2. CASE s.regs[d][0] = r /\ s.regs[d][1] # NIL
    <2>1. s.regs[d][1] \in Registers
      BY <1>1, <1>2 DEF RegIds
    <2>2. FreeOther(s, r, d) = Unassociate(s, s.regs[d][1], d, 1)
      BY <1>2 DEF FreeOther
    <2>3. Leaves(s, FreeOther(s, r, d), d, 1)
      BY <2>1, <2>2, UnassociateFact
    <2> QED BY <1>2, <2>3
  <1>3. CASE ~(s.regs[d][0] = r /\ s.regs[d][1] # NIL) /\ s.regs[d][1] = r
    <2> DEFINE a == Assertion(s, s.regs[d][0] # NIL, "regs[0] != X86_NIL")
    <2>1. FreeOther(s, r, d) = Unassociate(a, s.regs[d][0], d, 0)
      BY <1>3 DEF FreeOther
    <2>2. a \in Contexts /\ Emits(s, a)
      BY AssertionFact DEF Assertions
    <2>3. s.regs[d][1] # NIL
      BY <1>3, RegisterFact DEF NIL
    <2> HIDE DEF a
    <2>4. CASE s.regs[d][0] # NIL
      <3>1. s.regs[d][0] \in Registers
        BY <1>1, <2>4 DEF RegIds
      <3>2. Leaves(a, FreeOther(s, r, d), d, 0)
        BY <2>1, <2>2, <3>1, UnassociateFact
      <3>3. Leaves(s, FreeOther(s, r, d), d, 0)
        BY <2>2, <3>2 DEF Leaves, Emits
      <3> QED BY <2>3, <3>3
    <2>5. CASE s.regs[d][0] = NIL
      BY <2>1, <2>2, <2>3, <2>5 DEF Unassociate
    <2> QED BY <2>4, <2>5
  <1>4. CASE ~(s.regs[d][0] = r /\ s.regs[d][1] # NIL) /\ s.regs[d][1] # r
    BY <1>4 DEF FreeOther
  <1> QED BY <1>2, <1>3, <1>4

\* d is in no register any more, and in memory if it is wanted later; where it
\* is a word, the lists of users stay as they are.
Dropped(s, a, d) ==
  /\ a \in Contexts
  /\ a.using = s.using /\ a.last = s.last
  /\ s.inmemory \subseteq a.inmemory /\ a.inmemory \subseteq s.inmemory \cup {d}
  /\ a.inregister = s.inregister \ {d}
  /\ a.regs = [s.regs EXCEPT ![d] = [p \in 0 .. 1 |-> NIL]]
  /\ s.last[d] > seqid => d \in a.inmemory
  /\ s.regs[d][1] = NIL => a.link = s.link /\ a.lastref = s.lastref

LEMMA FreeUserFact ==
  ASSUME NEW s \in Contexts, NEW r \in Registers, NEW d \in Dags
  PROVE  Dropped(s, FreeUser(s, r, d), d)
  <1> DEFINE a == Save(s, d)
             b == FreeOther(a, r, d)
             none == [p \in 0 .. 1 |-> NIL]
             regs == [b.regs EXCEPT ![d] = none]
             c == [b EXCEPT !.inregister = b.inregister \ {d}, !.regs = regs]
  <1>1. FreeUser(s, r, d) = c
    <2>1. FreeUser(s, r, d) = Drop(b, d)
      BY DEF FreeUser
    <2> HIDE DEF b
    <2>2. b \in Contexts => Drop(b, d) = c
      BY DEF Drop, Contexts
    <2> QED BY <2>1, <2>2, SaveFact, FreeOtherFact DEF Stores, Emits, Leaves, b
  <1>2. /\ Emits(s, a) \/ Stores(s, a, d)
        /\ s.last[d] > seqid => d \in a.inmemory
    BY SaveFact
  <1> HIDE DEF a
  <1>3. /\ a \in Contexts /\ a.link = s.link /\ a.lastref = s.lastref
        /\ a.using = s.using /\ a.last = s.last /\ a.inregister = s.inregister
        /\ a.regs = s.regs
        /\ s.inmemory \subseteq a.inmemory /\ a.inmemory \subseteq s.inmemory \cup {d}
    BY <1>2 DEF Emits, Stores
  <1>4. \/ b = a
        \/ a.regs[d][1] # NIL /\ (Emits(a, b) \/ \E p \in 0 .. 1 : Leaves(a, b, d, p))
    BY <1>3, FreeOtherFact
  <1> HIDE DEF b
  <1>5. /\ b \in Contexts /\ b.using = a.using /\ b.last = a.last
        /\ b.inmemory = a.inmemory /\ b.inregister \ {d} = a.inregister \ {d}
        /\ \A e \in Dags : e # d => b.regs[e] = a.regs[e]
        /\ a.regs[d][1] = NIL => b = a
    BY <1>3, <1>4 DEF Leaves, Emits
  <1>6. regs = [a.regs EXCEPT ![d] = none]
    <2>1. a.regs \in [Dags -> [0 .. 1 -> RegIds]] /\ b.regs \in [Dags -> [0 .. 1 -> RegIds]]
      BY <1>3, <1>5 DEF Contexts, RegIds
    <2> HIDE DEF none
    <2> QED BY <1>5, <2>1
  <1>7. regs \in [Dags -> [0 .. 1 -> {NIL} \cup Registers]] /\ b.inregister \ {d} \in SUBSET Dags
    <2>1. none \in [0 .. 1 -> {NIL} \cup Registers]
      OBVIOUS
    <2> HIDE DEF none
    <2> QED BY <1>5, <2>1 DEF Contexts
  <1> HIDE DEF regs
  <1>8. /\ c \in Contexts /\ c.link = b.link /\ c.lastref = b.lastref
        /\ c.using = b.using /\ c.last = b.last /\ c.inmemory = b.inmemory
        /\ c.inregister = b.inregister \ {d} /\ c.regs = regs
    BY <1>5, <1>7 DEF Contexts
  <1> HIDE DEF c
  <1>9. Dropped(s, c, d)
    BY <1>2, <1>3, <1>5, <1>6, <1>8 DEF Dropped
  <1> QED BY <1>1, <1>9

\* cc_reg_free frees the register's users one by one.
LEMMA FreeUsersSteps ==
  ASSUME NEW s \in Contexts, NEW r \in Registers
  PROVE  \E c \in [0 .. Len(s.link[r]) -> Contexts] :
           /\ c[0] = s
           /\ \A n \in 1 .. Len(s.link[r]) : c[n] = FreeUser(c[n - 1], r, s.link[r][n][1])
           /\ FreeUsers(s, r) = c[Len(s.link[r])]
  <1> DEFINE users == s.link[r]
             N == Len(users)
             Is(c) == c = [n \in 0 .. N |-> IF n = 0 THEN s
                                            ELSE FreeUser(c[n - 1], r, users[n][1])]
             freed == CHOOSE c : Is(c)
             g == [p \in (1 .. N) \X Contexts |-> FreeUser(p[2], r, users[p[1]][1])]
  <1>1. FreeUsers(s, r) = freed[N]
    BY DEF FreeUsers
  <1>2. N \in Nat /\ \A n \in 1 .. N : users[n][1] \in Dags
    BY DEF Contexts, Words
  <1> HIDE DEF users, N
  <1>3. g \in [(1 .. N) \X Contexts -> Contexts]
    <2>1. ASSUME NEW p \in (1 .. N) \X Contexts
          PROVE  FreeUser(p[2], r, users[p[1]][1]) \in Contexts
      <3>1. p[2] \in Contexts /\ users[p[1]][1] \in Dags
        BY <1>2
      <3> QED BY <3>1, FreeUserFact DEF Dropped
    <2> QED BY <2>1
  <1>4. \A n \in 1 .. N : \A x \in Contexts : g[<<n, x>>] = FreeUser(x, r, users[n][1])
    OBVIOUS
  <1> HIDE DEF g
  <1>5. PICK c \in [0 .. N -> Contexts] : Recurs(c, N, s, g)
    BY <1>2, <1>3, Recursion
  <1>6. \A n \in 0 .. N : c[n] = IF n = 0 THEN s ELSE FreeUser(c[n - 1], r, users[n][1])
    <2>1. ASSUME NEW n \in 0 .. N, n # 0 PROVE c[n] = FreeUser(c[n - 1], r, users[n][1])
      <3>1. n \in 1 .. N /\ n - 1 \in 0 .. N
        BY <1>2, <2>1
      <3>2. c[n - 1] \in Contexts /\ c[n] = g[<<n, c[n - 1]>>]
        BY <1>5, <3>1 DEF Recurs
      <3> QED BY <1>4, <3>1, <3>2
    <2>2. 0 \in 0 .. N => c[0] = s
      BY <1>5 DEF Recurs
    <2> QED BY <2>1, <2>2
  <1>7. Is(c)
    <2>1. c = [n \in 0 .. N |-> c[n]]
      OBVIOUS
    <2> QED BY <1>6, <2>1
  <1> HIDE DEF Is
  <1>8. Is(freed)
    BY <1>7
  <1> HIDE DEF freed
  <1>9. freed = c
    <2>1. freed = [n \in 0 .. N |-> IF n = 0 THEN s ELSE FreeUser(freed[n - 1], r, users[n][1])]
      BY <1>8 DEF Is
    <2> DEFINE P == {n \in 0 .. N : freed[n] = c[n]}
    <2>2. 0 \in P
      BY <1>2, <1>6, <2>1
    <2>3. ASSUME NEW n \in 1 .. N, n - 1 \in P PROVE n \in P
      <3>1. n \in 0 .. N /\ n # 0 /\ freed[n - 1] = c[n - 1]
        BY <1>2, <2>3
      <3>2. freed[n] = FreeUser(freed[n - 1], r, users[n][1])
        BY <2>1, <3>1
      <3>3. c[n] = FreeUser(c[n - 1], r, users[n][1])
        BY <1>6, <3>1
      <3> QED BY <3>1, <3>2, <3>3
    <2> HIDE DEF P
    <2>4. \A n \in 0 .. N : n \in P
      BY <1>2, <2>2, <2>3, Steps
    <2>5. \A n \in 0 .. N : freed[n] = c[n]
      BY <2>4 DEF P
    <2>6. DOMAIN freed = 0 .. N /\ freed = [n \in 0 .. N |-> freed[n]]
      BY <2>1
    <2> QED BY <2>5, <2>6
  <1>10. c[0] = s /\ \A n \in 1 .. N : c[n] = FreeUser(c[n - 1], r, users[n][1])
    BY <1>2, <1>6
  <1> QED BY <1>1, <1>9, <1>10 DEF N, users

\* The nodes of the first n users of a register.
UsersUpTo(users, n) == {users[i][1] : i \in 1 .. n}

\* After them all of these nodes are out of their registers.
FreedUpTo(s, a, users, n) ==
  LET gone == UsersUpTo(users, n) IN
  /\ a \in Contexts
  /\ a.using = s.using /\ a.last = s.last
  /\ s.inmemory \subseteq a.inmemory /\ a.inmemory \subseteq s.inmemory \cup gone
  /\ a.inregister = s.inregister \ gone
  /\ \A d \in Dags : a.regs[d] = IF d \in gone THEN [p \in 0 .. 1 |-> NIL] ELSE s.regs[d]
  /\ \A d \in gone : s.last[d] > seqid => d \in a.inmemory
  /\ (\A d \in Dags : s.regs[d][1] = NIL) => a.link = s.link /\ a.lastref = s.lastref

LEMMA FreeUsersFact ==
  ASSUME NEW s \in Contexts, NEW r \in Registers
  PROVE  FreedUpTo(s, FreeUsers(s, r), s.link[r], Len(s.link[r]))
  <1> DEFINE users == s.link[r]
             N == Len(users)
  <1>1. PICK c \in [0 .. N -> Contexts] :
          /\ c[0] = s
          /\ \A n \in 1 .. N : c[n] = FreeUser(c[n - 1], r, users[n][1])
          /\ FreeUsers(s, r) = c[N]
    BY FreeUsersSteps
  <1>2. N \in Nat /\ \A n \in 1 .. N : users[n][1] \in Dags
    BY DEF Contexts, Words
  <1> HIDE DEF users, N
  <1> DEFINE P == {n \in 0 .. N : FreedUpTo(s, c[n], users, n)}
  <1>3. 0 \in P
    <2>1. UsersUpTo(users, 0) = {}
      BY DEF UsersUpTo
    <2>2. FreedUpTo(s, s, users, 0)
      BY <2>1 DEF FreedUpTo
    <2> QED BY <1>1, <1>2, <2>2
  <1>4. ASSUME NEW n \in 1 .. N, n - 1 \in P PROVE n \in P
    <2> DEFINE d == users[n][1]
               a == c[n - 1]
               b == c[n]
               gone == UsersUpTo(users, n - 1)
               none == [p \in 0 .. 1 |-> NIL]
    <2>1. d \in Dags /\ FreedUpTo(s, a, users, n - 1) /\ n \in 0 .. N /\ b \in Contexts
      BY <1>1, <1>2, <1>4
    <2>2. Dropped(a, b, d)
      <3>1. a \in Contexts /\ b = FreeUser(a, r, d)
        BY <1>1, <2>1 DEF FreedUpTo
      <3> QED BY <2>1, <3>1, FreeUserFact
    <2>3. UsersUpTo(users, n) = gone \cup {d}
      <3>1. 1 .. n = (1 .. n - 1) \cup {n}
        BY <1>2
      <3> QED BY <3>1 DEF UsersUpTo
    <2> HIDE DEF d, a, b, gone, none
    <2>4. /\ a \in Contexts
          /\ a.using = s.using /\ a.last = s.last
          /\ s.inmemory \subseteq a.inmemory /\ a.inmemory \subseteq s.inmemory \cup gone
          /\ a.inregister = s.inregister \ gone
          /\ \A e \in Dags : a.regs[e] = IF e \in gone THEN none ELSE s.regs[e]
          /\ \A e \in gone : s.last[e] > seqid => e \in a.inmemory
          /\ (\A e \in Dags : s.regs[e][1] = NIL) => a.link = s.link /\ a.lastref = s.lastref
      BY <2>1 DEF FreedUpTo, gone, none
    <2>5. b.regs = [a.regs EXCEPT ![d] = none]
      BY <2>2 DEF Dropped, none
    <2>6. \A e \in Dags : b.regs[e] = IF e \in gone \cup {d} THEN none ELSE s.regs[e]
      BY <2>1, <2>4, <2>5 DEF Contexts
    <2>7. \A e \in gone \cup {d} : s.last[e] > seqid => e \in b.inmemory
      BY <2>2, <2>4 DEF Dropped
    <2>8. (\A e \in Dags : s.regs[e][1] = NIL) => b.link = s.link /\ b.lastref = s.lastref
      <3>1. none[1] = NIL
        BY DEF none
      <3>2. (\A e \in Dags : s.regs[e][1] = NIL) => a.regs[d][1] = NIL
        BY <2>1, <2>4, <3>1
      <3> QED BY <2>2, <2>4, <3>2 DEF Dropped
    <2>9. /\ b.using = s.using /\ b.last = s.last
          /\ s.inmemory \subseteq b.inmemory /\ b.inmemory \subseteq s.inmemory \cup (gone \cup {d})
          /\ b.inregister = s.inregister \ (gone \cup {d})
      BY <2>2, <2>4 DEF Dropped
    <2>10. FreedUpTo(s, b, users, n)
      BY <2>1, <2>3, <2>6, <2>7, <2>8, <2>9 DEF FreedUpTo, none
    <2> QED BY <2>1, <2>10 DEF b
  <1> HIDE DEF P
  <1>5. \A n \in 0 .. N : n \in P
    BY <1>2, <1>3, <1>4, Steps
  <1>6. N \in P
    BY <1>2, <1>5
  <1>7. FreedUpTo(s, c[N], users, N)
    BY <1>6 DEF P
  <1> QED BY <1>1, <1>7 DEF users, N

\* What cc_reg_free leaves: nobody in r, and the others where they were.
FreeFields(s, r, a) ==
  LET b == FreeUsers(s, r) IN
  /\ a \in Contexts
  /\ a.link = [b.link EXCEPT ![r] = <<>>] /\ a.lastref = [b.lastref EXCEPT ![r] = 0]
  /\ a.using = b.using /\ a.last = b.last
  /\ a.inmemory = b.inmemory /\ a.inregister = b.inregister /\ a.regs = b.regs

LEMMA FreeFieldsFact ==
  ASSUME NEW s \in Contexts, NEW r \in Registers
  PROVE  FreeFields(s, r, Free(s, r))
  <1> DEFINE b == FreeUsers(s, r)
             link == [b.link EXCEPT ![r] = <<>>]
             lastref == [b.lastref EXCEPT ![r] = 0]
             a == Free(s, r)
  <1>1. b \in Contexts
    BY FreeUsersFact DEF FreedUpTo
  <1>2. <<>> \in Seq(Words) /\ 0 \in 0 .. MaxSeq
    BY GenAssumption
  <1>3. link \in [Registers -> Seq(Words)] /\ lastref \in [Registers -> 0 .. MaxSeq]
    BY <1>1, <1>2 DEF Contexts
  <1>4. a = [b EXCEPT !.link = link, !.lastref = lastref]
    <2>1. a = [b EXCEPT !.link[r] = <<>>, !.lastref[r] = 0]
      BY DEF Free
    <2> HIDE DEF a, b
    <2> QED BY <1>1, <2>1 DEF Contexts
  <1> HIDE DEF link, lastref, a, b
  <1>5. /\ a \in Contexts /\ a.link = link /\ a.lastref = lastref
        /\ a.using = b.using /\ a.last = b.last
        /\ a.inmemory = b.inmemory /\ a.inregister = b.inregister /\ a.regs = b.regs
    BY <1>1, <1>3, <1>4 DEF Contexts
  <1>6. FreeFields(s, r, a)
    BY <1>5 DEF FreeFields, link, lastref, b
  <1> QED BY <1>6 DEF a

LEMMA NobodyFact ==
  ASSUME NEW s
  PROVE  IsInjective(<<>>) /\ ToSet(<<>>) = {} /\ LastrefOf(s, <<>>) = 0
  <1>1. DOMAIN <<>> = {}
    OBVIOUS
  <1>2. Max({0}) = 0
    <2>1. {0} \in SUBSET (0 .. 0) /\ {0} # {} /\ 0 \in Nat
      OBVIOUS
    <2>2. Max({0}) \in {0}
      BY <2>1, GreatestFact
    <2> QED BY <2>2
  <1>3. {0} \cup {s.last[<<>>[i][1]] : i \in DOMAIN <<>>} = {0}
    BY <1>1
  <1> QED BY <1>1, <1>2, <1>3 DEF IsInjective, ToSet, LastrefOf

\* cc_reg_free keeps what is wanted later, and the lists of users as they
\* should be.
LEMMA FreeFact ==
  ASSUME NEW s, Good(s), NEW r \in Registers
  PROVE  Moves(s, Free(s, r), {})
  <1> DEFINE users == s.link[r]
             b == FreeUsers(s, r)
             a == Free(s, r)
             gone == UsersUpTo(users, Len(users))
  <1>1. /\ s \in Contexts /\ r # NIL
        /\ users \in Seq(Words)
        /\ s.link \in [Registers -> Seq(Words)] /\ s.lastref \in [Registers -> 0 .. MaxSeq]
        /\ s.regs \in [Dags -> [0 .. 1 -> RegIds]] /\ s.inregister \subseteq Dags
    BY RegisterFact DEF Good, Sound, Contexts, RegIds, NIL
  <1>2. gone = {w[1] : w \in ToSet(users)} /\ gone \subseteq Dags
    <2>1. DOMAIN users = 1 .. Len(users)
      BY <1>1
    <2>2. \A w \in ToSet(users) : w[1] \in Dags
      BY <1>1 DEF ToSet, Words
    <2> QED BY <2>1, <2>2 DEF UsersUpTo, ToSet
  <1>3. FreedUpTo(s, b, users, Len(users))
    BY <1>1, FreeUsersFact
  <1>4. FreeFields(s, r, a)
    BY <1>1, FreeFieldsFact
  <1> HIDE DEF users, a
  <1>5. /\ b \in Contexts /\ a \in Contexts
        /\ a.link = [b.link EXCEPT ![r] = <<>>] /\ a.lastref = [b.lastref EXCEPT ![r] = 0]
        /\ a.using = s.using /\ a.last = s.last /\ b.last = s.last
        /\ s.inmemory \subseteq a.inmemory /\ a.inmemory \subseteq s.inmemory \cup gone
        /\ a.inregister = s.inregister \ gone
        /\ \A d \in Dags : a.regs[d] = IF d \in gone THEN [p \in 0 .. 1 |-> NIL] ELSE s.regs[d]
        /\ \A d \in gone : s.last[d] > seqid => d \in a.inmemory
        /\ (\A d \in Dags : s.regs[d][1] = NIL) => b.link = s.link /\ b.lastref = s.lastref
    BY <1>3, <1>4 DEF FreedUpTo, FreeFields
  <1> HIDE DEF gone, b
  <1>6. /\ \A d \in gone : a.regs[d][0] = NIL /\ a.regs[d][1] = NIL
        /\ \A d \in Dags \ gone : a.regs[d] = s.regs[d]
    BY <1>2, <1>5
  <1>7. Located(a)
    <2>1. \A d \in a.inregister : \E p \in 0 .. 1 : a.regs[d][p] # NIL
      BY <1>1, <1>5, <1>6 DEF Good, Sound, Located
    <2>2. \A d \in Dags : Ty[d] # "q" => a.regs[d][1] = NIL
      BY <1>6 DEF Good, Sound, Located
    <2> QED BY <2>1, <2>2 DEF Located
  <1>8. ASSUME Plain
        PROVE  Match(a) /\ a.inmemory \subseteq s.inmemory \cup s.inregister
    <2>1. Match(s) /\ \A d \in Dags : s.regs[d][1] = NIL
      BY <1>8, PlainFact DEF Good, Sound, Located
    <2>2. /\ a.link = [s.link EXCEPT ![r] = <<>>] /\ a.lastref = [s.lastref EXCEPT ![r] = 0]
      BY <1>5, <2>1
    <2>3. ToSet(users) = {w \in Words : s.regs[w[1]][w[2]] = r}
      BY <2>1 DEF Match, users
    <2>4. \A d \in gone : s.regs[d][0] = r
      <3>1. ASSUME NEW w \in ToSet(users) PROVE s.regs[w[1]][0] = r
        <4>1. w \in Words /\ s.regs[w[1]][w[2]] = r
          BY <2>3
        <4>2. w[1] \in Dags /\ (w[2] = 0 \/ w[2] = 1)
          BY <4>1 DEF Words
        <4> QED BY <1>1, <2>1, <4>1, <4>2
      <3> QED BY <1>2, <3>1
    <2>5. \A d \in Dags : s.regs[d][0] = r => d \in gone
      <3>1. ASSUME NEW d \in Dags, s.regs[d][0] = r PROVE d \in gone
        <4> DEFINE w == <<d, 0>>
        <4>1. w \in Words /\ w[1] = d /\ w[2] = 0
          BY DEF Words
        <4>2. w \in ToSet(users)
          BY <2>3, <3>1, <4>1
        <4> QED BY <1>2, <4>1, <4>2
      <3> QED BY <3>1
    <2>6. ASSUME NEW q \in Registers, NEW w \in Words
          PROVE  a.regs[w[1]][w[2]] = q <=> q # r /\ s.regs[w[1]][w[2]] = q
      <3>1. w[1] \in Dags /\ (w[2] = 0 \/ w[2] = 1) /\ q # NIL
        BY RegisterFact DEF Words, NIL
      <3>2. CASE w[1] \in gone
        BY <1>6, <2>1, <2>4, <3>1, <3>2
      <3>3. CASE w[1] \notin gone
        <4>1. a.regs[w[1]] = s.regs[w[1]] /\ s.regs[w[1]][0] # r /\ s.regs[w[1]][1] # r
          BY <1>1, <1>6, <2>1, <2>5, <3>1, <3>3
        <4> QED BY <3>1, <4>1
      <3> QED BY <3>2, <3>3
    <2>7. ASSUME NEW q \in Registers
          PROVE  /\ IsInjective(a.link[q])
                 /\ ToSet(a.link[q]) = {w \in Words : a.regs[w[1]][w[2]] = q}
                 /\ a.lastref[q] = LastrefOf(a, a.link[q])
      <3>1. CASE q = r
        <4>1. a.link[q] = <<>> /\ a.lastref[q] = 0
          BY <1>1, <2>2, <3>1
        <4>2. {w \in Words : a.regs[w[1]][w[2]] = q} = {}
          BY <2>6, <3>1
        <4> QED BY <4>1, <4>2, NobodyFact
      <3>2. CASE q # r
        <4>1. a.link[q] = s.link[q] /\ a.lastref[q] = s.lastref[q]
          BY <1>1, <2>2, <3>2
        <4>2. {w \in Words : a.regs[w[1]][w[2]] = q} = {w \in Words : s.regs[w[1]][w[2]] = q}
          BY <2>6, <3>2
        <4>3. LastrefOf(a, s.link[q]) = LastrefOf(s, s.link[q])
          BY <1>5 DEF LastrefOf
        <4> QED BY <2>1, <4>1, <4>2, <4>3 DEF Match
      <3> QED BY <3>1, <3>2
    <2>8. \A d \in Dags : d \in a.inregister <=> a.regs[d][0] # NIL
      BY <1>5, <1>6, <2>1 DEF Match
    <2>9. gone \subseteq s.inregister
      BY <1>1, <1>2, <2>1, <2>4 DEF Match
    <2> QED BY <1>5, <2>7, <2>8, <2>9 DEF Match
  <1>9. Good(a)
    BY <1>5, <1>7, <1>8 DEF Good, Sound
  <1>10. Places(s, a, {})
    BY <1>1, <1>5, <1>8 DEF Places
  <1> QED BY <1>5, <1>9, <1>10 DEF Moves, a

-----------------------------------------------------------------------------
(* cc_reg_alloc, and giving registers to nodes.                            *)

\* A triple is being translated.
Begun == seqid \in Nat \ {0}

\* Sets of registers of which one can be had while a division sets EAX and EDX
\* aside.
Ample(flags) == flags \subseteq Registers /\ flags \ {EAX, EDX} # {}

LEMMA AmpleFact ==
  /\ Ample(NormalRegs) /\ Ample(NormalAddrRegs) /\ Ample({ST0}) /\ Ample({EAX, EBX, EDX})
  /\ \A d : Ample(RegFlags(d))
  <1>1. Ample(NormalRegs) /\ Ample(NormalAddrRegs) /\ Ample({ST0}) /\ Ample({EAX, EBX, EDX})
    <2>1. /\ ECX \in NormalRegs /\ ECX \in NormalAddrRegs /\ ECX \notin {EAX, EDX}
          /\ ST0 \notin {EAX, EDX} /\ EBX \notin {EAX, EDX}
      BY DEF NormalRegs, NormalAddrRegs, EAX, EBX, ECX, EDX, EDI, ST0
    <2>2. /\ NormalRegs \subseteq Registers /\ NormalAddrRegs \subseteq Registers
          /\ {ST0} \subseteq Registers /\ {EAX, EBX, EDX} \subseteq Registers
      BY DEF Registers, NormalRegs, NormalAddrRegs, EAX, EBX, EDX, EDI, ST0
    <2> QED BY <2>1, <2>2 DEF Ample
  <1>2. \A d : RegFlags(d) \in {{ST0}, NormalRegs, NormalAddrRegs}
    BY DEF RegFlags
  <1> QED BY <1>1, <1>2

LEMMA ChoiceFact ==
  ASSUME NEW s \in Contexts, s.using \subseteq {EAX, EDX}, Begun, NEW flags, Ample(flags)
  PROVE  Choice(s, flags) \in flags
  <1> DEFINE available == Available(s, flags)
             idle == {r \in available : Idle(s, r)}
             lasts == {s.lastref[r] : r \in available}
  <1>1. /\ available # {} /\ available \subseteq flags /\ flags \subseteq 0 .. 9
        /\ available \subseteq Registers
    BY RegisterFact DEF Available, Ample
  <1>2. MaxSeq \in Nat /\ lasts \in SUBSET (0 .. MaxSeq) /\ lasts # {}
    <2>1. \A r \in Registers : s.lastref[r] \in 0 .. MaxSeq
      BY DEF Contexts
    <2>2. MaxSeq \in Nat
      BY GenAssumption
    <2> HIDE DEF available
    <2>3. lasts \in SUBSET (0 .. MaxSeq)
      BY <1>1, <2>1
    <2>4. lasts # {}
      BY <1>1
    <2> QED BY <2>2, <2>3, <2>4
  <1>3. PICK m \in lasts : \A k \in lasts : k <= m
    BY <1>2, GreatestFact
  <1>4. PICK r \in available : s.lastref[r] = m
    BY <1>3
  <1>5. CASE idle # {}
    <2>1. idle \in SUBSET (0 .. 9) /\ idle \subseteq flags
      BY <1>1
    <2> HIDE DEF idle
    <2>2. Min(idle) \in idle
      BY <1>5, <2>1, GreatestFact
    <2>3. Choice(s, flags) = Min(idle)
      BY <1>5 DEF Choice, idle
    <2> QED BY <2>1, <2>2, <2>3
  <1>6. CASE idle = {}
    <2>1. ~(s.lastref[r] < seqid)
      BY <1>4, <1>6 DEF Idle
    <2>2. s.lastref[r] > 0
      BY <1>2, <1>3, <1>4, <2>1 DEF Begun
    <2>3. r \in Victims(s, flags)
      BY <1>3, <1>4, <2>2 DEF Victims
    <2>4. Victims(s, flags) \in SUBSET (0 .. 9) /\ Victims(s, flags) \subseteq flags
      BY <1>1 DEF Victims
    <2>5. Min(Victims(s, flags)) \in Victims(s, flags)
      BY <2>3, <2>4, GreatestFact
    <2>6. Choice(s, flags) = Min(Victims(s, flags))
      BY <1>6, <2>3 DEF Choice
    <2> QED BY <2>4, <2>5, <2>6
  <1> QED BY <1>5, <1>6

\* There always is a register, and handing it out loses nothing.
LEMMA AllocFact ==
  ASSUME NEW s, Good(s), Begun, NEW flags, Ample(flags)
  PROVE  /\ Alloc(s, flags).reg \in flags /\ Alloc(s, flags).reg \in Registers
         /\ Alloc(s, flags).reg # NIL
         /\ Moves(s, Alloc(s, flags).ctx, {})
  <1> DEFINE r == Choice(s, flags)
  <1>1. r \in flags /\ r \in Registers /\ r # NIL
    <2>1. r \in flags
      BY ChoiceFact DEF Good, Sound
    <2> QED BY <2>1, RegisterFact DEF Ample, NIL
  <1> HIDE DEF r
  <1>2. HandOut(s, r).reg = r /\ HandOut(s, r).ctx = Free(s, r)
    BY <1>1 DEF HandOut
  <1>3. Alloc(s, flags) = HandOut(s, r)
    BY DEF Alloc, r
  <1> QED BY <1>1, <1>2, <1>3, FreeFact

LEMMA TakeFact ==
  ASSUME NEW s, Good(s), Begun, NEW flags, Ample(flags), NEW d \in Dags, NEW p \in 0 .. 1,
         p = 1 => Ty[d] = "q",
         Plain => d \notin s.inregister
  PROVE  /\ Take(s, flags, d, p).reg \in flags /\ Take(s, flags, d, p).reg \in Registers
         /\ Take(s, flags, d, p).reg # NIL
         /\ Moves(s, Take(s, flags, d, p).ctx, {d})
         /\ d \in Take(s, flags, d, p).ctx.inregister
  <1> DEFINE a == Alloc(s, flags)
  <1>1. /\ a.reg \in flags /\ a.reg \in Registers /\ a.reg # NIL /\ Moves(s, a.ctx, {})
    BY AllocFact
  <1> HIDE DEF a
  <1>2. a.reg \in RegIds /\ Good(a.ctx) /\ (Plain => d \notin a.ctx.inregister)
    BY <1>1 DEF Moves, Places, RegIds
  <1> DEFINE b == Associate(a.ctx, a.reg, d, p)
  <1>3. Moves(a.ctx, b, {d}) /\ d \in b.inregister
    BY <1>1, <1>2, AssociateFact
  <1>4. Moves(s, b, {d})
    BY <1>1, <1>3, MovesTwice
  <1>5. Take(s, flags, d, p) = [reg |-> a.reg, ctx |-> b]
    BY DEF Take, Taken, a
  <1> HIDE DEF b
  <1> QED BY <1>1, <1>3, <1>4, <1>5

LEMMA GiveFact ==
  ASSUME NEW s, Good(s), NEW r \in RegIds, NEW d \in Dags, NEW p \in 0 .. 1,
         p = 1 => Ty[d] = "q",
         Plain => d \notin s.inregister
  PROVE  /\ Moves(s, Give(s, r, d, p), {d})
         /\ r # NIL => d \in Give(s, r, d, p).inregister
  <1>1. CASE r = NIL
    BY <1>1, StaysMoves DEF Give
  <1>2. CASE r # NIL
    <2> DEFINE a == Free(s, r)
    <2>1. r \in Registers
      BY <1>2 DEF RegIds
    <2>2. Moves(s, a, {})
      BY <2>1, FreeFact
    <2>3. Give(s, r, d, p) = Associate(a, r, d, p)
      BY <1>2 DEF Give
    <2> HIDE DEF a
    <2>4. Good(a) /\ (Plain => d \notin a.inregister)
      BY <2>2 DEF Moves, Places
    <2>5. /\ Moves(a, Associate(a, r, d, p), {d})
          /\ d \in Associate(a, r, d, p).inregister
      BY <1>2, <2>4, AssociateFact
    <2>6. Moves(s, Associate(a, r, d, p), {d})
      BY <2>2, <2>5, MovesTwice
    <2> QED BY <2>3, <2>5, <2>6
  <1> QED BY <1>1, <1>2

\* What may be said of the registers of a node.
LEMMA RegsFact ==
  ASSUME NEW s, Good(s), NEW d \in Dags
  PROVE  /\ s.regs[d] \in [0 .. 1 -> RegIds]
         /\ s.regs[d][0] \in RegIds /\ s.regs[d][1] \in RegIds
         /\ d \in s.inregister => s.regs[d][0] # NIL \/ s.regs[d][1] # NIL
         /\ Ty[d] # "q" => s.regs[d][1] = NIL
  <1>1. \A p \in 0 .. 1 : p = 0 \/ p = 1
    OBVIOUS
  <1> QED BY <1>1 DEF Good, Sound, Located, Contexts, RegIds

LEMMA TakeOverFact ==
  ASSUME NEW s, Good(s), NEW d \in Dags, NEW result \in Dags,
         Ty[d] = "q" => Ty[result] = "q",
         Plain => result \notin s.inregister
  PROVE  /\ Moves(s, TakeOver(s, d, result), {result})
         /\ d \in s.inregister => result \in TakeOver(s, d, result).inregister
  <1> DEFINE r == s.regs[d][0]
             q == s.regs[d][1]
             a == Give(s, r, result, 0)
             b == Give(a, q, result, 1)
  <1>1. /\ r \in RegIds /\ q \in RegIds /\ (q # NIL => Ty[d] = "q")
        /\ d \in s.inregister => r # NIL \/ q # NIL
    BY RegsFact
  <1>2. TakeOver(s, d, result) = b
    BY DEF TakeOver
  <1> HIDE DEF r, q
  <1>3. Moves(s, a, {result}) /\ (r # NIL => result \in a.inregister)
    <2>1. 0 \in 0 .. 1 /\ 0 # 1
      OBVIOUS
    <2> QED BY <1>1, <2>1, GiveFact
  <1> HIDE DEF a
  <1>4. CASE q = NIL
    <2>1. b = a
      BY <1>4 DEF Give
    <2> QED BY <1>1, <1>2, <1>3, <1>4, <2>1
  <1>5. CASE q # NIL
    <2>1. Ty[d] = "q" /\ Ty[result] = "q" /\ ~Plain
      BY <1>1, <1>5, PlainFact
    <2>2. Good(a)
      BY <1>3 DEF Moves
    <2>3. 1 \in 0 .. 1
      OBVIOUS
    <2>4. Moves(a, b, {result}) /\ result \in b.inregister
      BY <1>1, <1>5, <2>1, <2>2, <2>3, GiveFact
    <2>5. Moves(s, b, {result})
      BY <1>3, <2>4, MovesTwice
    <2> QED BY <1>2, <2>4, <2>5
  <1> QED BY <1>4, <1>5

LEMMA AssociatePairFact ==
  ASSUME NEW s, Good(s), NEW regs, regs[0] \in RegIds, regs[1] \in RegIds, NEW d \in Dags,
         regs[1] # NIL => Ty[d] = "q",
         Plain => d \notin s.inregister
  PROVE  /\ Moves(s, AssociatePair(s, regs, d), {d})
         /\ regs[0] # NIL \/ regs[1] # NIL => d \in AssociatePair(s, regs, d).inregister
  <1> DEFINE r == regs[0]
             q == regs[1]
             a == Associate(s, r, d, 0)
             b == Associate(a, q, d, 1)
  <1>1. AssociatePair(s, regs, d) = b
    BY DEF AssociatePair
  <1>2. r \in RegIds /\ q \in RegIds /\ (q # NIL => Ty[d] = "q")
    OBVIOUS
  <1> HIDE DEF r, q
  <1>3. Moves(s, a, {d}) /\ (r # NIL => d \in a.inregister)
    <2>1. 0 \in 0 .. 1 /\ 0 # 1
      OBVIOUS
    <2> QED BY <1>2, <2>1, AssociateFact
  <1> HIDE DEF a
  <1>4. CASE q = NIL
    <2>1. b = a
      BY <1>4 DEF Associate
    <2> QED BY <1>1, <1>2, <1>3, <1>4, <2>1 DEF r, q
  <1>5. CASE q # NIL
    <2>1. Ty[d] = "q" /\ ~Plain
      BY <1>2, <1>5, PlainFact
    <2>2. Good(a)
      BY <1>3 DEF Moves
    <2>3. 1 \in 0 .. 1
      OBVIOUS
    <2>4. Moves(a, b, {d}) /\ d \in b.inregister
      BY <1>2, <1>5, <2>1, <2>2, <2>3, AssociateFact
    <2>5. Moves(s, b, {d})
      BY <1>3, <2>4, MovesTwice
    <2> QED BY <1>1, <2>4, <2>5
  <1> QED BY <1>4, <1>5

-----------------------------------------------------------------------------
(* Emitted codes change the machine only.                                  *)

Formats == {"Reg", "SIB", "InSIB", "InSIB2", "Imm", "None"}

Operands ==
  [format : Formats, regs : [0 .. 1 -> RegIds], base : RegIds, at : Dags \cup {NoDag}]

\* An operand that has something to read.
Readable(op) ==
  /\ op \in Operands
  /\ op.format = "Reg" \/ (op.format \in {"SIB", "InSIB"} /\ op.base # NIL) \/ op.at \in Dags

LEMMA BitsFact ==
  ASSUME NEW s \in Contexts, NEW op, Readable(op), NEW p \in 0 .. 1
  PROVE  Bits(s, op, p) \in SUBSET Words
  <1>1. /\ op.regs[p] \in RegIds /\ op.base \in RegIds
        /\ Content(s, op.regs[p]) \in SUBSET Words /\ Content(s, op.base) \in SUBSET Words
    BY ContentFact DEF Readable, Operands
  <1>2. \A d \in Dags : s.cell[d][p] \in SUBSET Words /\ <<d, p>> \in Words
    BY DEF Contexts, Words
  <1>3. Inds \subseteq Dags
    BY GenAssumption
  <1>4. CASE op.format = "Reg"
    BY <1>1, <1>4 DEF Bits
  <1>5. CASE op.format = "InSIB" /\ op.base # NIL
    <2>1. {<<d, p>> : d \in {i \in Inds : <<Kid[i], 0>> \in s.reg[op.base]}} \in SUBSET Words
      BY <1>2, <1>3
    <2> QED BY <1>5, <2>1 DEF Bits
  <1>6. CASE op.format = "InSIB" /\ op.base = NIL
    <2>1. op.at \in Dags
      BY <1>6 DEF Readable
    <2> QED BY <1>2, <1>6, <2>1 DEF Bits
  <1>7. CASE op.format = "SIB" /\ op.base # NIL
    BY <1>1, <1>7 DEF Bits
  <1>8. CASE ~(op.format = "Reg" \/ op.format = "InSIB" \/ (op.format = "SIB" /\ op.base # NIL))
    <2>1. op.at \in Dags
      BY <1>8 DEF Readable
    <2>2. Bits(s, op, p) = {<<op.at, p>>}
      BY <1>8 DEF Bits
    <2> QED BY <1>2, <2>1, <2>2
  <1> QED BY <1>4, <1>5, <1>6, <1>7, <1>8

LEMMA MisreadFact ==
  ASSUME NEW s \in Contexts, NEW ds \in SUBSET Dags
  PROVE  Emits(s, [s EXCEPT !.misread = s.misread \cup ds])
  BY DEF Emits, Contexts

LEMMA ReadFact ==
  ASSUME NEW s \in Contexts, NEW op, NEW d \in Dags
  PROVE  Emits(s, Read(s, op, d))
  <1>1. Emits(s, s) /\ Emits(s, [s EXCEPT !.misread = s.misread \cup {d}])
    BY EmitsNothing, MisreadFact
  <1> QED BY <1>1 DEF Read

LEMMA ClobberFact ==
  ASSUME NEW s \in Contexts, NEW rs
  PROVE  Emits(s, Clobber(s, rs))
  <1> DEFINE reg == [r \in Registers |-> IF r \in rs THEN {} ELSE s.reg[r]]
  <1>1. reg \in [Registers -> SUBSET Words]
    BY DEF Contexts
  <1>2. Clobber(s, rs) = [s EXCEPT !.reg = reg]
    BY DEF Clobber
  <1> HIDE DEF reg
  <1> QED BY <1>1, <1>2 DEF Emits, Contexts

LEMMA SetRegFact ==
  ASSUME NEW s \in Contexts, NEW r \in RegIds, NEW words \in SUBSET Words
  PROVE  Emits(s, SetReg(s, r, words))
  <1>1. CASE r = NIL
    BY <1>1, EmitsNothing DEF SetReg
  <1>2. CASE r # NIL
    <2> DEFINE reg == [s.reg EXCEPT ![r] = words]
    <2>1. reg \in [Registers -> SUBSET Words]
      BY DEF Contexts
    <2>2. SetReg(s, r, words) = [s EXCEPT !.reg = reg]
      BY <1>2 DEF SetReg, Contexts
    <2> HIDE DEF reg
    <2> QED BY <2>1, <2>2 DEF Emits, Contexts
  <1> QED BY <1>1, <1>2

LEMMA ProduceFact ==
  ASSUME NEW s \in Contexts, NEW regs, regs[0] \in RegIds, regs[1] \in RegIds, NEW d \in Dags
  PROVE  Emits(s, Produce(s, regs, d))
  <1> DEFINE a == SetReg(s, regs[0], {<<d, 0>>})
  <1>1. {<<d, 0>>} \in SUBSET Words /\ {<<d, 1>>} \in SUBSET Words
    BY DEF Words
  <1>2. Emits(s, a)
    BY <1>1, SetRegFact
  <1>3. Produce(s, regs, d) = SetReg(a, regs[1], {<<d, 1>>})
    BY DEF Produce
  <1> HIDE DEF a
  <1>4. a \in Contexts
    BY <1>2 DEF Emits
  <1>5. Emits(a, SetReg(a, regs[1], {<<d, 1>>}))
    BY <1>1, <1>4, SetRegFact
  <1> QED BY <1>2, <1>3, <1>5, EmitsTwice

\* The x87 stack: fld, and what pops it.
LEMMA TopFact ==
  ASSUME NEW s \in Contexts
  PROVE  /\ \A d \in Dags : Emits(s, PushTop(s, d))
         /\ Emits(s, KeepTop(s)) /\ Emits(s, PopTop(s))
  <1>1. ASSUME NEW d \in Dags PROVE Emits(s, PushTop(s, d))
    <2>1. Emits(s, s) /\ Emits(s, [s EXCEPT !.misread = s.misread \cup {d}])
      BY EmitsNothing, MisreadFact
    <2> QED BY <2>1 DEF PushTop
  <1>2. ASSUME NEW n \in 0 .. 8, NEW a \in Contexts PROVE Emits(a, [a EXCEPT !.depth = n])
    BY DEF Emits, Contexts
  <1>3. \A a \in Contexts : /\ (IF a.depth < 8 THEN a.depth + 1 ELSE a.depth) \in 0 .. 8
                            /\ (IF a.depth > 0 THEN a.depth - 1 ELSE a.depth) \in 0 .. 8
    BY DEF Contexts
  <1>4. Emits(s, KeepTop(s))
    BY <1>2, <1>3 DEF KeepTop
  <1>5. Emits(s, PopTop(s))
    <2> DEFINE a == Clobber(s, {ST0})
    <2>1. Emits(s, a)
      BY ClobberFact
    <2>2. PopTop(s) = [a EXCEPT !.depth = IF a.depth > 0 THEN a.depth - 1 ELSE a.depth]
      BY DEF PopTop
    <2> HIDE DEF a
    <2>3. a \in Contexts
      BY <2>1 DEF Emits
    <2>4. Emits(a, PopTop(s))
      BY <1>2, <1>3, <2>2, <2>3
    <2> QED BY <2>1, <2>4, EmitsTwice
  <1> QED BY <1>1, <1>4, <1>5

LEMMA LoadPartFact ==
  ASSUME NEW s \in Contexts, NEW regs, regs[0] \in RegIds, regs[1] \in RegIds,
         NEW op, Readable(op), NEW p \in 0 .. 1
  PROVE  Emits(s, LoadPart(s, regs, op, p))
  <1>1. regs[p] \in RegIds
    <2>1. p = 0 \/ p = 1
      OBVIOUS
    <2> QED BY <2>1
  <1> QED BY <1>1, BitsFact, SetRegFact DEF LoadPart

LEMMA LoadFact ==
  ASSUME NEW s \in Contexts, NEW regs, regs[0] \in RegIds, regs[1] \in RegIds,
         NEW op, Readable(op), NEW d \in Dags
  PROVE  Emits(s, Load(s, regs, op, d))
  <1> DEFINE a == Read(s, op, d)
             b == LoadPart(a, regs, op, 0)
  <1>1. a \in Contexts /\ Emits(s, a)
    BY ReadFact DEF Emits
  <1>2. Load(s, regs, op, d) = IF regs[0] = ST0 THEN KeepTop(PushTop(b, d))
                               ELSE LoadPart(b, regs, op, 1)
    BY DEF Load
  <1> HIDE DEF a
  <1>3. b \in Contexts /\ Emits(a, b)
    <2>1. 0 \in 0 .. 1
      OBVIOUS
    <2> QED BY <1>1, <2>1, LoadPartFact DEF Emits
  <1> HIDE DEF b
  <1>4. Emits(s, b)
    BY <1>1, <1>3, EmitsTwice
  <1>5. Emits(b, LoadPart(b, regs, op, 1))
    <2>1. 1 \in 0 .. 1
      OBVIOUS
    <2> QED BY <1>3, <2>1, LoadPartFact
  <1>6. PushTop(b, d) \in Contexts /\ Emits(b, PushTop(b, d))
    BY <1>3, TopFact DEF Emits
  <1>7. Emits(PushTop(b, d), KeepTop(PushTop(b, d)))
    BY <1>6, TopFact
  <1>8. Emits(b, KeepTop(PushTop(b, d)))
    BY <1>6, <1>7, EmitsTwice
  <1>9. Emits(b, Load(s, regs, op, d))
    BY <1>2, <1>5, <1>8
  <1> QED BY <1>4, <1>9, EmitsTwice

-----------------------------------------------------------------------------
(* Operands: cc_get_operand and the conversions.                           *)

\* The node an INDIR reads through.
KidOf(d) == {Kid[e] : e \in {d} \cap Inds}

\* There is something cc_get_operand can name.
Present(s, d) ==
  IF d \in Inds THEN {d, Kid[d]} \cap (s.inregister \cup s.inmemory) # {}
  ELSE d \in s.inregister \cup s.inmemory \cup Imms \cup Addrs

\* g's operand can be loaded into registers of d.
Loadable(g, d) ==
  /\ Good(g.ctx) /\ Readable(g.op)
  /\ Plain /\ g.op.format \in {"InSIB", "SIB", "Imm"} => d \notin g.ctx.inregister

\* g has an operand of d, which says whether d is in a register.
OperandOf(g, d) ==
  /\ Good(g.ctx)
  /\ Readable(g.op) /\ g.op.format # "InSIB2"
  /\ g.op.format = "Reg" => d \in g.ctx.inregister
  /\ g.op.format \in {"InSIB", "SIB", "Imm"} => d \notin g.ctx.inregister

LEMMA NodesFact ==
  /\ Dags = Imms \cup Addrs \cup Vars \cup Inds \cup Values
  /\ NoDag \notin Dags
  /\ Inds \cap (Vars \cup Values) = {} /\ Imms \cap (Vars \cup Inds \cup Values) = {}
  /\ Vars \cap Values = {}
  /\ \A d \in Inds : d \in Dags /\ Kid[d] \in Dags /\ Kid[d] # d /\ Ty[Kid[d]] # "q"
  <1>1. \A d \in Inds : Ty[Kid[d]] = "w" /\ Kid[d] \in Vars \cup Values
    BY GenAssumption
  <1> QED BY <1>1, GenAssumption

LEMMA RegIdsFact ==
  /\ NIL \in RegIds /\ Registers \subseteq RegIds
  /\ NoRegs \in [0 .. 1 -> RegIds]
  /\ \A r \in RegIds : \A q \in RegIds :
       /\ Pair(r, q) \in [0 .. 1 -> RegIds] /\ Pair(r, q)[0] = r /\ Pair(r, q)[1] = q
  BY DEF RegIds, NoRegs, Pair

LEMMA LocationFact ==
  ASSUME NEW s, Good(s), NEW d \in Dags
  PROVE  /\ Readable(GetLocation(s, d))
         /\ GetLocation(s, d).format \in {"Reg", "InSIB", "Imm", "SIB", "None"}
         /\ GetLocation(s, d).format = "Reg" <=> d \in s.inregister
         /\ d \in s.inregister => GetLocation(s, d).regs = s.regs[d]
         /\ GetLocation(s, d).format = "None" =>
              d \notin s.inregister \cup s.inmemory \cup Imms \cup Addrs
         /\ GetLocation(s, d).format = "InSIB" => d \in s.inmemory
  <1>1. s.regs[d] \in [0 .. 1 -> RegIds]
    BY RegsFact
  <1>2. CASE d \in s.inregister
    <2>1. GetLocation(s, d) = [format |-> "Reg", regs |-> s.regs[d], base |-> NIL, at |-> NoDag]
      BY <1>2 DEF GetLocation, Reg, Operand
    <2> QED BY <1>1, <1>2, <2>1, RegIdsFact DEF Readable, Operands, Formats
  <1>3. CASE d \notin s.inregister
    <2> DEFINE f == IF d \in s.inmemory THEN "InSIB"
                    ELSE IF d \in Imms THEN "Imm" ELSE IF d \in Addrs THEN "SIB" ELSE "None"
    <2>1. GetLocation(s, d) = [format |-> f, regs |-> NoRegs, base |-> NIL, at |-> d]
      BY <1>3 DEF GetLocation, Operand
    <2>2. f \in Formats
      BY DEF Formats
    <2> QED BY <1>3, <2>1, <2>2, RegIdsFact DEF Readable, Operands
  <1> QED BY <1>2, <1>3

\* A register that was taken for d is loaded and becomes a base.
LEMMA LoadBaseFact ==
  ASSUME NEW s, Good(s), Begun, NEW d \in Dags, Plain => d \notin s.inregister,
         NEW format \in {"SIB", "InSIB"}, NEW op, Readable(op),
         NEW g, g = LoadBase(Take(s, NormalAddrRegs, d, 0), format, op, d)
  PROVE  /\ Moves(s, g.ctx, {d}) /\ Readable(g.op) /\ g.op.format = format
  <1> DEFINE a == Take(s, NormalAddrRegs, d, 0)
             b == Load(a.ctx, Pair(a.reg, NIL), op, d)
  <1>1. 0 \in 0 .. 1 /\ 0 # 1 /\ Ample(NormalAddrRegs)
    BY AmpleFact
  <1>2. a.reg \in Registers /\ a.reg # NIL /\ Moves(s, a.ctx, {d})
    BY <1>1, TakeFact
  <1> HIDE DEF a
  <1>3. a.ctx \in Contexts /\ Good(a.ctx) /\ a.reg \in RegIds
    BY <1>2, RegIdsFact DEF Moves, Good, Sound
  <1>4. Pair(a.reg, NIL)[0] \in RegIds /\ Pair(a.reg, NIL)[1] \in RegIds
    BY <1>3, RegIdsFact
  <1>5. Emits(a.ctx, b)
    BY <1>3, <1>4, LoadFact
  <1>6. g = [ctx |-> b, op |-> [format |-> format, regs |-> NoRegs, base |-> a.reg, at |-> NoDag]]
    BY DEF LoadBase, Got, Operand, a
  <1> HIDE DEF b
  <1>7. Moves(a.ctx, b, {d})
    BY <1>3, <1>5, EmitsMoves
  <1>8. Moves(s, b, {d})
    BY <1>2, <1>7, MovesTwice
  <1>9. Readable(g.op)
    BY <1>2, <1>3, <1>6, RegIdsFact DEF Readable, Operands, Formats
  <1> QED BY <1>6, <1>8, <1>9

LEMMA GetFact ==
  ASSUME NEW s, Good(s), Begun, NEW d \in Dags
  PROVE  /\ OperandOf(Get(s, d), d)
         /\ Moves(s, Get(s, d).ctx, KidOf(d))
         /\ Present(s, d) => Get(s, d).op.format # "None"
  <1> DEFINE op == GetOperand(s, d)
             k == Kid[d]
  <1>1. Get(s, d) = ToInSIB(s, op, d)
    BY DEF Get
  <1>2. CASE d \in s.inregister \cup s.inmemory \/ d \notin Inds
    <2>1. op = GetLocation(s, d)
      BY <1>2 DEF GetOperand
    <2>2. Readable(op) /\ op.format \in {"Reg", "InSIB", "Imm", "SIB", "None"}
      BY <2>1, LocationFact
    <2>3. (op.format = "Reg" <=> d \in s.inregister)
      BY <2>1, LocationFact
    <2>4. op.format = "None" => ~Present(s, d)
      BY <1>2, <2>1, LocationFact DEF Present
    <2> HIDE DEF op
    <2>5. CASE op.format # "None"
      <3>1. Get(s, d) = [ctx |-> s, op |-> op]
        BY <1>1, <2>2, <2>5 DEF ToInSIB, Got
      <3> QED BY <2>2, <2>3, <2>5, <3>1, StaysMoves DEF OperandOf
    <2>6. CASE op.format = "None"
      <3> DEFINE a == Assertion(s, FALSE, "cc_get_operand")
      <3>1. Get(s, d) = [ctx |-> a, op |-> op]
        BY <1>1, <2>6 DEF ToInSIB, Got
      <3>2. Emits(s, a)
        BY AssertionFact DEF Assertions, Good, Sound
      <3> HIDE DEF a
      <3>3. Moves(s, a, KidOf(d))
        BY <3>2, EmitsMoves
      <3> QED BY <2>2, <2>4, <2>6, <3>1, <3>3 DEF OperandOf, Moves
    <2> QED BY <2>5, <2>6
  <1>3. CASE d \notin s.inregister \cup s.inmemory /\ d \in Inds
    <2> DEFINE addr == GetLocation(s, k)
    <2>1. k \in Dags /\ k # d /\ Ty[k] # "q" /\ KidOf(d) = {k}
      BY <1>3, NodesFact DEF KidOf
    <2>2. op = Indirect(addr)
      BY <1>3 DEF GetOperand
    <2>3. /\ Readable(addr) /\ addr.format \in {"Reg", "InSIB", "Imm", "SIB", "None"}
          /\ addr.format = "Reg" <=> k \in s.inregister
          /\ addr.format = "Reg" => addr.regs = s.regs[k]
          /\ addr.format = "None" => k \notin s.inregister \cup s.inmemory
      BY <2>1, LocationFact
    <2> HIDE DEF addr, k, op
    <2>4. CASE addr.format = "Reg"
      <3>1. s.regs[k][0] \in RegIds /\ s.regs[k][0] # NIL
        BY <2>1, <2>3, <2>4, RegsFact
      <3>2. op = [format |-> "InSIB", regs |-> NoRegs, base |-> s.regs[k][0], at |-> NoDag]
        BY <2>2, <2>3, <2>4 DEF Indirect, InSIB, Operand
      <3>3. Readable(op) /\ op.format = "InSIB"
        BY <3>1, <3>2, RegIdsFact DEF Readable, Operands, Formats
      <3>4. Get(s, d) = [ctx |-> s, op |-> op]
        BY <1>1, <3>3 DEF ToInSIB, Got
      <3> QED BY <1>3, <3>3, <3>4, StaysMoves DEF OperandOf
    <2>5. CASE addr.format = "InSIB"
      <3> DEFINE a == Assertion(s, k \in Inds \cup Vars, "IR_OP(kid->_op) == IR_INDIR")
                 g == LoadBase(Take(a, NormalAddrRegs, k, 0), "InSIB", addr, k)
      <3>1. op = [addr EXCEPT !.format = "InSIB2"]
        BY <2>2, <2>5 DEF Indirect
      <3>2. op.format = "InSIB2"
        BY <2>3, <3>1 DEF Readable, Operands
      <3>3. Get(s, d) = g
        BY <1>1, <3>2 DEF ToInSIB, LoadKid, k, addr
      <3>4. Emits(s, a)
        BY AssertionFact DEF Assertions, Good, Sound
      <3> HIDE DEF a
      <3>5. Moves(s, a, {k})
        BY <3>4, EmitsMoves
      <3>6. Good(a) /\ k \notin a.inregister
        BY <2>3, <2>5, <3>4, <3>5 DEF Moves, Emits
      <3>7. Moves(a, g.ctx, {k}) /\ Readable(g.op) /\ g.op.format = "InSIB"
        BY <2>1, <2>3, <3>6, LoadBaseFact
      <3> HIDE DEF g
      <3>8. Moves(s, g.ctx, {k})
        BY <3>5, <3>7, MovesTwice
      <3>9. d \notin g.ctx.inregister /\ Good(g.ctx)
        BY <1>3, <2>1, <3>8 DEF Moves, Places
      <3> QED BY <2>1, <3>3, <3>7, <3>8, <3>9 DEF OperandOf
    <2>6. CASE addr.format \notin {"Reg", "InSIB"}
      <3>1. op = addr
        BY <2>2, <2>6 DEF Indirect
      <3>2. CASE op.format # "None"
        <4>1. Get(s, d) = [ctx |-> s, op |-> op]
          BY <1>1, <2>3, <3>1, <3>2 DEF ToInSIB, Got
        <4> QED BY <1>3, <2>3, <2>6, <3>1, <3>2, <4>1, StaysMoves DEF OperandOf
      <3>3. CASE op.format = "None"
        <4> DEFINE a == Assertion(s, FALSE, "cc_get_operand")
        <4>1. Get(s, d) = [ctx |-> a, op |-> op]
          BY <1>1, <3>3 DEF ToInSIB, Got
        <4>2. Emits(s, a)
          BY AssertionFact DEF Assertions, Good, Sound
        <4> HIDE DEF a
        <4>3. Moves(s, a, KidOf(d))
          BY <4>2, EmitsMoves
        <4>4. ~Present(s, d)
          BY <1>3, <2>3, <3>1, <3>3 DEF Present, k
        <4> QED BY <2>3, <3>1, <3>3, <4>1, <4>3, <4>4 DEF OperandOf, Moves
      <3> QED BY <3>2, <3>3
    <2> QED BY <2>4, <2>5, <2>6
  <1> QED BY <1>2, <1>3

\* cc_convert_insib_reg_imm_to_sib: only the context matters to the proofs.
LEMMA ToSIBFact ==
  ASSUME NEW g, NEW d \in Dags, OperandOf(g, d), Begun
  PROVE  Moves(g.ctx, ToSIB(g, d).ctx, {d})
  <1>1. Good(g.ctx) /\ Readable(g.op)
    BY DEF OperandOf
  <1>2. CASE g.op.format = "InSIB"
    <2> DEFINE h == LoadBase(Take(g.ctx, NormalAddrRegs, d, 0), "SIB", g.op, d)
    <2>1. ToSIB(g, d) = h
      BY <1>2 DEF ToSIB
    <2>2. d \notin g.ctx.inregister
      BY <1>2 DEF OperandOf
    <2>3. Moves(g.ctx, h.ctx, {d})
      BY <1>1, <2>2, LoadBaseFact
    <2> QED BY <2>1, <2>3
  <1>3. CASE g.op.format # "InSIB"
    <2>1. ToSIB(g, d).ctx = g.ctx
      BY <1>3 DEF ToSIB, Got
    <2> QED BY <1>1, <2>1, StaysMoves
  <1> QED BY <1>2, <1>3

\* The registers that a value of d is loaded into.
LEMMA TakeHighFact ==
  ASSUME NEW a, NEW d \in Dags, a.reg \in Registers, Good(a.ctx), Begun
  PROVE  /\ Moves(a.ctx, TakeHigh(a, d).ctx, {d})
         /\ TakeHigh(a, d).regs \in [0 .. 1 -> RegIds]
         /\ d \in a.ctx.inregister =>
              d \in TakeHigh(a, d).ctx.inregister
  <1>1. a.reg \in RegIds
    BY RegIdsFact
  <1>2. CASE Ty[d] = "q"
    <2> DEFINE b == Take(a.ctx, NormalAddrRegs, d, 1)
    <2>1. ~Plain /\ 1 \in 0 .. 1 /\ Ample(NormalAddrRegs)
      BY <1>2, PlainFact, AmpleFact
    <2>2. b.reg \in Registers /\ Moves(a.ctx, b.ctx, {d}) /\ d \in b.ctx.inregister
      BY <1>2, <2>1, TakeFact
    <2>3. TakeHigh(a, d) = [regs |-> Pair(a.reg, b.reg), ctx |-> b.ctx]
      BY <1>2 DEF TakeHigh, WithHigh
    <2> HIDE DEF b
    <2>4. Pair(a.reg, b.reg) \in [0 .. 1 -> RegIds]
      BY <1>1, <2>2, RegIdsFact
    <2> QED BY <2>2, <2>3, <2>4
  <1>3. CASE Ty[d] # "q"
    <2>1. TakeHigh(a, d) = [regs |-> Pair(a.reg, NIL), ctx |-> a.ctx]
      BY <1>3 DEF TakeHigh, OneReg
    <2>2. Pair(a.reg, NIL) \in [0 .. 1 -> RegIds]
      BY <1>1, RegIdsFact
    <2> QED BY <2>1, <2>2, StaysMoves
  <1> QED BY <1>2, <1>3

\* cc_convert_insib_sib_imm_to_reg: afterwards d is in a register.
LEMMA ToRegFact ==
  ASSUME NEW g, NEW d \in Dags, Loadable(g, d), Begun
  PROVE  /\ Moves(g.ctx, ToReg(g, d).ctx, {d})
         /\ OperandOf(g, d) =>
              /\ OperandOf(ToReg(g, d), d)
              /\ g.op.format # "None" => d \in ToReg(g, d).ctx.inregister
  <1>1. Good(g.ctx) /\ Readable(g.op)
    BY DEF Loadable
  <1>2. CASE g.op.format \notin {"InSIB", "SIB", "Imm"}
    <2>1. ToReg(g, d) = g
      BY <1>2 DEF ToReg
    <2>2. OperandOf(g, d) => g.op.format = "None" \/ d \in g.ctx.inregister
      BY <1>2 DEF OperandOf, Readable, Operands, Formats
    <2> QED BY <1>1, <2>1, <2>2, StaysMoves
  <1>3. CASE g.op.format \in {"InSIB", "SIB", "Imm"}
    <2> DEFINE a == Take(g.ctx, RegFlags(d), d, 0)
               b == TakeHigh(a, d)
               c == Load(b.ctx, b.regs, g.op, d)
    <2>1. /\ 0 \in 0 .. 1 /\ 0 # 1 /\ Ample(RegFlags(d))
          /\ (Plain => d \notin g.ctx.inregister)
      BY <1>3, AmpleFact DEF Loadable
    <2>2. a.reg \in Registers /\ Moves(g.ctx, a.ctx, {d}) /\ d \in a.ctx.inregister
      BY <1>1, <2>1, TakeFact
    <2>3. ToReg(g, d) = LoadRegs(b, g.op, d)
      BY <1>3 DEF ToReg
    <2> HIDE DEF a
    <2>4. Good(a.ctx)
      BY <2>2 DEF Moves
    <2>5. /\ Moves(a.ctx, b.ctx, {d}) /\ b.regs \in [0 .. 1 -> RegIds]
          /\ d \in b.ctx.inregister
      BY <2>2, <2>4, TakeHighFact
    <2> HIDE DEF b
    <2>6. Good(b.ctx) /\ b.ctx \in Contexts /\ b.regs[0] \in RegIds /\ b.regs[1] \in RegIds
      BY <2>5 DEF Moves, Good, Sound
    <2>7. Emits(b.ctx, c)
      BY <1>1, <2>6, LoadFact
    <2>8. ToReg(g, d) =
            [ctx |-> c, op |-> [format |-> "Reg", regs |-> b.regs, base |-> NIL, at |-> NoDag]]
      BY <2>3 DEF LoadRegs, Got, Reg, Operand
    <2> HIDE DEF c
    <2>9. Moves(b.ctx, c, {d}) /\ d \in c.inregister
      BY <2>5, <2>6, <2>7, EmitsMoves DEF Emits
    <2>10. Moves(g.ctx, b.ctx, {d})
      BY <2>2, <2>5, MovesTwice
    <2>11. Moves(g.ctx, c, {d})
      BY <2>9, <2>10, MovesTwice
    <2>12. Readable(ToReg(g, d).op) /\ ToReg(g, d).op.format = "Reg"
      BY <2>5, <2>8, RegIdsFact DEF Readable, Operands, Formats
    <2> QED BY <2>8, <2>9, <2>11, <2>12 DEF OperandOf, Moves
  <1> QED BY <1>2, <1>3

\* cc_reg_free for one register after another.
LEMMA FreeAllSteps ==
  ASSUME NEW s \in Contexts, NEW rs \in Seq(Registers)
  PROVE  \E c \in [0 .. Len(rs) -> Contexts] :
           /\ c[0] = s
           /\ \A n \in 1 .. Len(rs) : c[n] = Free(c[n - 1], rs[n])
           /\ FreeAll(s, rs) = c[Len(rs)]
  <1> DEFINE N == Len(rs)
             Is(c) == c = [n \in 0 .. N |-> IF n = 0 THEN s ELSE Free(c[n - 1], rs[n])]
             freed == CHOOSE c : Is(c)
             g == [p \in (1 .. N) \X Contexts |-> Free(p[2], rs[p[1]])]
  <1>1. FreeAll(s, rs) = freed[N]
    BY DEF FreeAll
  <1>2. N \in Nat /\ \A n \in 1 .. N : rs[n] \in Registers
    OBVIOUS
  <1> HIDE DEF N
  <1>3. g \in [(1 .. N) \X Contexts -> Contexts]
    <2>1. ASSUME NEW p \in (1 .. N) \X Contexts PROVE Free(p[2], rs[p[1]]) \in Contexts
      <3>1. p[2] \in Contexts /\ rs[p[1]] \in Registers
        BY <1>2
      <3> QED BY <3>1, FreeFieldsFact DEF FreeFields
    <2> QED BY <2>1
  <1>4. \A n \in 1 .. N : \A x \in Contexts : g[<<n, x>>] = Free(x, rs[n])
    OBVIOUS
  <1> HIDE DEF g
  <1>5. PICK c \in [0 .. N -> Contexts] : Recurs(c, N, s, g)
    BY <1>2, <1>3, Recursion
  <1>6. \A n \in 0 .. N : c[n] = IF n = 0 THEN s ELSE Free(c[n - 1], rs[n])
    <2>1. ASSUME NEW n \in 0 .. N, n # 0 PROVE c[n] = Free(c[n - 1], rs[n])
      <3>1. n \in 1 .. N /\ n - 1 \in 0 .. N
        BY <1>2, <2>1
      <3>2. c[n - 1] \in Contexts /\ c[n] = g[<<n, c[n - 1]>>]
        BY <1>5, <3>1 DEF Recurs
      <3> QED BY <1>4, <3>1, <3>2
    <2>2. 0 \in 0 .. N => c[0] = s
      BY <1>5 DEF Recurs
    <2> QED BY <2>1, <2>2
  <1>7. Is(c)
    <2>1. c = [n \in 0 .. N |-> c[n]]
      OBVIOUS
    <2> QED BY <1>6, <2>1
  <1> HIDE DEF Is
  <1>8. Is(freed)
    BY <1>7
  <1> HIDE DEF freed
  <1>9. freed = c
    <2>1. freed = [n \in 0 .. N |-> IF n = 0 THEN s ELSE Free(freed[n - 1], rs[n])]
      BY <1>8 DEF Is
    <2> DEFINE P == {n \in 0 .. N : freed[n] = c[n]}
    <2>2. 0 \in P
      BY <1>2, <1>6, <2>1
    <2>3. ASSUME NEW n \in 1 .. N, n - 1 \in P PROVE n \in P
      <3>1. n \in 0 .. N /\ n # 0 /\ freed[n - 1] = c[n - 1]
        BY <1>2, <2>3
      <3>2. freed[n] = Free(freed[n - 1], rs[n])
        BY <2>1, <3>1
      <3>3. c[n] = Free(c[n - 1], rs[n])
        BY <1>6, <3>1
      <3> QED BY <3>1, <3>2, <3>3
    <2> HIDE DEF P
    <2>4. \A n \in 0 .. N : n \in P
      BY <1>2, <2>2, <2>3, Steps
    <2>5. \A n \in 0 .. N : freed[n] = c[n]
      BY <2>4 DEF P
    <2>6. DOMAIN freed = 0 .. N /\ freed = [n \in 0 .. N |-> freed[n]]
      BY <2>1
    <2> QED BY <2>5, <2>6
  <1>10. c[0] = s /\ \A n \in 1 .. N : c[n] = Free(c[n - 1], rs[n])
    BY <1>2, <1>6
  <1> QED BY <1>1, <1>9, <1>10 DEF N

LEMMA FreeAllFact ==
  ASSUME NEW s, Good(s), NEW rs \in Seq(Registers)
  PROVE  Moves(s, FreeAll(s, rs), {})
  <1> DEFINE N == Len(rs)
  <1>1. s \in Contexts
    BY DEF Good, Sound
  <1>2. PICK c \in [0 .. N -> Contexts] :
          /\ c[0] = s /\ \A n \in 1 .. N : c[n] = Free(c[n - 1], rs[n])
          /\ FreeAll(s, rs) = c[N]
    BY <1>1, FreeAllSteps
  <1>3. N \in Nat /\ \A n \in 1 .. N : rs[n] \in Registers
    OBVIOUS
  <1> HIDE DEF N
  <1> DEFINE P == {n \in 0 .. N : Moves(s, c[n], {})}
  <1>4. 0 \in P
    BY <1>2, <1>3, StaysMoves
  <1>5. ASSUME NEW n \in 1 .. N, n - 1 \in P PROVE n \in P
    <2>1. Moves(s, c[n - 1], {}) /\ rs[n] \in Registers /\ n \in 0 .. N
      BY <1>3, <1>5
    <2>2. Good(c[n - 1])
      BY <2>1 DEF Moves
    <2>3. Moves(c[n - 1], c[n], {})
      BY <1>2, <2>1, <2>2, FreeFact
    <2>4. Moves(s, c[n], {})
      BY <2>1, <2>3, MovesTwice
    <2> QED BY <2>1, <2>4
  <1> HIDE DEF P
  <1>6. \A n \in 0 .. N : n \in P
    BY <1>3, <1>4, <1>5, Steps
  <1>7. N \in P
    BY <1>3, <1>6
  <1> QED BY <1>2, <1>7 DEF P

-----------------------------------------------------------------------------
(* The handlers: what holds when one starts and when it is done.           *)

\* The nodes a triple brings into registers or memory, but for the right
\* operand.
Own(t) == {t.lhs, t.result} \cup KidOf(t.lhs) \cup KidOf(t.rhs)

\* A context in which t may be translated.
Ready(s, t) ==
  /\ Good(s) /\ s.using = {} /\ Begun
  /\ t.lhs \in Dags /\ Present(s, t.lhs)
  /\ t.op \in TwoOperands => t.rhs \in Dags
  /\ t.op \in Computing => t.result \in Values
  /\ t.op \notin Computing => t.result \in Vars \cup {NoDag}
  /\ t.op \in SameTyped => Ty[t.result] = Ty[t.lhs]
  /\ Plain =>
       /\ t.op \in Computing =>
            t.result \notin s.inregister \cup {t.lhs, t.rhs} \cup KidOf(t.lhs) \cup KidOf(t.rhs)
       /\ t.op \in {"LSH", "RSH"} => t.rhs \in Imms \ (s.inregister \cup s.inmemory)
       /\ t.op = "J" => t.lhs \notin KidOf(t.rhs)

\* The result has a place when it is wanted.
Placed(s, t, a) ==
  t.op \in Computing /\ s.last[t.result] > seqid => t.result \in a.inregister \cup a.inmemory

\* A constant that is the right operand of t, other than of a division, is
\* brought nowhere.
CountStays(s, t, a) ==
  Plain /\ t.rhs \in Imms /\ t.rhs # t.lhs /\ t.op \notin {"DIV", "MOD"}
        /\ t.rhs \notin s.inregister \cup s.inmemory
    => t.rhs \notin a.inregister \cup a.inmemory

Done(s, t, a) ==
  Moves(s, a, Own(t) \cup {t.rhs}) /\ Placed(s, t, a) /\ CountStays(s, t, a)

LEMMA KidFact ==
  ASSUME NEW d
  PROVE  KidOf(d) \cap Imms = {} /\ (d \in Imms => d \notin Inds /\ d \notin Values /\ KidOf(d) = {})
  <1>1. \A e \in Inds : Kid[e] \in Vars \cup Values
    BY GenAssumption
  <1> QED BY <1>1, NodesFact DEF KidOf

\* A handler that touches only its own nodes is done with the triple.
LEMMA OwnDone ==
  ASSUME NEW s, NEW t, NEW a, NEW D, Ready(s, t), Moves(s, a, D), D \subseteq Own(t),
         Placed(s, t, a)
  PROVE  Done(s, t, a)
  <1>1. Moves(s, a, Own(t) \cup {t.rhs})
    BY DEF Moves, Places
  <1>2. CountStays(s, t, a)
    <2>1. ASSUME t.rhs \in Imms, t.rhs # t.lhs PROVE t.rhs \notin Own(t)
      <3>1. t.result \in Vars \cup Values \cup {NoDag} /\ t.rhs \in Dags
        BY <2>1, NodesFact DEF Ready
      <3>2. t.rhs # t.result
        BY <2>1, <3>1, NodesFact
      <3> QED BY <2>1, <3>2, KidFact DEF Own
    <2>2. Plain => a.inmemory \cup a.inregister \subseteq s.inmemory \cup s.inregister \cup D
      BY DEF Moves, Places
    <2> QED BY <2>1, <2>2 DEF CountStays
  <1> QED BY <1>1, <1>2 DEF Done

\* What is in a register stays in one or in memory if it is wanted later.
LEMMA StaysPlaced ==
  ASSUME NEW s, NEW t, NEW a, NEW b, NEW D, a.last = s.last, Moves(a, b, D),
         t.op \in Computing => t.result \in a.inregister
  PROVE  Placed(s, t, b)
  BY DEF Placed, Moves, Places

\* The operands of a triple.
BothGot(s, g, t) ==
  /\ Moves(s, g.ctx, KidOf(t.lhs) \cup KidOf(t.rhs)) /\ Good(g.ctx)
  /\ Readable(g.dst) /\ Readable(g.src)
  /\ OperandOf([ctx |-> g.ctx, op |-> g.src], t.rhs)
  /\ t.op = "J" => Loadable([ctx |-> g.ctx, op |-> g.dst], t.lhs)
  /\ Plain /\ t.op \in {"LSH", "RSH"} => g.src.format = "Imm"
  /\ Plain /\ t.op \in Computing => t.result \notin g.ctx.inregister

\* A constant that is in no register and no memory is an immediate.
LEMMA ImmediateFact ==
  ASSUME NEW s, Good(s), NEW d \in Imms, d \notin s.inregister \cup s.inmemory
  PROVE  Get(s, d).op.format = "Imm"
  <1>1. GetOperand(s, d) = [format |-> "Imm", regs |-> NoRegs, base |-> NIL, at |-> d]
    BY KidFact DEF GetOperand, GetLocation, Operand
  <1> HIDE DEF NIL
  <1>2. Get(s, d) = [ctx |-> s, op |-> GetOperand(s, d)]
    BY <1>1 DEF Get, ToInSIB, Got
  <1> QED BY <1>1, <1>2

LEMMA GetBothFact ==
  ASSUME NEW s, NEW t, Ready(s, t), t.op \in TwoOperands
  PROVE  BothGot(s, GetBoth(s, t), t)
  <1> DEFINE l == Get(s, t.lhs)
             r == Get(l.ctx, t.rhs)
             g == [ctx |-> r.ctx, dst |-> l.op, src |-> r.op]
  <1>1. GetBoth(s, t) = g
    BY DEF GetBoth, AddSource, WithSource
  <1>2. t.lhs \in Dags /\ t.rhs \in Dags /\ Good(s) /\ Begun
    BY DEF Ready
  <1>3. OperandOf(l, t.lhs) /\ Moves(s, l.ctx, KidOf(t.lhs))
    BY <1>2, GetFact
  <1>4. Good(l.ctx) /\ Readable(l.op)
    BY <1>3 DEF OperandOf
  <1>5. OperandOf(r, t.rhs) /\ Moves(l.ctx, r.ctx, KidOf(t.rhs))
    BY <1>2, <1>4, GetFact
  <1>6. Plain /\ t.op \in {"LSH", "RSH"} => r.op.format = "Imm"
    <2> SUFFICES ASSUME Plain, t.op \in {"LSH", "RSH"} PROVE r.op.format = "Imm"
      OBVIOUS
    <2>1. t.rhs \in Imms /\ t.rhs \notin s.inregister \cup s.inmemory
      BY DEF Ready
    <2>2. t.rhs \notin l.ctx.inregister \cup l.ctx.inmemory
      BY <1>3, <2>1, KidFact DEF Moves, Places
    <2> HIDE DEF l
    <2> QED BY <1>4, <2>1, <2>2, ImmediateFact
  <1> HIDE DEF l, r
  <1>7. Moves(s, r.ctx, KidOf(t.lhs) \cup KidOf(t.rhs))
    BY <1>3, <1>5, MovesTwice
  <1>8. Good(r.ctx) /\ Readable(r.op)
    BY <1>5 DEF OperandOf
  <1>9. t.op = "J" => Loadable([ctx |-> r.ctx, op |-> l.op], t.lhs)
    BY <1>3, <1>4, <1>5, <1>8 DEF Loadable, OperandOf, Moves, Places, Ready
  <1>10. Plain /\ t.op \in Computing => t.result \notin r.ctx.inregister
    BY <1>7 DEF Ready, Moves, Places
  <1>11. OperandOf([ctx |-> r.ctx, op |-> r.op], t.rhs)
    BY <1>5 DEF OperandOf
  <1>12. g.ctx = r.ctx /\ g.dst = l.op /\ g.src = r.op
    OBVIOUS
  <1> HIDE DEF g
  <1>13. BothGot(s, g, t)
    BY <1>4, <1>6, <1>7, <1>8, <1>9, <1>10, <1>11, <1>12 DEF BothGot
  <1> QED BY <1>1, <1>13

-----------------------------------------------------------------------------
(* X86_OR, XOR, AND, ADD and SUB of integers, MUL, and the float codes.    *)

LEMMA EmitBinaryFact ==
  ASSUME NEW s, Good(s), NEW dst, dst.regs[0] \in RegIds, dst.regs[1] \in RegIds,
         NEW src, NEW t, t.lhs \in Dags, t.rhs \in Dags, t.result \in Dags
  PROVE  Emits(s, EmitBinary(s, dst, src, t))
  <1> DEFINE a == Read(s, dst, t.lhs)
             b == Read(a, src, t.rhs)
             c == Produce(b, dst.regs, t.result)
             r == IF AddsLow(src, t) THEN dst.regs[0] ELSE NIL
  <1>1. EmitBinary(s, dst, src, t) = SetReg(c, r, {})
    BY DEF EmitBinary
  <1>2. r \in RegIds /\ {} \in SUBSET Words
    BY RegIdsFact
  <1>3. a \in Contexts /\ Emits(s, a)
    BY ReadFact DEF Good, Sound, Emits
  <1> HIDE DEF a, r
  <1>4. b \in Contexts /\ Emits(a, b)
    BY <1>3, ReadFact DEF Emits
  <1> HIDE DEF b
  <1>5. c \in Contexts /\ Emits(b, c)
    BY <1>4, ProduceFact DEF Emits
  <1> HIDE DEF c
  <1>6. Emits(c, SetReg(c, r, {}))
    BY <1>2, <1>5, SetRegFact
  <1>7. Emits(s, b)
    BY <1>3, <1>4, EmitsTwice
  <1>8. Emits(s, c)
    BY <1>5, <1>7, EmitsTwice
  <1>9. Emits(s, SetReg(c, r, {}))
    BY <1>6, <1>8, EmitsTwice
  <1> QED BY <1>1, <1>9

LEMMA EmitBinaryMoves ==
  ASSUME NEW s, Good(s), NEW dst, Readable(dst),
         NEW src, NEW t, t.lhs \in Dags, t.rhs \in Dags, t.result \in Dags, NEW D
  PROVE  /\ Moves(s, EmitBinary(s, dst, src, t), D)
         /\ EmitBinary(s, dst, src, t).inregister = s.inregister
  <1>1. dst.regs[0] \in RegIds /\ dst.regs[1] \in RegIds
    BY DEF Readable, Operands
  <1>2. Emits(s, EmitBinary(s, dst, src, t))
    BY <1>1, EmitBinaryFact
  <1> QED BY <1>2, EmitsMoves DEF Emits

\* The left operand was loaded into a.regs, which are the result's from now on.
LEMMA EmitLoadedFact ==
  ASSUME NEW a, Good(a.ctx), a.regs \in [0 .. 1 -> RegIds], a.regs[0] # NIL,
         NEW g, Readable(g.dst), NEW t, t.lhs \in Dags, t.rhs \in Dags, t.result \in Dags,
         a.regs[1] # NIL => Ty[t.result] = "q",
         Plain => t.result \notin a.ctx.inregister
  PROVE  /\ Moves(a.ctx, EmitLoaded(a, g, t), {t.result})
         /\ t.result \in EmitLoaded(a, g, t).inregister
  <1> DEFINE b == Load(a.ctx, a.regs, g.dst, t.lhs)
             c == AssociatePair(b, a.regs, t.result)
             dst == Reg(a.regs)
             src == IF t.lhs = t.rhs THEN Reg(a.regs) ELSE g.src
             e == EmitBinary(c, dst, src, t)
  <1>1. EmitLoaded(a, g, t) = e
    BY DEF EmitLoaded
  <1>2. a.regs[0] \in RegIds /\ a.regs[1] \in RegIds /\ a.ctx \in Contexts
    BY DEF Good, Sound
  <1>3. Emits(a.ctx, b)
    BY <1>2, LoadFact
  <1> HIDE DEF b
  <1>4. Moves(a.ctx, b, {})
    BY <1>3, EmitsMoves
  <1>5. Good(b) /\ (Plain => t.result \notin b.inregister)
    BY <1>3, <1>4 DEF Moves, Emits
  <1>6. Moves(b, c, {t.result}) /\ t.result \in c.inregister
    BY <1>2, <1>5, AssociatePairFact
  <1> HIDE DEF c
  <1>7. dst.regs = a.regs /\ Good(c)
    BY <1>6 DEF Reg, Operand, Moves
  <1> HIDE DEF dst, src
  <1>8. Emits(c, e)
    BY <1>2, <1>7, EmitBinaryFact
  <1> HIDE DEF e
  <1>9. Moves(c, e, {}) /\ t.result \in e.inregister
    BY <1>6, <1>7, <1>8, EmitsMoves DEF Emits
  <1>10. Moves(a.ctx, c, {t.result})
    BY <1>4, <1>6, MovesTwice
  <1>11. Moves(a.ctx, e, {t.result})
    BY <1>9, <1>10, MovesTwice
  <1> QED BY <1>1, <1>9, <1>11

\* The result takes the left operand's registers.
LEMMA TakenOverFact ==
  ASSUME NEW s, Good(s), NEW t, t.lhs \in s.inregister, t.lhs \in Dags, t.rhs \in Dags,
         t.result \in Dags, Ty[t.result] = Ty[t.lhs],
         Plain => t.result \notin s.inregister,
         NEW dst, Readable(dst), NEW src
  PROVE  LET a == EmitBinary(TakeOver(s, t.lhs, t.result), dst, src, t) IN
         Moves(s, a, {t.result}) /\ t.result \in a.inregister
  <1> DEFINE a == TakeOver(s, t.lhs, t.result)
             b == EmitBinary(a, dst, src, t)
  <1>1. Moves(s, a, {t.result}) /\ t.result \in a.inregister
    BY TakeOverFact
  <1> HIDE DEF a
  <1>2. Good(a)
    BY <1>1 DEF Moves
  <1>3. Moves(a, b, {}) /\ b.inregister = a.inregister
    BY <1>2, EmitBinaryMoves
  <1> HIDE DEF b
  <1>4. Moves(s, b, {t.result})
    BY <1>1, <1>3, MovesTwice
  <1>5. t.result \in b.inregister
    BY <1>1, <1>3
  <1> QED BY <1>4, <1>5 DEF a, b

LEMMA TwoRegsFact ==
  ASSUME NEW s, Good(s), Begun, NEW d
  PROVE  /\ Moves(s, TwoRegs(s, d).ctx, {})
         /\ TwoRegs(s, d).regs \in [0 .. 1 -> RegIds] /\ TwoRegs(s, d).regs[0] # NIL
         /\ TwoRegs(s, d).regs[1] # NIL => Ty[d] = "q"
  <1> DEFINE a == Alloc(s, NormalRegs)
             b == Alloc(a.ctx, NormalRegs)
  <1>1. Ample(NormalRegs)
    BY AmpleFact
  <1>2. a.reg \in Registers /\ a.reg # NIL /\ Moves(s, a.ctx, {})
    BY <1>1, AllocFact
  <1>3. TwoRegs(s, d) = AllocHigh(a, d)
    BY DEF TwoRegs
  <1> HIDE DEF a
  <1>4. a.reg \in RegIds /\ Good(a.ctx)
    BY <1>2, RegIdsFact DEF Moves
  <1>5. CASE Ty[d] = "q"
    <2>1. b.reg \in Registers /\ Moves(a.ctx, b.ctx, {})
      BY <1>1, <1>4, AllocFact
    <2>2. TwoRegs(s, d) = [regs |-> Pair(a.reg, b.reg), ctx |-> b.ctx]
      BY <1>3, <1>5 DEF AllocHigh, WithHigh
    <2> HIDE DEF b
    <2>3. Moves(s, b.ctx, {})
      BY <1>2, <2>1, MovesTwice
    <2>4. Pair(a.reg, b.reg) \in [0 .. 1 -> RegIds] /\ Pair(a.reg, b.reg)[0] = a.reg
      BY <1>4, <2>1, RegIdsFact
    <2> QED BY <1>2, <1>5, <2>2, <2>3, <2>4
  <1>6. CASE Ty[d] # "q"
    <2>1. TwoRegs(s, d) = [regs |-> Pair(a.reg, NIL), ctx |-> a.ctx]
      BY <1>3, <1>6 DEF AllocHigh, OneReg
    <2>2. /\ Pair(a.reg, NIL) \in [0 .. 1 -> RegIds]
          /\ Pair(a.reg, NIL)[0] = a.reg /\ Pair(a.reg, NIL)[1] = NIL
      BY <1>4, RegIdsFact
    <2> QED BY <1>2, <2>1, <2>2
  <1> QED BY <1>5, <1>6

\* From the operands to the result: what all codes of two operands share.
LEMMA BinaryDone ==
  ASSUME NEW s, NEW t, Ready(s, t), t.op \in Computing, NEW g, BothGot(s, g, t),
         NEW a, NEW D, D \subseteq {t.result}, Moves(g.ctx, a, D), t.result \in a.inregister
  PROVE  Done(s, t, a)
  <1>1. Moves(s, a, KidOf(t.lhs) \cup KidOf(t.rhs) \cup {t.result})
    <2>1. Moves(s, g.ctx, KidOf(t.lhs) \cup KidOf(t.rhs))
      BY DEF BothGot
    <2> QED BY <2>1, MovesTwice
  <1> QED BY <1>1, OwnDone DEF Own, Placed

LEMMA IntegerBinaryDone ==
  ASSUME NEW s, NEW t, Ready(s, t), t.op \in SameTyped \cap TwoOperands
  PROVE  Done(s, t, IntegerBinary(GetBoth(s, t), t))
  <1> DEFINE g == GetBoth(s, t)
             a == IntegerBinary(g, t)
  <1>1. BothGot(s, g, t)
    BY GetBothFact
  <1> HIDE DEF g
  <1>2. /\ t.op \in Computing /\ t.lhs \in Dags /\ t.rhs \in Dags /\ t.result \in Dags
        /\ Ty[t.result] = Ty[t.lhs] /\ Begun
    BY NodesFact DEF Ready, Computing
  <1>3. Good(g.ctx) /\ Readable(g.dst) /\ (Plain => t.result \notin g.ctx.inregister)
    BY <1>1, <1>2 DEF BothGot
  <1>4. Moves(g.ctx, a, {t.result}) /\ t.result \in a.inregister
    <2>1. CASE t.lhs \in g.ctx.inregister
      <3>1. a = EmitBinary(TakeOver(g.ctx, t.lhs, t.result), g.dst, g.src, t)
        BY <2>1 DEF IntegerBinary
      <3> HIDE DEF a
      <3> QED BY <1>2, <1>3, <2>1, <3>1, TakenOverFact
    <2>2. CASE t.lhs \notin g.ctx.inregister
      <3> DEFINE b == TwoRegs(g.ctx, t.lhs)
      <3>1. a = EmitLoaded(b, g, t)
        BY <2>2 DEF IntegerBinary
      <3>2. /\ Moves(g.ctx, b.ctx, {}) /\ b.regs \in [0 .. 1 -> RegIds] /\ b.regs[0] # NIL
            /\ b.regs[1] # NIL => Ty[t.lhs] = "q"
        BY <1>2, <1>3, TwoRegsFact
      <3> HIDE DEF a, b
      <3>3. Good(b.ctx) /\ (Plain => t.result \notin b.ctx.inregister)
        BY <1>3, <3>2 DEF Moves, Places
      <3>4. Moves(b.ctx, a, {t.result}) /\ t.result \in a.inregister
        BY <1>2, <1>3, <3>1, <3>2, <3>3, EmitLoadedFact
      <3>5. Moves(g.ctx, a, {t.result})
        BY <3>2, <3>4, MovesTwice
      <3> QED BY <3>4, <3>5
    <2> QED BY <2>1, <2>2
  <1> HIDE DEF a
  <1>5. Done(s, t, a)
    BY <1>1, <1>2, <1>4, BinaryDone
  <1> QED BY <1>5 DEF a, g

LEMMA SpillFromRegisterFact ==
  ASSUME NEW s, Good(s), NEW d \in Dags
  PROVE  /\ Moves(s, SpillFromRegister(s, d), {})
         /\ SpillFromRegister(s, d).inregister = s.inregister
  <1>1. CASE d \in s.inregister \ s.inmemory
    <2>1. SpillFromRegister(s, d) = Spill(s, d)
      BY <1>1 DEF SpillFromRegister
    <2>2. Stores(s, Spill(s, d), d)
      BY SpillFact DEF Good, Sound
    <2>3. Moves(s, Spill(s, d), {d})
      BY <2>2, StoresMoves
    <2> QED BY <1>1, <2>1, <2>2, <2>3 DEF Moves, Places, Stores
  <1>2. CASE d \notin s.inregister \ s.inmemory
    <2>1. SpillFromRegister(s, d) = s
      BY <1>2 DEF SpillFromRegister
    <2> QED BY <2>1, StaysMoves
  <1> QED BY <1>1, <1>2

LEMMA TopRegs ==
  /\ ST0 \in Registers /\ EAX \in Registers /\ ECX \in Registers /\ EDX \in Registers
  /\ ESI \in Registers /\ EDI \in Registers
  /\ Top \in [0 .. 1 -> RegIds] /\ Top[0] = ST0 /\ Top[1] = NIL
  /\ EAX # NIL /\ EDX # NIL /\ ST0 # NIL /\ ECX # NIL
  <1>1. /\ ST0 \in Registers /\ EAX \in Registers /\ ECX \in Registers /\ EDX \in Registers
        /\ ESI \in Registers /\ EDI \in Registers
        /\ EAX # NIL /\ EDX # NIL /\ ST0 # NIL /\ ECX # NIL
    BY DEF Registers, EAX, ECX, EDX, ESI, EDI, ST0, NIL
  <1> QED BY <1>1, RegIdsFact DEF Top

LEMMA FloatBinaryDone ==
  ASSUME NEW s, NEW t, Ready(s, t), t.op \in SameTyped \cap TwoOperands
  PROVE  Done(s, t, FloatBinary(GetBoth(s, t), t))
  <1> DEFINE g == GetBoth(s, t)
             a == FloatBinary(g, t)
  <1>1. BothGot(s, g, t)
    BY GetBothFact
  <1> HIDE DEF g
  <1>2. /\ t.op \in Computing /\ t.lhs \in Dags /\ t.rhs \in Dags /\ t.result \in Dags
        /\ Ty[t.result] = Ty[t.lhs] /\ Begun
    BY NodesFact DEF Ready, Computing
  <1>3. Good(g.ctx) /\ Readable(g.dst) /\ (Plain => t.result \notin g.ctx.inregister)
    BY <1>1, <1>2 DEF BothGot
  <1>4. Moves(g.ctx, a, {t.result}) /\ t.result \in a.inregister
    <2>1. CASE t.lhs \in g.ctx.inregister
      <3>1. a = EmitBinary(TakeOver(g.ctx, t.lhs, t.result), g.dst, g.src, t)
        BY <2>1 DEF FloatBinary
      <3> HIDE DEF a
      <3> QED BY <1>2, <1>3, <2>1, <3>1, TakenOverFact
    <2>2. CASE t.lhs \notin g.ctx.inregister
      <3> DEFINE c == SpillFromRegister(g.ctx, t.rhs)
                 d == Free(c, ST0)
                 b == [regs |-> Top, ctx |-> d]
      <3>1. a = EmitLoaded(b, g, t)
        BY <2>2 DEF FloatBinary
      <3>2. Moves(g.ctx, c, {}) /\ Good(c)
        BY <1>2, <1>3, SpillFromRegisterFact DEF Moves
      <3> HIDE DEF c
      <3>3. Moves(c, d, {})
        BY <3>2, TopRegs, FreeFact
      <3>4. Moves(g.ctx, d, {}) /\ Good(d)
        BY <3>2, <3>3, ThenMoves
      <3> HIDE DEF d
      <3>5. b.ctx = d /\ b.regs = Top
        OBVIOUS
      <3> HIDE DEF a, b
      <3>6. Plain => t.result \notin b.ctx.inregister
        BY <1>3, <3>4, <3>5 DEF Moves, Places
      <3>7. Moves(b.ctx, a, {t.result}) /\ t.result \in a.inregister
        BY <1>2, <1>3, <3>1, <3>4, <3>5, <3>6, TopRegs, EmitLoadedFact
      <3>8. Moves(g.ctx, a, {t.result})
        BY <3>4, <3>5, <3>7, MovesTwice
      <3> QED BY <3>7, <3>8
    <2> QED BY <2>1, <2>2
  <1> HIDE DEF a
  <1>5. Done(s, t, a)
    BY <1>1, <1>2, <1>4, BinaryDone
  <1> QED BY <1>5 DEF a, g

\* 64-bit products and quotients are the run-time library's.
LEMMA LongBinaryDone ==
  ASSUME NEW s, NEW t, Ready(s, t), t.op \in SameTyped \cap TwoOperands, Ty[t.lhs] = "q"
  PROVE  Done(s, t, LongBinary(GetBoth(s, t), t))
  <1> DEFINE g == GetBoth(s, t)
             l == Read(g.ctx, g.src, t.rhs)
             r == Read(l, g.dst, t.lhs)
             rs == <<EAX, ECX, EDX>>
             a == FreeAll(r, rs)
             b == AssociatePair(a, Pair(EAX, EDX), t.result)
             c == Clobber(b, CallRegs)
             e == Produce(c, Pair(EAX, EDX), t.result)
  <1>1. BothGot(s, g, t)
    BY GetBothFact
  <1>2. LongBinary(g, t) = e
    BY DEF LongBinary
  <1> HIDE DEF g
  <1>3. /\ t.op \in Computing /\ t.lhs \in Dags /\ t.rhs \in Dags /\ t.result \in Dags
        /\ Ty[t.result] = "q" /\ ~Plain
    BY NodesFact, PlainFact DEF Ready, Computing
  <1>4. g.ctx \in Contexts /\ Good(g.ctx)
    BY <1>1 DEF BothGot, Good, Sound
  <1>5. Moves(g.ctx, l, {}) /\ l \in Contexts
    BY <1>3, <1>4, ReadFact, EmitsMoves DEF Emits
  <1> HIDE DEF l
  <1>6. Moves(g.ctx, r, {}) /\ Good(r)
    BY <1>3, <1>5, ReadFact, ThenEmits
  <1> HIDE DEF r
  <1>7. rs \in Seq(Registers)
    BY TopRegs
  <1> HIDE DEF rs
  <1>8. Moves(r, a, {})
    BY <1>6, <1>7, FreeAllFact
  <1> HIDE DEF a
  <1>9. Moves(g.ctx, a, {}) /\ Good(a)
    BY <1>6, <1>8, ThenMoves
  <1>10. Pair(EAX, EDX)[0] \in RegIds /\ Pair(EAX, EDX)[1] \in RegIds /\ Pair(EAX, EDX)[0] # NIL
    BY TopRegs, RegIdsFact
  <1>11. Moves(a, b, {t.result}) /\ t.result \in b.inregister
    BY <1>3, <1>9, <1>10, AssociatePairFact
  <1> HIDE DEF b
  <1>12. Moves(g.ctx, b, {t.result}) /\ b \in Contexts
    BY <1>9, <1>11, ThenMoves
  <1>13. Moves(g.ctx, c, {t.result}) /\ c \in Contexts /\ c.inregister = b.inregister
    BY <1>12, ClobberFact, ThenEmits
  <1> HIDE DEF c
  <1>14. Moves(g.ctx, e, {t.result}) /\ e.inregister = c.inregister
    BY <1>3, <1>10, <1>13, ProduceFact, ThenEmits
  <1> HIDE DEF e
  <1>15. Done(s, t, e)
    BY <1>1, <1>3, <1>11, <1>13, <1>14, BinaryDone
  <1> QED BY <1>2, <1>15 DEF g

-----------------------------------------------------------------------------
(* X86_LSH and RSH, X86_DIV and MOD of words.                              *)

LEMMA StoreFact ==
  ASSUME NEW s \in Contexts, NEW op, Readable(op), NEW r \in RegIds
  PROVE  Emits(s, Store(s, op, r))
  <1>1. Content(s, r) \in SUBSET Words
    BY ContentFact
  <1>2. CASE op.format = "Reg"
    <2>1. Store(s, op, r) = SetReg(s, op.regs[0], Content(s, r))
      BY <1>2 DEF Store
    <2>2. op.regs[0] \in RegIds
      BY DEF Readable, Operands
    <2> QED BY <1>1, <2>1, <2>2, SetRegFact
  <1>3. CASE op.format = "InSIB" /\ op.base = NIL
    <2> DEFINE cell == [s.cell EXCEPT ![op.at][0] = Content(s, r)]
    <2>1. op.at \in Dags
      BY <1>3 DEF Readable
    <2>2. cell \in [Dags -> [0 .. 1 -> SUBSET Words]]
      BY <1>1, <2>1 DEF Contexts
    <2>3. Store(s, op, r) = [s EXCEPT !.cell = cell]
      BY <1>3 DEF Store, Contexts
    <2> HIDE DEF cell
    <2> QED BY <2>2, <2>3 DEF Emits, Contexts
  <1>4. CASE ~(op.format = "Reg" \/ (op.format = "InSIB" /\ op.base = NIL))
    <2>1. Store(s, op, r) = s
      BY <1>4 DEF Store
    <2> QED BY <2>1, EmitsNothing
  <1> QED BY <1>2, <1>3, <1>4

LEMMA ShiftTargetFact ==
  ASSUME NEW g, NEW t, Good(g.ctx), Readable(g.dst), Begun, t.lhs \in Dags,
         Ty[t.lhs] # "q", t.result \in Dags,
         Plain => t.result \notin g.ctx.inregister
  PROVE  /\ Moves(g.ctx, ShiftTarget(g, t), {t.result})
         /\ t.result \in ShiftTarget(g, t).inregister
  <1>1. 0 \in 0 .. 1 /\ 0 # 1
    OBVIOUS
  <1>2. CASE InPlace(g, t)
    <2> DEFINE r == g.ctx.regs[t.lhs][0]
    <2>1. t.lhs \in g.ctx.inregister
      BY <1>2 DEF InPlace
    <2>2. r \in RegIds /\ r # NIL
      BY <2>1, RegsFact
    <2>3. ShiftTarget(g, t) = Give(g.ctx, r, t.result, 0)
      BY <1>2 DEF ShiftTarget
    <2> HIDE DEF r
    <2> QED BY <1>1, <2>2, <2>3, GiveFact
  <1>3. CASE ~InPlace(g, t)
    <2> DEFINE a == Alloc(g.ctx, {EAX, EBX, EDX})
               b == Load(a.ctx, Pair(a.reg, NIL), g.dst, t.lhs)
               c == Associate(b, a.reg, t.result, 0)
    <2>1. Ample({EAX, EBX, EDX})
      BY AmpleFact
    <2>2. a.reg \in Registers /\ a.reg # NIL /\ Moves(g.ctx, a.ctx, {})
      BY <2>1, AllocFact
    <2>3. ShiftTarget(g, t) = c
      BY <1>3 DEF ShiftTarget, ShiftLoaded
    <2> HIDE DEF a
    <2>4. a.reg \in RegIds /\ a.ctx \in Contexts
      BY <2>2, RegIdsFact DEF Moves, Good, Sound
    <2>5. Pair(a.reg, NIL)[0] \in RegIds /\ Pair(a.reg, NIL)[1] \in RegIds
      BY <2>4, RegIdsFact
    <2>6. Emits(a.ctx, b)
      BY <2>4, <2>5, LoadFact
    <2> HIDE DEF b
    <2>7. Moves(g.ctx, b, {}) /\ Good(b)
      BY <2>2, <2>6, ThenEmits
    <2>8. Plain => t.result \notin b.inregister
      BY <2>7 DEF Moves, Places
    <2>9. Moves(b, c, {t.result}) /\ t.result \in c.inregister
      BY <1>1, <2>2, <2>4, <2>7, <2>8, AssociateFact
    <2> HIDE DEF c
    <2>10. Moves(g.ctx, c, {t.result})
      BY <2>7, <2>9, ThenMoves
    <2> QED BY <2>3, <2>9, <2>10
  <1> QED BY <1>2, <1>3

LEMMA ShiftCountFact ==
  ASSUME NEW s, Good(s), NEW src, Readable(src), NEW d \in Dags,
         Plain => src.format = "Imm"
  PROVE  /\ Plain => ShiftCount(s, src, d) = s
         /\ Moves(s, ShiftCount(s, src, d), {d})
  <1>1. CASE src.format = "Imm" \/ (src.format = "Reg" /\ src.regs[0] = ECX)
    <2>1. ShiftCount(s, src, d) = s
      BY <1>1 DEF ShiftCount
    <2> QED BY <2>1, StaysMoves
  <1>2. CASE ~(src.format = "Imm" \/ (src.format = "Reg" /\ src.regs[0] = ECX))
    <2> DEFINE a == Free(s, ECX)
               b == Store(a, src, ECX)
               c == Associate(b, ECX, d, 0)
    <2>1. ~Plain
      BY <1>2
    <2>2. ShiftCount(s, src, d) = c
      BY <1>2 DEF ShiftCount
    <2>3. Moves(s, a, {}) /\ a \in Contexts
      BY TopRegs, FreeFact DEF Moves, Good, Sound
    <2> HIDE DEF a
    <2>4. Emits(a, b)
      BY <2>3, TopRegs, RegIdsFact, StoreFact
    <2> HIDE DEF b
    <2>5. Moves(s, b, {}) /\ Good(b)
      BY <2>3, <2>4, ThenEmits
    <2>6. 0 \in 0 .. 1 /\ 0 # 1 /\ ECX \in RegIds
      BY TopRegs, RegIdsFact
    <2>7. Moves(b, c, {d})
      BY <2>1, <2>5, <2>6, AssociateFact
    <2> HIDE DEF c
    <2> QED BY <2>1, <2>2, <2>5, <2>7, ThenMoves
  <1> QED BY <1>1, <1>2

\* A handler that brings its right operand somewhere, when nodes are not words.
LEMMA LongDone ==
  ASSUME NEW s, NEW t, NEW a, ~Plain, Moves(s, a, Own(t) \cup {t.rhs}), Placed(s, t, a)
  PROVE  Done(s, t, a)
  BY DEF Done, CountStays

LEMMA GotMoves ==
  ASSUME NEW s, NEW t, NEW g, BothGot(s, g, t), NEW a, NEW D, D \subseteq {t.rhs, t.result},
         Moves(g.ctx, a, D)
  PROVE  Moves(s, a, Own(t) \cup {t.rhs})
  BY MovesTwice DEF BothGot, Own

LEMMA ShiftWordDone ==
  ASSUME NEW s, NEW t, Ready(s, t), t.op \in {"LSH", "RSH"}, Ty[t.lhs] = "w"
  PROVE  Done(s, t, ShiftWord(GetBoth(s, t), t))
  <1> DEFINE g == GetBoth(s, t)
             a == ShiftTarget(g, t)
             b == ShiftCount(a, g.src, t.rhs)
             dst == GetOperand(b, t.result)
             c == EmitBinary(b, dst, GetOperand(b, t.rhs), t)
  <1>1. /\ t.op \in Computing /\ t.lhs \in Dags /\ t.rhs \in Dags /\ t.result \in Dags
        /\ t.result \in Values /\ Begun /\ t.op \in TwoOperands
    BY NodesFact DEF Ready, Computing, SameTyped, TwoOperands
  <1>2. BothGot(s, g, t)
    BY <1>1, GetBothFact
  <1>3. ShiftWord(g, t) = c
    BY DEF ShiftWord, EmitShift
  <1> HIDE DEF g
  <1>4. /\ Good(g.ctx) /\ Readable(g.dst) /\ Readable(g.src)
        /\ Plain => t.result \notin g.ctx.inregister
        /\ Plain => g.src.format = "Imm"
    BY <1>1, <1>2 DEF BothGot
  <1>5. Moves(g.ctx, a, {t.result}) /\ t.result \in a.inregister
    BY <1>1, <1>4, ShiftTargetFact
  <1> HIDE DEF a
  <1>6. Good(a)
    BY <1>5 DEF Moves
  <1>7. Moves(a, b, {t.rhs}) /\ (Plain => b = a)
    BY <1>1, <1>4, <1>6, ShiftCountFact
  <1> HIDE DEF b
  <1>8. Good(b)
    BY <1>7 DEF Moves
  <1>9. Readable(dst)
    <2>1. dst = GetLocation(b, t.result)
      BY <1>1, NodesFact DEF GetOperand
    <2> QED BY <1>1, <1>8, <2>1, LocationFact
  <1> HIDE DEF dst
  <1>10. Moves(b, c, {}) /\ c.inregister = b.inregister
    BY <1>1, <1>8, <1>9, EmitBinaryMoves
  <1> HIDE DEF c
  <1>11. Moves(g.ctx, b, {t.rhs, t.result})
    BY <1>5, <1>7, ThenMoves
  <1>12. Moves(g.ctx, c, {t.rhs, t.result})
    BY <1>10, <1>11, ThenMoves
  <1>13. CASE Plain
    <2>1. Moves(g.ctx, c, {t.result}) /\ t.result \in c.inregister
      BY <1>5, <1>7, <1>10, <1>13, ThenMoves
    <2> QED BY <1>1, <1>2, <1>3, <2>1, BinaryDone DEF g
  <1>14. CASE ~Plain
    <2>1. Moves(s, c, Own(t) \cup {t.rhs})
      BY <1>2, <1>12, GotMoves
    <2>2. Moves(a, c, {t.rhs})
      BY <1>7, <1>10, ThenMoves
    <2>3. a.last = s.last
      BY <1>2, <1>5 DEF BothGot, Moves, Places
    <2>4. Placed(s, t, c)
      BY <1>5, <2>2, <2>3, StaysPlaced
    <2> QED BY <1>3, <1>14, <2>1, <2>4, LongDone DEF g
  <1> QED BY <1>13, <1>14

LEMMA ShiftLongDone ==
  ASSUME NEW s, NEW t, Ready(s, t), t.op \in {"LSH", "RSH"}, Ty[t.lhs] = "q"
  PROVE  Done(s, t, ShiftLong(GetBoth(s, t), t))
  <1> DEFINE g == GetBoth(s, t)
             saves == /\ t.rhs \in g.ctx.inregister \ g.ctx.inmemory
                      /\ g.ctx.regs[t.rhs][0] \in {EAX, EDX}
             a == IF saves THEN Spill(g.ctx, t.rhs) ELSE g.ctx
             rs == <<EAX, ECX, EDX>>
             regs == Pair(EAX, EDX)
             freed == FreeAll(a, rs)
             b == Load(freed, regs, g.dst, t.lhs)
             loaded == Load(b, Pair(ECX, NIL), g.src, t.rhs)
             c == AssociatePair(loaded, regs, t.result)
             dst == Reg(regs)
             src == Reg(Pair(ECX, NIL))
             e == EmitBinary(c, dst, src, t)
  <1>1. /\ t.op \in Computing /\ t.lhs \in Dags /\ t.rhs \in Dags /\ t.result \in Dags
        /\ Ty[t.result] = "q" /\ ~Plain /\ t.op \in TwoOperands
    BY NodesFact, PlainFact DEF Ready, Computing, SameTyped, TwoOperands
  <1>2. BothGot(s, g, t)
    BY <1>1, GetBothFact
  <1>3. ShiftLong(g, t) = e
    BY DEF ShiftLong
  <1> HIDE DEF g, saves
  <1>4. Good(g.ctx) /\ Readable(g.dst) /\ Readable(g.src) /\ g.ctx \in Contexts
    BY <1>2 DEF BothGot, Good, Sound
  <1>5. Moves(g.ctx, a, {t.rhs}) /\ Good(a)
    <2>1. Stores(g.ctx, Spill(g.ctx, t.rhs), t.rhs)
      BY <1>1, <1>4, SpillFact
    <2>2. Moves(g.ctx, Spill(g.ctx, t.rhs), {t.rhs})
      BY <1>4, <2>1, StoresMoves
    <2> QED BY <1>4, <2>2, StaysMoves DEF Moves
  <1> HIDE DEF a
  <1>6. rs \in Seq(Registers)
    BY TopRegs
  <1> HIDE DEF rs
  <1>7. Moves(g.ctx, freed, {t.rhs}) /\ freed \in Contexts
    <2>1. Moves(a, freed, {})
      BY <1>5, <1>6, FreeAllFact
    <2> HIDE DEF freed
    <2> QED BY <1>5, <2>1, ThenMoves
  <1> HIDE DEF freed
  <1>8. /\ regs \in [0 .. 1 -> RegIds] /\ regs[0] \in RegIds /\ regs[1] \in RegIds
        /\ regs[0] # NIL
        /\ Pair(ECX, NIL)[0] \in RegIds /\ Pair(ECX, NIL)[1] \in RegIds
    BY TopRegs, RegIdsFact
  <1> HIDE DEF regs
  <1>9. Moves(g.ctx, b, {t.rhs}) /\ b \in Contexts
    <2>1. Emits(freed, b)
      BY <1>1, <1>4, <1>7, <1>8, LoadFact
    <2> HIDE DEF b
    <2> QED BY <1>7, <2>1, ThenEmits
  <1> HIDE DEF b
  <1>10. Moves(g.ctx, loaded, {t.rhs}) /\ Good(loaded)
    <2>1. Emits(b, loaded)
      BY <1>1, <1>4, <1>8, <1>9, LoadFact
    <2> HIDE DEF loaded
    <2> QED BY <1>9, <2>1, ThenEmits
  <1> HIDE DEF loaded
  <1>11. Moves(loaded, c, {t.result}) /\ t.result \in c.inregister
    BY <1>1, <1>8, <1>10, AssociatePairFact
  <1> HIDE DEF c
  <1>12. Moves(g.ctx, c, {t.rhs, t.result}) /\ Good(c)
    BY <1>10, <1>11, ThenMoves
  <1>13. dst.regs[0] \in RegIds /\ dst.regs[1] \in RegIds
    BY <1>8 DEF Reg, Operand
  <1> HIDE DEF dst, src
  <1>14. Emits(c, e)
    BY <1>1, <1>12, <1>13, EmitBinaryFact
  <1> HIDE DEF e
  <1>15. Moves(g.ctx, e, {t.rhs, t.result}) /\ e.inregister = c.inregister
    BY <1>12, <1>14, ThenEmits
  <1>16. Moves(s, e, Own(t) \cup {t.rhs})
    BY <1>2, <1>15, GotMoves
  <1>17. Placed(s, t, e)
    BY <1>11, <1>15 DEF Placed
  <1> QED BY <1>1, <1>3, <1>16, <1>17, LongDone DEF g

\* The registers that a division sets aside.
LEMMA MarkFact ==
  ASSUME NEW s, Good(s), NEW rs, rs \subseteq {EAX, EDX}
  PROVE  /\ Good(MarkUsed(s, rs)) /\ Places(s, MarkUsed(s, rs), {})
         /\ MarkUsed(s, rs).using = s.using \cup rs
         /\ Good(UnmarkUsed(s, rs)) /\ Places(s, UnmarkUsed(s, rs), {})
         /\ UnmarkUsed(s, rs).using = s.using \ rs
         /\ MarkUsed(s, rs).inregister = s.inregister
         /\ UnmarkUsed(s, rs).inregister = s.inregister
  <1>1. ASSUME NEW used \in SUBSET {EAX, EDX}
        PROVE  LET a == [s EXCEPT !.using = used] IN
               Good(a) /\ Places(s, a, {}) /\ a.using = used /\ a.inregister = s.inregister
    <2> DEFINE a == [s EXCEPT !.using = used]
    <2>1. used \in SUBSET Registers
      BY TopRegs
    <2>2. /\ a \in Contexts /\ a.using = used
          /\ a.link = s.link /\ a.lastref = s.lastref /\ a.last = s.last
          /\ a.inregister = s.inregister /\ a.regs = s.regs /\ a.inmemory = s.inmemory
      BY <2>1 DEF Good, Sound, Contexts
    <2> HIDE DEF a
    <2>3. Located(a)
      BY <2>2 DEF Located, Good, Sound
    <2>4. Match(s) => Match(a)
      <3>1. \A r \in Registers : LastrefOf(a, a.link[r]) = LastrefOf(s, s.link[r])
        BY <2>2 DEF LastrefOf
      <3> QED BY <2>2, <3>1 DEF Match
    <2>5. Good(a)
      BY <2>2, <2>3, <2>4 DEF Good, Sound
    <2>6. Places(s, a, {})
      BY <2>2 DEF Places
    <2> QED BY <2>2, <2>5, <2>6 DEF a
  <1>2. s.using \cup rs \in SUBSET {EAX, EDX} /\ s.using \ rs \in SUBSET {EAX, EDX}
    BY DEF Good, Sound
  <1> QED BY <1>1, <1>2 DEF MarkUsed, UnmarkUsed

\* The division itself, after which EAX and EDX are no longer set aside.
LEMMA QuotientFact ==
  ASSUME NEW s, Good(s), NEW t, t.lhs \in Dags, t.rhs \in Dags, t.result \in Dags,
         Plain => t.result \notin s.inregister, NEW dst, NEW src
  PROVE  LET a == Quotient(s, dst, src, t) IN
         Good(a) /\ a.using = {} /\ Places(s, a, {t.result}) /\ t.result \in a.inregister
  <1> DEFINE home == IF t.op = "DIV" THEN EAX ELSE EDX
             f == Free(s, EDX)
             u == UnmarkUsed(f, {EAX, EDX})
             a == Associate(u, home, t.result, 0)
             b == Read(a, dst, t.lhs)
             c == Clobber(b, {EDX})
             d == Read(c, src, t.rhs)
             e == Clobber(d, {EAX, EDX})
             h == Produce(e, Pair(home, NIL), t.result)
  <1>1. Quotient(s, dst, src, t) = h
    BY DEF Quotient
  <1>2. home \in RegIds /\ home # NIL /\ 0 \in 0 .. 1 /\ 0 # 1
    BY TopRegs, RegIdsFact
  <1> HIDE DEF home
  <1>3. Moves(s, f, {}) /\ Good(f) /\ f.using \subseteq {EAX, EDX}
    BY TopRegs, FreeFact DEF Moves, Good, Sound
  <1> HIDE DEF f
  <1>4. Good(u) /\ Places(f, u, {}) /\ u.using = {}
    BY <1>3, MarkFact
  <1> HIDE DEF u
  <1>5. Places(s, u, {})
    BY <1>3, <1>4, PlacesTwice DEF Moves
  <1>6. Plain => t.result \notin u.inregister
    BY <1>5 DEF Places
  <1>a. Moves(u, a, {t.result}) /\ t.result \in a.inregister
    BY <1>2, <1>4, <1>6, AssociateFact
  <1> HIDE DEF a
  <1>7. Moves(u, a, {t.result}) /\ t.result \in a.inregister /\ a \in Contexts
    BY <1>a DEF Moves, Good, Sound
  <1>8. Moves(u, b, {t.result}) /\ b \in Contexts /\ b.inregister = a.inregister
    BY <1>7, ReadFact, ThenEmits
  <1> HIDE DEF b
  <1>9. Moves(u, c, {t.result}) /\ c \in Contexts /\ c.inregister = b.inregister
    BY <1>8, ClobberFact, ThenEmits
  <1> HIDE DEF c
  <1>10. Moves(u, d, {t.result}) /\ d \in Contexts /\ d.inregister = c.inregister
    BY <1>9, ReadFact, ThenEmits
  <1> HIDE DEF d
  <1>11. Moves(u, e, {t.result}) /\ e \in Contexts /\ e.inregister = d.inregister
    BY <1>10, ClobberFact, ThenEmits
  <1> HIDE DEF e
  <1>12. Pair(home, NIL)[0] \in RegIds /\ Pair(home, NIL)[1] \in RegIds
    BY <1>2, RegIdsFact
  <1>13. Moves(u, h, {t.result}) /\ h.inregister = e.inregister
    BY <1>11, <1>12, ProduceFact, ThenEmits
  <1> HIDE DEF h
  <1>14. Places(s, h, {t.result})
    BY <1>5, <1>13, PlacesTwice DEF Moves
  <1>15. Good(h) /\ h.using = {} /\ t.result \in h.inregister
    BY <1>4, <1>7, <1>8, <1>9, <1>10, <1>11, <1>13 DEF Moves
  <1> QED BY <1>1, <1>14, <1>15

LEMMA DivideByFact ==
  ASSUME NEW r, Good(r.ctx), NEW t, t.lhs \in Dags, t.rhs \in Dags, t.result \in Dags,
         Plain => t.result \notin r.ctx.inregister, NEW dst, Readable(dst)
  PROVE  LET a == DivideBy(r, dst, t) IN
         Good(a) /\ a.using = {} /\ Places(r.ctx, a, {t.result}) /\ t.result \in a.inregister
  <1> DEFINE stays == t.lhs \in r.ctx.inregister /\ r.ctx.regs[t.lhs][0] = EAX
             f == Free(r.ctx, EAX)
             b == Load(f, Pair(EAX, NIL), dst, t.lhs)
             c == Quotient(b, Reg(Pair(EAX, NIL)), r.op, t)
  <1>1. CASE stays
    <2>1. DivideBy(r, dst, t) = Quotient(r.ctx, dst, r.op, t)
      BY <1>1 DEF DivideBy
    <2> QED BY <2>1, QuotientFact
  <1>2. CASE ~stays
    <2>1. DivideBy(r, dst, t) = c
      BY <1>2 DEF DivideBy
    <2>2. Moves(r.ctx, f, {}) /\ f \in Contexts
      BY TopRegs, FreeFact DEF Moves, Good, Sound
    <2> HIDE DEF f
    <2>3. Pair(EAX, NIL)[0] \in RegIds /\ Pair(EAX, NIL)[1] \in RegIds
      BY TopRegs, RegIdsFact
    <2>4. Moves(r.ctx, b, {}) /\ Good(b)
      BY <2>2, <2>3, LoadFact, ThenEmits
    <2> HIDE DEF b
    <2>5. Plain => t.result \notin b.inregister
      BY <2>4 DEF Moves, Places
    <2>6. Good(c) /\ c.using = {} /\ Places(b, c, {t.result}) /\ t.result \in c.inregister
      BY <2>4, <2>5, QuotientFact
    <2> HIDE DEF c
    <2>7. Places(r.ctx, c, {t.result})
      BY <2>4, <2>6, PlacesTwice DEF Moves
    <2> QED BY <2>1, <2>6, <2>7
  <1> QED BY <1>1, <1>2

LEMMA DivideWordDone ==
  ASSUME NEW s, NEW t, Ready(s, t), t.op \in {"DIV", "MOD"}
  PROVE  Done(s, t, DivideWord(GetBoth(s, t), t))
  <1> DEFINE g == GetBoth(s, t)
             marked == MarkUsed(g.ctx, {EAX, EDX})
             m == [ctx |-> marked, op |-> g.src]
             r == ToReg(m, t.rhs)
             a == DivideBy(r, g.dst, t)
  <1>1. /\ t.op \in Computing /\ t.lhs \in Dags /\ t.rhs \in Dags /\ t.result \in Dags
        /\ Begun /\ t.op \in TwoOperands
    BY NodesFact DEF Ready, Computing, SameTyped, TwoOperands
  <1>2. BothGot(s, g, t)
    BY <1>1, GetBothFact
  <1>3. DivideWord(g, t) = a
    BY DEF DivideWord, Got
  <1> HIDE DEF g
  <1>4. /\ Good(g.ctx) /\ Readable(g.dst) /\ Readable(g.src)
        /\ OperandOf([ctx |-> g.ctx, op |-> g.src], t.rhs)
        /\ Plain => t.result \notin g.ctx.inregister
        /\ Moves(s, g.ctx, KidOf(t.lhs) \cup KidOf(t.rhs))
    BY <1>1, <1>2 DEF BothGot
  <1>5. Good(marked) /\ Places(g.ctx, marked, {}) /\ marked.inregister = g.ctx.inregister
    BY <1>4, MarkFact
  <1> HIDE DEF marked
  <1>6. Loadable(m, t.rhs) /\ m.ctx = marked
    BY <1>4, <1>5 DEF Loadable, OperandOf
  <1> HIDE DEF m
  <1>7. Moves(marked, r.ctx, {t.rhs}) /\ Good(r.ctx)
    BY <1>1, <1>6, ToRegFact DEF Moves
  <1> HIDE DEF r
  <1>8. Places(g.ctx, r.ctx, {t.rhs})
    BY <1>5, <1>7, PlacesTwice DEF Moves
  <1>9. Plain => t.result \notin r.ctx.inregister
    BY <1>1, <1>4, <1>8 DEF Places, Ready
  <1>10. Good(a) /\ a.using = {} /\ Places(r.ctx, a, {t.result}) /\ t.result \in a.inregister
    BY <1>1, <1>4, <1>7, <1>9, DivideByFact
  <1> HIDE DEF a
  <1>11. Places(g.ctx, a, {t.rhs, t.result})
    BY <1>8, <1>10, PlacesTwice
  <1>12. Places(s, a, Own(t) \cup {t.rhs})
    <2>1. Places(s, g.ctx, KidOf(t.lhs) \cup KidOf(t.rhs))
      BY <1>4 DEF Moves
    <2> QED BY <1>11, <2>1, PlacesTwice DEF Own
  <1>13. Moves(s, a, Own(t) \cup {t.rhs})
    BY <1>10, <1>12 DEF Moves, Ready
  <1>14. Placed(s, t, a)
    BY <1>10 DEF Placed
  <1>15. CountStays(s, t, a)
    BY DEF CountStays
  <1> QED BY <1>3, <1>13, <1>14, <1>15 DEF Done, g

-----------------------------------------------------------------------------
(* X86_NEG and NOT, and the jumps.                                         *)

\* The operand of a triple.
OneGot(s, g, t) ==
  /\ Moves(s, g.ctx, {t.lhs} \cup KidOf(t.lhs))
  /\ OperandOf(g, t.lhs) /\ g.op.format # "None"
  /\ Plain /\ t.op \in Computing => t.result \notin g.ctx.inregister

LEMMA LoadableFact ==
  ASSUME NEW g, NEW d, OperandOf(g, d)
  PROVE  Loadable(g, d) /\ Good(g.ctx) /\ Readable(g.op) /\ g.ctx \in Contexts
  BY DEF OperandOf, Loadable, Good, Sound

LEMMA GetOneFact ==
  ASSUME NEW s, NEW t, Ready(s, t)
  PROVE  OneGot(s, GetOne(s, t), t) /\ OneGot(s, GetSource(s, t), t)
  <1> DEFINE g == Get(s, t.lhs)
             h == ToReg(g, t.lhs)
  <1>1. t.lhs \in Dags /\ Good(s) /\ Begun /\ Present(s, t.lhs)
    BY DEF Ready
  <1>2. OperandOf(g, t.lhs) /\ Moves(s, g.ctx, KidOf(t.lhs)) /\ g.op.format # "None"
    BY <1>1, GetFact
  <1>3. GetOne(s, t) = g /\ GetSource(s, t) = IF g.op.format = "SIB" THEN h ELSE g
    BY DEF GetOne, GetSource, Unaddressed
  <1> HIDE DEF g
  <1>4. Moves(s, g.ctx, {t.lhs} \cup KidOf(t.lhs))
    BY <1>2 DEF Moves, Places
  <1>5. OneGot(s, g, t)
    BY <1>2, <1>4 DEF OneGot, Moves, Places, Ready
  <1>6. /\ Moves(g.ctx, h.ctx, {t.lhs}) /\ OperandOf(h, t.lhs) /\ t.lhs \in h.ctx.inregister
    BY <1>1, <1>2, LoadableFact, ToRegFact
  <1> HIDE DEF h
  <1>7. Moves(s, h.ctx, {t.lhs} \cup KidOf(t.lhs))
    BY <1>2, <1>6, MovesTwice
  <1>8. OneGot(s, h, t) \/ g.op.format # "SIB"
    <2>1. g.op.format = "SIB" => h.op.format # "None"
      <3>1. ASSUME g.op.format = "SIB" PROVE h.op.format = "Reg"
        BY <3>1 DEF h, ToReg, LoadRegs, Got, Reg, Operand
      <3> QED BY <3>1
    <2> QED BY <1>6, <1>7, <2>1 DEF OneGot, Moves, Places, Ready
  <1> QED BY <1>3, <1>5, <1>8

LEMMA OneDone ==
  ASSUME NEW s, NEW t, Ready(s, t), NEW g, OneGot(s, g, t), NEW a, NEW D,
         D \subseteq {t.lhs, t.result}, Moves(g.ctx, a, D), Placed(s, t, a)
  PROVE  Done(s, t, a)
  <1>1. Moves(s, a, {t.lhs, t.result} \cup KidOf(t.lhs))
    BY MovesTwice DEF OneGot
  <1> QED BY <1>1, OwnDone DEF Own

LEMMA IntegerUnaryDone ==
  ASSUME NEW s, NEW t, Ready(s, t), t.op \in SameTyped
  PROVE  Done(s, t, IntegerUnary(GetOne(s, t), t))
  <1> DEFINE g == GetOne(s, t)
             h == ToReg(g, t.lhs)
             regs == h.ctx.regs[t.lhs]
             a == TakeOver(h.ctx, t.lhs, t.result)
             b == Read(a, h.op, t.lhs)
             c == Produce(b, regs, t.result)
  <1>1. /\ t.op \in Computing /\ t.lhs \in Dags /\ t.result \in Dags /\ Begun
        /\ Ty[t.result] = Ty[t.lhs]
    BY NodesFact DEF Ready, Computing
  <1>2. OneGot(s, g, t)
    BY GetOneFact
  <1>3. IntegerUnary(g, t) = c
    BY DEF IntegerUnary, Negated
  <1> HIDE DEF g
  <1>4. Moves(g.ctx, h.ctx, {t.lhs}) /\ t.lhs \in h.ctx.inregister /\ Good(h.ctx)
    BY <1>1, <1>2, LoadableFact, ToRegFact DEF OneGot, Moves
  <1>5. Plain => t.result \notin h.ctx.inregister
    BY <1>1, <1>2, <1>4 DEF OneGot, Moves, Places, Ready
  <1> HIDE DEF h
  <1>6. regs[0] \in RegIds /\ regs[1] \in RegIds
    BY <1>1, <1>4, RegsFact
  <1> HIDE DEF regs
  <1>7. Moves(h.ctx, a, {t.result}) /\ t.result \in a.inregister
    BY <1>1, <1>4, <1>5, TakeOverFact
  <1> HIDE DEF a
  <1>8. Moves(g.ctx, a, {t.lhs, t.result}) /\ a \in Contexts
    BY <1>4, <1>7, ThenMoves
  <1>9. Moves(g.ctx, b, {t.lhs, t.result}) /\ b \in Contexts /\ b.inregister = a.inregister
    BY <1>1, <1>8, ReadFact, ThenEmits
  <1> HIDE DEF b
  <1>10. Moves(g.ctx, c, {t.lhs, t.result}) /\ c.inregister = b.inregister
    BY <1>1, <1>6, <1>9, ProduceFact, ThenEmits
  <1> HIDE DEF c
  <1>11. Placed(s, t, c)
    BY <1>7, <1>9, <1>10 DEF Placed
  <1>12. Done(s, t, c)
    BY <1>2, <1>10, <1>11, OneDone
  <1> QED BY <1>3, <1>12 DEF g

LEMMA FloatNegateDone ==
  ASSUME NEW s, NEW t, Ready(s, t), t.op \in SameTyped
  PROVE  Done(s, t, FloatNegate(GetOne(s, t), t))
  <1> DEFINE g == GetOne(s, t)
             in == t.lhs \in g.ctx.inregister
             a == TakeOver(g.ctx, t.lhs, t.result)
             f == Free(g.ctx, ST0)
             l == Load(f, Top, g.op, t.lhs)
             b == IF in THEN Read(a, g.op, t.lhs) ELSE Associate(l, ST0, t.result, 0)
             c == Produce(b, Top, t.result)
  <1>1. /\ t.op \in Computing /\ t.lhs \in Dags /\ t.result \in Dags /\ Begun
        /\ Ty[t.result] = Ty[t.lhs]
    BY NodesFact DEF Ready, Computing
  <1>2. OneGot(s, g, t)
    BY GetOneFact
  <1>3. FloatNegate(g, t) = c
    BY DEF FloatNegate
  <1> HIDE DEF g
  <1>4. Good(g.ctx) /\ Readable(g.op) /\ (Plain => t.result \notin g.ctx.inregister)
    BY <1>1, <1>2 DEF OneGot, OperandOf
  <1>5. Moves(g.ctx, b, {t.result}) /\ t.result \in b.inregister /\ b \in Contexts
    <2>1. CASE in
      <3>1. Moves(g.ctx, a, {t.result}) /\ t.result \in a.inregister
        BY <1>1, <1>4, <2>1, TakeOverFact
      <3>2. b = Read(a, g.op, t.lhs)
        BY <2>1
      <3> HIDE DEF a
      <3>3. a \in Contexts
        BY <3>1 DEF Moves, Good, Sound
      <3> QED BY <1>1, <3>1, <3>2, <3>3, ReadFact, ThenEmits
    <2>2. CASE ~in
      <3>1. b = Associate(l, ST0, t.result, 0)
        BY <2>2
      <3>2. Moves(g.ctx, f, {}) /\ f \in Contexts
        BY <1>4, TopRegs, FreeFact DEF Moves, Good, Sound
      <3> HIDE DEF f, b
      <3>3. Moves(g.ctx, l, {}) /\ Good(l)
        BY <1>1, <1>4, <3>2, TopRegs, RegIdsFact, LoadFact, ThenEmits
      <3> HIDE DEF l
      <3>4. 0 \in 0 .. 1 /\ 0 # 1 /\ ST0 \in RegIds /\ (Plain => t.result \notin l.inregister)
        BY <1>4, <3>3, TopRegs, RegIdsFact DEF Moves, Places
      <3>5. Moves(l, b, {t.result}) /\ t.result \in b.inregister
        BY <1>1, <3>1, <3>3, <3>4, TopRegs, AssociateFact
      <3> QED BY <3>3, <3>5, ThenMoves
    <2> QED BY <2>1, <2>2
  <1> HIDE DEF b
  <1>6. Moves(g.ctx, c, {t.result}) /\ c.inregister = b.inregister
    BY <1>1, <1>5, TopRegs, RegIdsFact, ProduceFact, ThenEmits
  <1> HIDE DEF c
  <1>7. Placed(s, t, c)
    BY <1>5, <1>6 DEF Placed
  <1>8. Done(s, t, c)
    BY <1>2, <1>6, <1>7, OneDone
  <1> QED BY <1>3, <1>8 DEF g

LEMMA EmitCompareFact ==
  ASSUME NEW s \in Contexts, NEW dst, NEW src, NEW t, t.lhs \in Dags, t.rhs \in Dags
  PROVE  Emits(s, EmitCompare(s, dst, src, t))
  <1> DEFINE l == Read(s, dst, t.lhs)
             a == Read(l, src, t.rhs)
             b == Clobber(a, {EAX})
             c == [b EXCEPT !.misread = b.misread \cup {t.rhs}]
  <1>1. EmitCompare(s, dst, src, t) \in {a, b, c}
    BY DEF EmitCompare
  <1>2. Emits(s, l) /\ l \in Contexts
    BY ReadFact DEF Emits
  <1> HIDE DEF l
  <1>3. Emits(l, a) /\ a \in Contexts
    BY <1>2, ReadFact DEF Emits
  <1> HIDE DEF a
  <1>4. Emits(a, b) /\ b \in Contexts
    BY <1>3, ClobberFact DEF Emits
  <1> HIDE DEF b
  <1>5. Emits(b, c)
    BY <1>4, MisreadFact
  <1> HIDE DEF c
  <1>6. Emits(s, a) /\ Emits(s, b) /\ Emits(s, c)
    BY <1>2, <1>3, <1>4, <1>5, EmitsTwice
  <1> QED BY <1>1, <1>6

\* A jump compares the left operand, which it may have brought into a register.
LEMMA JumpDone ==
  ASSUME NEW s, NEW t, Ready(s, t), t.op = "J", NEW g, BothGot(s, g, t), NEW a,
         Moves(g.ctx, a, {t.lhs})
  PROVE  Done(s, t, a)
  <1>1. Moves(s, a, KidOf(t.lhs) \cup KidOf(t.rhs) \cup {t.lhs})
    BY MovesTwice DEF BothGot
  <1>2. Placed(s, t, a)
    BY DEF Placed, Computing, SameTyped
  <1> QED BY <1>1, <1>2, OwnDone DEF Own

LEMMA IntegerJumpDone ==
  ASSUME NEW s, NEW t, Ready(s, t), t.op = "J"
  PROVE  Done(s, t, IntegerJump(GetBoth(s, t), t))
  <1> DEFINE g == GetBoth(s, t)
             m == [ctx |-> g.ctx, op |-> g.dst]
             l == ToReg(m, t.lhs)
             a == Assertion(l.ctx, t.lhs \in l.ctx.inregister, "lhs->_x._inregister")
             b == EmitCompare(a, l.op, g.src, t)
  <1>1. t.lhs \in Dags /\ t.rhs \in Dags /\ Begun /\ t.op \in TwoOperands
    BY DEF Ready, TwoOperands
  <1>2. BothGot(s, g, t)
    BY <1>1, GetBothFact
  <1>3. IntegerJump(g, t) = b
    BY DEF IntegerJump, CompareWith, Got
  <1> HIDE DEF g
  <1>4. Loadable(m, t.lhs) /\ m.ctx = g.ctx
    BY <1>2 DEF BothGot
  <1> HIDE DEF m
  <1>5. Moves(g.ctx, l.ctx, {t.lhs}) /\ l.ctx \in Contexts
    BY <1>1, <1>4, ToRegFact DEF Moves, Good, Sound
  <1> HIDE DEF l
  <1>6. Moves(g.ctx, a, {t.lhs}) /\ a \in Contexts
    <2>1. Emits(l.ctx, a)
      BY <1>5, AssertionFact DEF Assertions
    <2> HIDE DEF a
    <2> QED BY <1>5, <2>1, ThenEmits
  <1> HIDE DEF a
  <1>7. Moves(g.ctx, b, {t.lhs})
    BY <1>1, <1>6, EmitCompareFact, ThenEmits
  <1> HIDE DEF b
  <1> QED BY <1>2, <1>3, <1>7, JumpDone DEF g

LEMMA FloatJumpDone ==
  ASSUME NEW s, NEW t, Ready(s, t), t.op = "J"
  PROVE  Done(s, t, FloatJump(GetBoth(s, t), t))
  <1> DEFINE g == GetBoth(s, t)
             f == Free(g.ctx, EAX)
             p == SpillFromRegister(f, t.rhs)
             v == Give(p, ST0, t.lhs, 0)
             l == Load(v, Top, g.dst, t.lhs)
             src == IF t.lhs = t.rhs THEN Reg(Top) ELSE g.src
             a == EmitCompare(f, g.dst, g.src, t)
             b == EmitCompare(l, Reg(Top), src, t)
  <1>1. t.lhs \in Dags /\ t.rhs \in Dags /\ Begun /\ t.op \in TwoOperands
    BY DEF Ready, TwoOperands
  <1>2. BothGot(s, g, t)
    BY <1>1, GetBothFact
  <1>3. FloatJump(g, t) = IF t.lhs \in f.inregister THEN a ELSE b
    BY DEF FloatJump, FloatCompare
  <1> HIDE DEF g
  <1>4. Good(g.ctx) /\ Readable(g.dst)
    BY <1>2 DEF BothGot
  <1>5. Moves(g.ctx, f, {}) /\ Good(f) /\ f \in Contexts
    BY <1>4, TopRegs, FreeFact DEF Moves, Good, Sound
  <1> HIDE DEF f, src
  <1>6. CASE t.lhs \in f.inregister
    <2>1. Moves(g.ctx, a, {})
      BY <1>1, <1>5, EmitCompareFact, ThenEmits
    <2> HIDE DEF a, b
    <2>2. Moves(g.ctx, a, {t.lhs})
      BY <2>1 DEF Moves, Places
    <2> QED BY <1>2, <1>3, <1>6, <2>2, JumpDone DEF g
  <1>7. CASE t.lhs \notin f.inregister
    <2>1. Moves(f, p, {}) /\ Good(p) /\ t.lhs \notin p.inregister
      BY <1>1, <1>5, <1>7, SpillFromRegisterFact DEF Moves
    <2> HIDE DEF p
    <2>2. 0 \in 0 .. 1 /\ 0 # 1 /\ ST0 \in RegIds
      BY TopRegs, RegIdsFact
    <2>3. Moves(p, v, {t.lhs})
      BY <1>1, <2>1, <2>2, GiveFact
    <2> HIDE DEF v
    <2>4. Moves(f, v, {t.lhs})
      BY <2>1, <2>3, ThenMoves
    <2>5. Moves(g.ctx, v, {t.lhs}) /\ v \in Contexts
      BY <1>5, <2>4, ThenMoves
    <2>6. Moves(g.ctx, l, {t.lhs}) /\ l \in Contexts
      BY <1>1, <1>4, <2>5, TopRegs, RegIdsFact, LoadFact, ThenEmits
    <2> HIDE DEF l
    <2>7. Moves(g.ctx, b, {t.lhs})
      BY <1>1, <2>6, EmitCompareFact, ThenEmits
    <2> HIDE DEF a, b
    <2> QED BY <1>2, <1>3, <1>7, <2>7, JumpDone DEF g
  <1> QED BY <1>6, <1>7

-----------------------------------------------------------------------------
(* X86_CVT.                                                                *)

LEMMA AliasFact ==
  ASSUME NEW s, Good(s), NEW regs, regs[0] \in RegIds, regs[1] \in RegIds, NEW d \in Dags,
         regs[1] # NIL => Ty[d] = "q", regs[0] # NIL \/ regs[1] # NIL,
         Plain => d \notin s.inregister
  PROVE  Moves(s, Alias(s, regs, d), {d}) /\ d \in Alias(s, regs, d).inregister
  <1> DEFINE a == AssociatePair(s, regs, d)
             holds(x, r, p) == [x EXCEPT !.reg[r] = x.reg[r] \cup {<<d, p>>}]
             b == IF regs[0] = NIL THEN a ELSE holds(a, regs[0], 0)
             c == IF regs[1] = NIL THEN b ELSE holds(b, regs[1], 1)
  <1>1. ASSUME NEW x \in Contexts, NEW r \in Registers, NEW p \in 0 .. 1
        PROVE  Emits(x, holds(x, r, p))
    <2> DEFINE reg == [x.reg EXCEPT ![r] = x.reg[r] \cup {<<d, p>>}]
    <2>1. <<d, p>> \in Words /\ x.reg \in [Registers -> SUBSET Words]
      BY DEF Words, Contexts
    <2>2. reg \in [Registers -> SUBSET Words]
      BY <2>1
    <2>3. holds(x, r, p) = [x EXCEPT !.reg = reg]
      BY DEF Contexts
    <2> HIDE DEF reg
    <2>4. Emits(x, [x EXCEPT !.reg = reg])
      BY <2>2 DEF Emits, Contexts
    <2> QED BY <2>3, <2>4
  <1>2. Alias(s, regs, d) = c
    BY DEF Alias
  <1>3. Moves(s, a, {d}) /\ d \in a.inregister
    BY AssociatePairFact
  <1>4. a \in Contexts
    BY <1>3 DEF Moves, Good, Sound
  <1> HIDE DEF a, holds
  <1>5. Emits(a, b)
    <2>1. 0 \in 0 .. 1
      OBVIOUS
    <2> QED BY <1>1, <1>4, <2>1, EmitsNothing DEF RegIds
  <1> HIDE DEF b
  <1>6. Moves(s, b, {d}) /\ b \in Contexts /\ b.inregister = a.inregister
    BY <1>3, <1>5, ThenEmits
  <1>7. Emits(b, c)
    <2>1. 1 \in 0 .. 1
      OBVIOUS
    <2> QED BY <1>1, <1>6, <2>1, EmitsNothing DEF RegIds
  <1> HIDE DEF c
  <1>8. Moves(s, c, {d}) /\ c.inregister = b.inregister
    BY <1>6, <1>7, ThenEmits
  <1> QED BY <1>2, <1>3, <1>6, <1>8

LEMMA ConvertFact ==
  ASSUME NEW s \in Contexts, NEW src, NEW t, t.lhs \in Dags, t.result \in Dags
  PROVE  Emits(s, Convert(s, src, t))
  <1> DEFINE a == Read(s, src, t.lhs)
             words == [p \in 0 .. 1 |-> {<<t.result, p>>}]
             cell == [a.cell EXCEPT ![t.result] = words]
  <1>1. Convert(s, src, t) = IF t.result \in s.inregister
                             THEN Produce(a, s.regs[t.result], t.result)
                             ELSE [a EXCEPT !.cell[t.result] = words]
    BY DEF Convert
  <1>2. Emits(s, a) /\ a \in Contexts
    BY ReadFact DEF Emits
  <1> HIDE DEF a
  <1>3. words \in [0 .. 1 -> SUBSET Words]
    BY DEF Words
  <1> HIDE DEF words
  <1>4. cell \in [Dags -> [0 .. 1 -> SUBSET Words]]
    BY <1>2, <1>3 DEF Contexts
  <1>5. [a EXCEPT !.cell[t.result] = words] = [a EXCEPT !.cell = cell]
    BY <1>2 DEF Contexts
  <1> HIDE DEF cell
  <1>6. Emits(a, [a EXCEPT !.cell = cell])
    BY <1>2, <1>4 DEF Emits, Contexts
  <1>7. s.regs[t.result][0] \in RegIds /\ s.regs[t.result][1] \in RegIds
    BY DEF Contexts, RegIds
  <1>8. Emits(a, Produce(a, s.regs[t.result], t.result))
    BY <1>2, <1>7, ProduceFact
  <1>9. Emits(a, Convert(s, src, t))
    BY <1>1, <1>5, <1>6, <1>8
  <1> QED BY <1>2, <1>9, EmitsTwice

\* What a conversion starts from.
Converts(s, g, t) ==
  /\ OneGot(s, g, t) /\ Good(g.ctx) /\ Readable(g.op) /\ g.ctx \in Contexts /\ Begun
  /\ t.lhs \in Dags /\ t.result \in Dags /\ Loadable(g, t.lhs)
  /\ Plain => t.result \notin g.ctx.inregister

LEMMA GetSourceFact ==
  ASSUME NEW s, NEW t, Ready(s, t), t.op = "CVT"
  PROVE  Converts(s, GetSource(s, t), t)
  <1> DEFINE g == GetSource(s, t)
  <1>1. OneGot(s, g, t)
    BY GetOneFact
  <1> HIDE DEF g
  <1>2. t.op \in Computing
    BY DEF Computing
  <1>3. t.lhs \in Dags /\ t.result \in Dags /\ Begun
    BY <1>2, NodesFact DEF Ready
  <1>4. Good(g.ctx) /\ Readable(g.op) /\ Loadable(g, t.lhs) /\ g.ctx \in Contexts
    BY <1>1, LoadableFact DEF OneGot
  <1>5. Converts(s, g, t)
    BY <1>1, <1>2, <1>3, <1>4 DEF Converts, OneGot
  <1> QED BY <1>5 DEF g

\* The result of a conversion is in a register or in memory.
LEMMA ConvertDone ==
  ASSUME NEW s, NEW t, Ready(s, t), NEW g, Converts(s, g, t), NEW a, NEW D,
         D \subseteq {t.lhs, t.result}, Moves(g.ctx, a, D),
         t.result \in a.inregister \cup a.inmemory
  PROVE  Done(s, t, a)
  BY OneDone DEF Converts, Placed

LEMMA SameSizeDone ==
  ASSUME NEW s, NEW t, Ready(s, t), t.op = "CVT", Ty[t.result] = Ty[t.lhs]
  PROVE  Done(s, t, SameSize(GetSource(s, t), t))
  <1> DEFINE g == GetSource(s, t)
             h == ToReg(g, t.lhs)
             a == Assertion(h.ctx, t.lhs \in h.ctx.inregister, "rhs->_x._inregister")
             regs == h.ctx.regs[t.lhs]
             b == Alias(a, regs, t.result)
  <1>1. Converts(s, g, t)
    BY GetSourceFact
  <1>2. SameSize(g, t) = b
    BY DEF SameSize, AliasOf
  <1> HIDE DEF g
  <1>3. /\ t.lhs \in Dags /\ t.result \in Dags /\ t.op \in Computing
        /\ Moves(g.ctx, h.ctx, {t.lhs}) /\ t.lhs \in h.ctx.inregister
    BY <1>1, ToRegFact DEF Converts, OneGot, Computing
  <1>4. Good(h.ctx) /\ h.ctx \in Contexts
    BY <1>3 DEF Moves, Good, Sound
  <1>5. Plain => t.result \notin h.ctx.inregister
    BY <1>1, <1>3 DEF Converts, Moves, Places, Ready
  <1> HIDE DEF h
  <1>6. /\ regs[0] \in RegIds /\ regs[1] \in RegIds /\ (regs[1] # NIL => Ty[t.result] = "q")
        /\ regs[0] # NIL \/ regs[1] # NIL
    BY <1>3, <1>4, RegsFact
  <1> HIDE DEF regs
  <1>7. Emits(h.ctx, a)
    BY <1>4, AssertionFact DEF Assertions
  <1> HIDE DEF a
  <1>8. Moves(g.ctx, a, {t.lhs}) /\ Good(a) /\ a.inregister = h.ctx.inregister
    BY <1>3, <1>7, ThenEmits
  <1>9. Moves(a, b, {t.result}) /\ t.result \in b.inregister
    BY <1>3, <1>5, <1>6, <1>8, AliasFact
  <1> HIDE DEF b
  <1>10. Moves(g.ctx, b, {t.lhs, t.result})
    BY <1>8, <1>9, ThenMoves
  <1> QED BY <1>1, <1>2, <1>9, <1>10, ConvertDone DEF g

LEMMA ToNarrowDone ==
  ASSUME NEW s, NEW t, Ready(s, t), t.op = "CVT"
  PROVE  Done(s, t, ToNarrow(GetSource(s, t), t))
  <1> DEFINE g == GetSource(s, t)
             a == Take(g.ctx, NormalRegs, t.result, 0).ctx
             b == Convert(a, g.op, t)
             bad == Ty[t.result] = "b" /\ Nameless(g.op)
             c == [b EXCEPT !.misread = b.misread \cup (IF bad THEN {t.lhs} ELSE {})]
  <1>1. Converts(s, g, t)
    BY GetSourceFact
  <1>2. ToNarrow(g, t) = [b EXCEPT !.misread = IF bad THEN b.misread \cup {t.lhs} ELSE b.misread]
    BY DEF ToNarrow
  <1> HIDE DEF g, bad
  <1>3. t.lhs \in Dags /\ t.result \in Dags
    BY <1>1 DEF Converts
  <1>4. Moves(g.ctx, a, {t.result}) /\ t.result \in a.inregister
    <2>1. 0 \in 0 .. 1 /\ 0 # 1 /\ Ample(NormalRegs)
      BY AmpleFact
    <2> QED BY <1>1, <2>1, TakeFact DEF Converts
  <1> HIDE DEF a
  <1>5. a \in Contexts
    BY <1>4 DEF Moves, Good, Sound
  <1>6. Moves(g.ctx, b, {t.result}) /\ b \in Contexts /\ b.inregister = a.inregister
    BY <1>3, <1>4, <1>5, ConvertFact, ThenEmits
  <1> HIDE DEF b
  <1>7. ToNarrow(g, t) = c
    BY <1>2
  <1>8. Emits(b, c)
    <2>1. (IF bad THEN {t.lhs} ELSE {}) \in SUBSET Dags
      BY <1>3
    <2> QED BY <1>6, <2>1, MisreadFact
  <1> HIDE DEF c
  <1>9. Moves(g.ctx, c, {t.result}) /\ t.result \in c.inregister
    BY <1>4, <1>6, <1>8, ThenEmits
  <1> QED BY <1>1, <1>7, <1>9, ConvertDone DEF g

LEMMA ToLongDone ==
  ASSUME NEW s, NEW t, Ready(s, t), t.op = "CVT", Ty[t.result] = "q"
  PROVE  Done(s, t, ToLong(GetSource(s, t), t))
  <1> DEFINE g == GetSource(s, t)
             rs == <<EAX, EDX>>
             f == FreeAll(g.ctx, rs)
             a == AssociatePair(f, Pair(EAX, EDX), t.result)
             m == [ctx |-> a, op |-> g.op]
             h == ToReg(m, t.lhs)
             b == Convert(h.ctx, h.op, t)
  <1>1. Converts(s, g, t)
    BY GetSourceFact
  <1>2. ToLong(g, t) = b
    BY DEF ToLong, ConvertGot, Got
  <1> HIDE DEF g
  <1>3. t.lhs \in Dags /\ t.result \in Dags /\ ~Plain /\ Begun
    BY <1>1, PlainFact DEF Converts
  <1>4. rs \in Seq(Registers)
    BY TopRegs
  <1> HIDE DEF rs
  <1>5. Moves(g.ctx, f, {}) /\ Good(f)
    BY <1>1, <1>4, FreeAllFact DEF Converts, Moves
  <1> HIDE DEF f
  <1>6. Pair(EAX, EDX)[0] \in RegIds /\ Pair(EAX, EDX)[1] \in RegIds /\ Pair(EAX, EDX)[0] # NIL
    BY TopRegs, RegIdsFact
  <1>7. Moves(f, a, {t.result}) /\ t.result \in a.inregister
    BY <1>3, <1>5, <1>6, AssociatePairFact
  <1> HIDE DEF a
  <1>8. Moves(g.ctx, a, {t.result}) /\ Good(a)
    BY <1>5, <1>7, ThenMoves
  <1>9. Loadable(m, t.lhs) /\ m.ctx = a
    BY <1>1, <1>3, <1>8 DEF Loadable, Converts
  <1> HIDE DEF m
  <1>10. Moves(a, h.ctx, {t.lhs}) /\ h.ctx \in Contexts
    BY <1>3, <1>9, ToRegFact DEF Moves, Good, Sound
  <1> HIDE DEF h
  <1>11. Moves(a, b, {t.lhs})
    BY <1>3, <1>10, ConvertFact, ThenEmits
  <1> HIDE DEF b
  <1>12. Moves(g.ctx, b, {t.lhs, t.result})
    BY <1>8, <1>11, ThenMoves
  <1>13. a.last = s.last
    BY <1>1, <1>8 DEF Converts, OneGot, Moves, Places
  <1>14. Placed(s, t, b)
    BY <1>7, <1>11, <1>13, StaysPlaced
  <1>15. Done(s, t, b)
    BY <1>1, <1>12, <1>14, OneDone DEF Converts
  <1> QED BY <1>2, <1>15 DEF g

LEMMA FloatToIntegerDone ==
  ASSUME NEW s, NEW t, Ready(s, t), t.op = "CVT"
  PROVE  Done(s, t, FloatToInteger(GetSource(s, t), t))
  <1> DEFINE g == GetSource(s, t)
             wide == Ty[t.result] = "q"
             lo == Give(g.ctx, EAX, t.result, 0)
             a == Give(lo, IF wide THEN EDX ELSE NIL, t.result, 1)
             ok == Assertion(a, g.op.format \in {"Reg", "InSIB"}, "FormatReg or FormatInSIB")
             b == Convert(ok, g.op, t)
             c == Clobber(b, IF wide THEN {EDX} ELSE {})
             e == IF g.op.format = "Reg" THEN PopTop(c) ELSE PushTop(c, t.lhs)
  <1>1. Converts(s, g, t)
    BY GetSourceFact
  <1>2. FloatToInteger(g, t) = e
    BY DEF FloatToInteger
  <1> HIDE DEF g
  <1>3. t.lhs \in Dags /\ t.result \in Dags /\ Good(g.ctx)
        /\ (Plain => t.result \notin g.ctx.inregister)
    BY <1>1 DEF Converts
  <1>4. Moves(g.ctx, lo, {t.result}) /\ t.result \in lo.inregister /\ Good(lo)
    <2>1. 0 \in 0 .. 1 /\ 0 # 1 /\ EAX \in RegIds
      BY TopRegs, RegIdsFact
    <2> QED BY <1>3, <2>1, TopRegs, GiveFact DEF Moves
  <1> HIDE DEF lo
  <1>5. Moves(lo, a, {t.result}) /\ t.result \in a.inregister
    <2>1. CASE wide
      <3>1. a = Give(lo, EDX, t.result, 1)
        BY <2>1
      <3>2. ~Plain /\ 1 \in 0 .. 1 /\ EDX \in RegIds
        BY <1>3, <2>1, PlainFact, TopRegs, RegIdsFact
      <3> HIDE DEF a
      <3> QED BY <1>3, <1>4, <2>1, <3>1, <3>2, TopRegs, GiveFact
    <2>2. CASE ~wide
      <3>1. a = lo
        BY <2>2 DEF Give
      <3> QED BY <1>4, <3>1, StaysMoves
    <2> QED BY <2>1, <2>2
  <1> HIDE DEF a, wide
  <1>6. Moves(g.ctx, a, {t.result}) /\ a \in Contexts
    BY <1>4, <1>5, ThenMoves
  <1>7. Emits(a, ok)
    BY <1>6, AssertionFact DEF Assertions
  <1> HIDE DEF ok
  <1>8. Moves(g.ctx, ok, {t.result}) /\ ok \in Contexts /\ t.result \in ok.inregister
    BY <1>5, <1>6, <1>7, ThenEmits
  <1>9. Moves(g.ctx, b, {t.result}) /\ b \in Contexts /\ t.result \in b.inregister
    BY <1>3, <1>8, ConvertFact, ThenEmits
  <1> HIDE DEF b
  <1>10. Moves(g.ctx, c, {t.result}) /\ c \in Contexts /\ t.result \in c.inregister
    BY <1>9, ClobberFact, ThenEmits
  <1> HIDE DEF c
  <1>11. Emits(c, e)
    BY <1>3, <1>10, TopFact
  <1> HIDE DEF e
  <1>12. Moves(g.ctx, e, {t.result}) /\ t.result \in e.inregister
    BY <1>10, <1>11, ThenEmits
  <1> QED BY <1>1, <1>2, <1>12, ConvertDone DEF g

LEMMA IntegerToFloatDone ==
  ASSUME NEW s, NEW t, Ready(s, t), t.op = "CVT"
  PROVE  Done(s, t, IntegerToFloat(GetSource(s, t), t))
  <1> DEFINE g == GetSource(s, t)
             a == AllocTemporary(g.ctx, t.result)
             r == Alloc(a, NormalRegs)
             read == Read(r.ctx, g.op, t.lhs)
             set == SetReg(read, r.reg, {})
             b == Read(set, g.op, t.lhs)
             top == PushTop(a, t.lhs)
             c == Convert(top, g.op, t)
  <1>1. Converts(s, g, t)
    BY GetSourceFact
  <1>2. IntegerToFloat(g, t) = IF Ty[t.lhs] = "b" THEN b ELSE c
    BY DEF IntegerToFloat, Extend
  <1> HIDE DEF g
  <1>3. t.lhs \in Dags /\ t.result \in Dags /\ Good(g.ctx) /\ g.ctx \in Contexts /\ Begun
    BY <1>1 DEF Converts
  <1>4. Stores(g.ctx, a, t.result)
    <2> DEFINE inmemory == g.ctx.inmemory \cup {t.result}
    <2>1. a = [g.ctx EXCEPT !.inmemory = inmemory]
      BY DEF AllocTemporary
    <2>2. inmemory \in SUBSET Dags
      BY <1>3 DEF Contexts
    <2> HIDE DEF a, inmemory
    <2>3. /\ a \in Contexts /\ a.inmemory = inmemory
          /\ a.link = g.ctx.link /\ a.lastref = g.ctx.lastref /\ a.using = g.ctx.using
          /\ a.last = g.ctx.last /\ a.inregister = g.ctx.inregister /\ a.regs = g.ctx.regs
      BY <1>3, <2>1, <2>2 DEF Contexts
    <2> QED BY <2>3 DEF Stores, inmemory
  <1>5. Moves(g.ctx, a, {t.result}) /\ Good(a) /\ a \in Contexts /\ t.result \in a.inmemory
    <2>1. Moves(g.ctx, a, {t.result})
      BY <1>3, <1>4, StoresMoves
    <2>2. a \in Contexts /\ a.inmemory = g.ctx.inmemory \cup {t.result}
      BY <1>4 DEF Stores
    <2>3. Good(a)
      BY <2>1 DEF Moves
    <2> HIDE DEF a
    <2> QED BY <2>1, <2>2, <2>3
  <1> HIDE DEF a
  <1>6. CASE Ty[t.lhs] = "b"
    <2>1. Ample(NormalRegs)
      BY AmpleFact
    <2>2. r.reg \in Registers /\ Moves(a, r.ctx, {})
      BY <1>3, <1>5, <2>1, AllocFact
    <2> HIDE DEF r
    <2>3. Moves(g.ctx, r.ctx, {t.result}) /\ r.ctx \in Contexts /\ r.reg \in RegIds
      BY <1>5, <2>2, RegIdsFact, ThenMoves
    <2>4. t.result \in r.ctx.inmemory
      BY <1>5, <2>2 DEF Moves, Places
    <2>5. Moves(g.ctx, read, {t.result}) /\ read \in Contexts /\ t.result \in read.inmemory
      BY <1>3, <2>3, <2>4, ReadFact, ThenEmits
    <2> HIDE DEF read
    <2>6. Moves(g.ctx, set, {t.result}) /\ set \in Contexts /\ t.result \in set.inmemory
      BY <2>3, <2>5, SetRegFact, ThenEmits
    <2> HIDE DEF set
    <2>7. Moves(g.ctx, b, {t.result}) /\ t.result \in b.inmemory
      BY <1>3, <2>6, ReadFact, ThenEmits
    <2> HIDE DEF b
    <2> QED BY <1>1, <1>2, <1>6, <2>7, ConvertDone DEF g
  <1>7. CASE Ty[t.lhs] # "b"
    <2>1. Moves(g.ctx, top, {t.result}) /\ top \in Contexts /\ t.result \in top.inmemory
      BY <1>3, <1>5, TopFact, ThenEmits
    <2> HIDE DEF top
    <2>2. Moves(g.ctx, c, {t.result}) /\ t.result \in c.inmemory
      BY <1>3, <2>1, ConvertFact, ThenEmits
    <2> HIDE DEF c
    <2> QED BY <1>1, <1>2, <1>7, <2>2, ConvertDone DEF g
  <1> QED BY <1>6, <1>7

LEMMA FloatToFloatDone ==
  ASSUME NEW s, NEW t, Ready(s, t), t.op = "CVT"
  PROVE  Done(s, t, FloatToFloat(GetSource(s, t), t))
  <1> DEFINE g == GetSource(s, t)
             a == Alias(g.ctx, Top, t.result)
             b == Give(g.ctx, ST0, t.result, 0)
             c == Convert(b, g.op, t)
             d == PushTop(c, t.lhs)
             e == KeepTop(d)
  <1>1. Converts(s, g, t)
    BY GetSourceFact
  <1>2. FloatToFloat(g, t) = IF g.op.format = "Reg" THEN a ELSE e
    BY DEF FloatToFloat
  <1> HIDE DEF g
  <1>3. t.lhs \in Dags /\ t.result \in Dags /\ Good(g.ctx)
        /\ (Plain => t.result \notin g.ctx.inregister)
    BY <1>1 DEF Converts
  <1>4. CASE g.op.format = "Reg"
    <2>1. Moves(g.ctx, a, {t.result}) /\ t.result \in a.inregister
      BY <1>3, TopRegs, RegIdsFact, AliasFact
    <2> HIDE DEF a
    <2> QED BY <1>1, <1>2, <1>4, <2>1, ConvertDone DEF g
  <1>5. CASE g.op.format # "Reg"
    <2>1. 0 \in 0 .. 1 /\ 0 # 1 /\ ST0 \in RegIds
      BY TopRegs, RegIdsFact
    <2>a. Moves(g.ctx, b, {t.result}) /\ t.result \in b.inregister
      BY <1>3, <2>1, TopRegs, GiveFact
    <2> HIDE DEF b
    <2>2. Moves(g.ctx, b, {t.result}) /\ b \in Contexts /\ t.result \in b.inregister
      BY <2>a DEF Moves, Good, Sound
    <2>3. Moves(g.ctx, c, {t.result}) /\ c \in Contexts /\ t.result \in c.inregister
      BY <1>3, <2>2, ConvertFact, ThenEmits
    <2> HIDE DEF c
    <2>4. Moves(g.ctx, d, {t.result}) /\ d \in Contexts /\ t.result \in d.inregister
      BY <1>3, <2>3, TopFact, ThenEmits
    <2> HIDE DEF d
    <2>5. Moves(g.ctx, e, {t.result}) /\ t.result \in e.inregister
      BY <2>4, TopFact, ThenEmits
    <2> HIDE DEF e
    <2> QED BY <1>1, <1>2, <1>5, <2>5, ConvertDone DEF g
  <1> QED BY <1>4, <1>5

-----------------------------------------------------------------------------
(* The triples that compute nothing, and X86_CALL.                         *)

\* The base of a store or a zeroed block.
LEMMA GetBaseFact ==
  ASSUME NEW s, NEW t, Ready(s, t)
  PROVE  /\ Moves(s, GetBase(s, t).ctx, {t.lhs} \cup KidOf(t.lhs))
         /\ Good(GetBase(s, t).ctx) /\ GetBase(s, t).ctx \in Contexts
  <1> DEFINE g == Get(s, t.lhs)
             b == ToSIB(g, t.lhs)
  <1>1. t.lhs \in Dags /\ Good(s) /\ Begun
    BY DEF Ready
  <1>2. OperandOf(g, t.lhs) /\ Moves(s, g.ctx, KidOf(t.lhs))
    BY <1>1, GetFact
  <1>3. GetBase(s, t) = b
    BY DEF GetBase
  <1> HIDE DEF g
  <1>4. Moves(g.ctx, b.ctx, {t.lhs})
    BY <1>1, <1>2, ToSIBFact
  <1> HIDE DEF b
  <1> QED BY <1>2, <1>3, <1>4, ThenMoves

\* A store, once its source has its operand.
StoreGot(s, g, t) ==
  /\ Moves(s, g.ctx, {t.lhs} \cup KidOf(t.lhs) \cup KidOf(t.rhs))
  /\ Good(g.ctx) /\ g.ctx \in Contexts
  /\ OperandOf([ctx |-> g.ctx, op |-> g.src], t.rhs)
  /\ /\ t.rhs \in Imms /\ t.rhs # t.lhs /\ t.rhs \notin s.inregister \cup s.inmemory /\ Plain
     => g.src.format = "Imm"

LEMMA GetStoreFact ==
  ASSUME NEW s, NEW t, Ready(s, t), t.op = "MOV"
  PROVE  StoreGot(s, GetStore(s, t), t)
  <1> DEFINE b == GetBase(s, t)
             r == Get(b.ctx, t.rhs)
             g == [ctx |-> r.ctx, dst |-> b.op, src |-> r.op]
  <1>1. GetStore(s, t) = g
    BY DEF GetStore, AddSource, WithSource
  <1>2. t.lhs \in Dags /\ t.rhs \in Dags /\ Begun
    BY DEF Ready, TwoOperands
  <1>3. Moves(s, b.ctx, {t.lhs} \cup KidOf(t.lhs)) /\ Good(b.ctx)
    BY GetBaseFact
  <1> HIDE DEF b
  <1>4. OperandOf(r, t.rhs) /\ Moves(b.ctx, r.ctx, KidOf(t.rhs))
    BY <1>2, <1>3, GetFact
  <1>5. /\ t.rhs \in Imms /\ t.rhs # t.lhs /\ t.rhs \notin s.inregister \cup s.inmemory /\ Plain
        => r.op.format = "Imm"
    <2> SUFFICES ASSUME t.rhs \in Imms, t.rhs # t.lhs,
                        t.rhs \notin s.inregister \cup s.inmemory, Plain
                 PROVE  r.op.format = "Imm"
      OBVIOUS
    <2>1. t.rhs \notin b.ctx.inregister \cup b.ctx.inmemory
      BY <1>3, KidFact DEF Moves, Places
    <2> QED BY <1>3, <2>1, ImmediateFact
  <1> HIDE DEF r
  <1>6. /\ Moves(s, r.ctx, {t.lhs} \cup KidOf(t.lhs) \cup KidOf(t.rhs))
        /\ Good(r.ctx) /\ r.ctx \in Contexts
    <2> DEFINE D == {t.lhs} \cup KidOf(t.lhs)
               E == KidOf(t.rhs)
    <2>1. D \subseteq D \cup E /\ E \subseteq D \cup E
      OBVIOUS
    <2> HIDE DEF D, E
    <2>2. Moves(s, b.ctx, D) /\ Moves(b.ctx, r.ctx, E)
      BY <1>3, <1>4 DEF D, E
    <2>3. Moves(s, r.ctx, D \cup E) /\ Good(r.ctx) /\ r.ctx \in Contexts
      BY <2>1, <2>2, ThenMoves
    <2> QED BY <2>3 DEF D, E
  <1>7. OperandOf([ctx |-> r.ctx, op |-> r.op], t.rhs)
    BY <1>4 DEF OperandOf
  <1>8. g.ctx = r.ctx /\ g.src = r.op
    OBVIOUS
  <1> HIDE DEF g
  <1>9. StoreGot(s, g, t)
    BY <1>5, <1>6, <1>7, <1>8 DEF StoreGot
  <1> QED BY <1>1, <1>9

LEMMA AssignDone ==
  ASSUME NEW s, NEW t, Ready(s, t), t.op = "MOV"
  PROVE  Done(s, t, Assign(GetStore(s, t), t))
  <1> DEFINE g == GetStore(s, t)
             m == [ctx |-> g.ctx, op |-> g.src]
             r == IF g.src.format = "Imm" THEN m ELSE ToReg(m, t.rhs)
             l == Read(r.ctx, g.dst, t.lhs)
             a == Read(l, r.op, t.rhs)
  <1>1. StoreGot(s, g, t)
    BY GetStoreFact
  <1>2. Assign(g, t) = a
    BY DEF Assign, StoreFrom, Got
  <1> HIDE DEF g
  <1>3. t.lhs \in Dags /\ t.rhs \in Dags /\ Begun /\ t.op \notin Computing
    BY DEF Ready, TwoOperands, Computing, SameTyped
  <1> DEFINE D == IF g.src.format = "Imm" THEN {} ELSE {t.rhs}
  <1>4. Moves(g.ctx, r.ctx, D) /\ r.ctx \in Contexts
    <2>1. m.ctx = g.ctx /\ Good(g.ctx) /\ g.ctx \in Contexts
      BY <1>1 DEF StoreGot
    <2>2. Moves(m.ctx, ToReg(m, t.rhs).ctx, {t.rhs})
      <3>1. Loadable(m, t.rhs)
        BY <1>1, LoadableFact DEF StoreGot
      <3> HIDE DEF m
      <3> QED BY <1>3, <3>1, ToRegFact
    <2> HIDE DEF m
    <2>3. Moves(g.ctx, r.ctx, D)
      BY <2>1, <2>2, StaysMoves
    <2> QED BY <2>3 DEF Moves, Good, Sound
  <1> HIDE DEF r, D
  <1>5. Moves(g.ctx, l, D) /\ l \in Contexts
    BY <1>3, <1>4, ReadFact, ThenEmits
  <1> HIDE DEF l
  <1>6. Moves(g.ctx, a, D)
    BY <1>3, <1>5, ReadFact, ThenEmits
  <1> HIDE DEF a
  <1>7. Moves(s, a, {t.lhs} \cup KidOf(t.lhs) \cup KidOf(t.rhs) \cup D)
    BY <1>1, <1>6, MovesTwice DEF StoreGot
  <1>8. Placed(s, t, a)
    BY <1>3 DEF Placed
  <1>9. CASE g.src.format = "Imm"
    <2>1. Done(s, t, a)
      BY <1>7, <1>8, <1>9, OwnDone DEF D, Own
    <2> QED BY <1>2, <2>1 DEF g
  <1>10. CASE g.src.format # "Imm"
    <2>1. CountStays(s, t, a)
      BY <1>1, <1>10 DEF CountStays, StoreGot
    <2>2. Moves(s, a, Own(t) \cup {t.rhs})
      <3>1. {t.lhs} \cup KidOf(t.lhs) \cup KidOf(t.rhs) \cup D \subseteq Own(t) \cup {t.rhs}
        BY DEF D, Own
      <3> QED BY <1>7, <3>1 DEF Moves, Places
    <2> QED BY <1>2, <1>8, <2>1, <2>2 DEF Done, g
  <1> QED BY <1>9, <1>10

LEMMA StringRegsFact ==
  /\ StringRegs \in Seq(Registers) /\ <<EDI, EAX, ECX>> \in Seq(Registers)
  /\ <<EAX, ECX, EDX, ST0>> \in Seq(Registers)
  BY TopRegs DEF StringRegs

LEMMA CopyBlockDone ==
  ASSUME NEW s, NEW t, Ready(s, t), t.op = "MOV"
  PROVE  Done(s, t, CopyBlock(GetStore(s, t), t))
  <1> DEFINE g == GetStore(s, t)
             ok == Assertion(g.ctx, g.src.format = "InSIB", "FormatInSIB")
             a == FreeAll(ok, StringRegs)
             l == Read(a, g.dst, t.lhs)
             b == Clobber(l, {EDI})
             r == Read(b, g.src, t.rhs)
             c == Clobber(r, {EDI, ESI, ECX})
  <1>1. StoreGot(s, g, t)
    BY GetStoreFact
  <1>2. CopyBlock(g, t) = c
    BY DEF CopyBlock
  <1> HIDE DEF g
  <1>3. t.lhs \in Dags /\ t.rhs \in Dags /\ t.op \notin Computing
    BY DEF Ready, TwoOperands, Computing, SameTyped
  <1>4. Good(g.ctx) /\ Emits(g.ctx, ok)
    BY <1>1, AssertionFact DEF StoreGot, Assertions
  <1> HIDE DEF ok
  <1>5. Moves(g.ctx, ok, {}) /\ Good(ok)
    BY <1>4, EmitsMoves DEF Moves
  <1>6. Moves(ok, a, {})
    BY <1>5, StringRegsFact, FreeAllFact
  <1> HIDE DEF a
  <1>7. Moves(g.ctx, a, {}) /\ a \in Contexts
    BY <1>5, <1>6, ThenMoves
  <1>8. Moves(g.ctx, l, {}) /\ l \in Contexts
    BY <1>3, <1>7, ReadFact, ThenEmits
  <1> HIDE DEF l
  <1>9. Moves(g.ctx, b, {}) /\ b \in Contexts
    BY <1>8, ClobberFact, ThenEmits
  <1> HIDE DEF b
  <1>10. Moves(g.ctx, r, {}) /\ r \in Contexts
    BY <1>3, <1>9, ReadFact, ThenEmits
  <1> HIDE DEF r
  <1>11. Moves(g.ctx, c, {})
    BY <1>10, ClobberFact, ThenEmits
  <1> HIDE DEF c
  <1>12. Moves(s, c, {t.lhs} \cup KidOf(t.lhs) \cup KidOf(t.rhs))
    BY <1>1, <1>11, MovesTwice DEF StoreGot
  <1>13. Placed(s, t, c)
    BY <1>3 DEF Placed
  <1>14. Done(s, t, c)
    BY <1>12, <1>13, OwnDone DEF Own
  <1> QED BY <1>2, <1>14 DEF g

\* A triple with one operand and no result.
LEMMA NothingComputed ==
  ASSUME NEW s, NEW t, Ready(s, t), NEW g, OneGot(s, g, t), NEW a,
         Moves(g.ctx, a, {t.lhs}), t.op \notin Computing
  PROVE  Done(s, t, a)
  <1>1. Placed(s, t, a)
    BY DEF Placed
  <1> QED BY <1>1, OneDone

LEMMA MovesMore ==
  ASSUME NEW s, NEW a, NEW D, Moves(s, a, {})
  PROVE  Moves(s, a, D)
  BY DEF Moves, Places

LEMMA PushDone ==
  ASSUME NEW s, NEW t, Ready(s, t), t.op \notin Computing
  PROVE  Done(s, t, Push(GetSource(s, t), t)) /\ Done(s, t, PushBlock(GetOne(s, t), t))
  <1>1. Done(s, t, Push(GetSource(s, t), t))
    <2> DEFINE g == GetSource(s, t)
               a == Read(g.ctx, g.op, t.lhs)
    <2>1. OneGot(s, g, t) /\ t.lhs \in Dags
      BY GetOneFact DEF Ready
    <2>2. Push(g, t) = a
      BY DEF Push
    <2> HIDE DEF g
    <2>3. Moves(g.ctx, a, {t.lhs})
      BY <2>1, LoadableFact, ReadFact, EmitsMoves DEF OneGot
    <2> HIDE DEF a
    <2> QED BY <2>1, <2>2, <2>3, NothingComputed DEF g
  <1>2. Done(s, t, PushBlock(GetOne(s, t), t))
    <2> DEFINE g == GetOne(s, t)
               ok == Assertion(g.ctx, g.op.format = "InSIB", "FormatInSIB")
               a == FreeAll(ok, StringRegs)
               b == Clobber(a, {EDI, ESI, ECX})
    <2>1. OneGot(s, g, t)
      BY GetOneFact
    <2>2. PushBlock(g, t) = b
      BY DEF PushBlock
    <2> HIDE DEF g
    <2>3. Good(g.ctx) /\ g.ctx \in Contexts
      BY <2>1, LoadableFact DEF OneGot
    <2>4. Emits(g.ctx, ok)
      BY <2>3, AssertionFact DEF Assertions
    <2> HIDE DEF ok
    <2>5. Moves(g.ctx, ok, {}) /\ Good(ok)
      BY <2>3, <2>4, EmitsMoves DEF Moves
    <2>6. Moves(ok, a, {})
      BY <2>5, StringRegsFact, FreeAllFact
    <2> HIDE DEF a
    <2>7. Moves(g.ctx, a, {}) /\ a \in Contexts
      BY <2>5, <2>6, ThenMoves
    <2>8. Moves(g.ctx, b, {})
      BY <2>7, ClobberFact, ThenEmits
    <2> HIDE DEF b
    <2>9. Moves(g.ctx, b, {t.lhs})
      BY <2>8, MovesMore
    <2> QED BY <2>1, <2>2, <2>9, NothingComputed DEF g
  <1> QED BY <1>1, <1>2

\* Where a call leaves its result.
LEMMA ReturnRegs ==
  ASSUME NEW ty
  PROVE  LET regs == CASE ty = "f" -> Top
                       [] ty = "q" -> Pair(EAX, EDX)
                       [] OTHER -> Pair(EAX, NIL) IN
         /\ regs[0] \in RegIds /\ regs[1] \in RegIds /\ regs[0] # NIL
         /\ regs[1] # NIL => ty = "q"
  <1>1. /\ EAX \in RegIds /\ EDX \in RegIds /\ NIL \in RegIds /\ ST0 \in RegIds
        /\ EAX # NIL /\ ST0 # NIL /\ Top[0] = ST0 /\ Top[1] = NIL
    BY TopRegs, RegIdsFact
  <1>2. /\ Pair(EAX, EDX)[0] = EAX /\ Pair(EAX, EDX)[1] = EDX
        /\ Pair(EAX, NIL)[0] = EAX /\ Pair(EAX, NIL)[1] = NIL
    BY <1>1, RegIdsFact
  <1>3. CASE ty = "f"
    BY <1>1, <1>3
  <1>4. CASE ty # "f" /\ ty = "q"
    BY <1>1, <1>2, <1>4
  <1>5. CASE ty # "f" /\ ty # "q"
    BY <1>1, <1>2, <1>5
  <1> QED BY <1>3, <1>4, <1>5

LEMMA CallDone ==
  ASSUME NEW s, NEW t, Ready(s, t), t.op = "CALL"
  PROVE  Done(s, t, Call(GetOne(s, t), t))
  <1> DEFINE g == GetOne(s, t)
             f == FreeAll(g.ctx, <<EAX, ECX, EDX, ST0>>)
             a == Read(f, g.op, t.lhs)
             b == Clobber(a, CallRegs \cup {ST0})
             regs == CASE Ty[t.result] = "f" -> Top
                       [] Ty[t.result] = "q" -> Pair(EAX, EDX)
                       [] OTHER -> Pair(EAX, NIL)
             c == AssociatePair(b, regs, t.result)
             d == IF Ty[t.result] = "f" THEN KeepTop(c) ELSE c
             e == Produce(d, regs, t.result)
  <1>1. OneGot(s, g, t)
    BY GetOneFact
  <1>2. Call(g, t) = e
    BY DEF Call
  <1> HIDE DEF g
  <1>3. t.op \in Computing
    BY DEF Computing
  <1>4. t.lhs \in Dags /\ t.result \in Dags
    BY <1>3, NodesFact DEF Ready
  <1>5. Good(g.ctx) /\ (Plain => t.result \notin g.ctx.inregister)
    BY <1>1, <1>3 DEF OneGot, OperandOf
  <1>6. /\ regs[0] \in RegIds /\ regs[1] \in RegIds /\ regs[0] # NIL
        /\ regs[1] # NIL => Ty[t.result] = "q"
    BY ReturnRegs
  <1> HIDE DEF regs
  <1>7. Moves(g.ctx, f, {}) /\ f \in Contexts
    BY <1>5, StringRegsFact, FreeAllFact DEF Moves, Good, Sound
  <1> HIDE DEF f
  <1>8. Moves(g.ctx, a, {}) /\ a \in Contexts
    BY <1>4, <1>7, ReadFact, ThenEmits
  <1> HIDE DEF a
  <1>9. Moves(g.ctx, b, {}) /\ Good(b)
    BY <1>8, ClobberFact, ThenEmits
  <1> HIDE DEF b
  <1>10. Plain => t.result \notin b.inregister
    BY <1>5, <1>9 DEF Moves, Places
  <1>11. Moves(b, c, {t.result}) /\ t.result \in c.inregister
    BY <1>4, <1>6, <1>9, <1>10, AssociatePairFact
  <1> HIDE DEF c
  <1>12. Moves(g.ctx, c, {t.result}) /\ c \in Contexts
    BY <1>9, <1>11, ThenMoves
  <1>13. Emits(c, d)
    BY <1>12, TopFact, EmitsNothing
  <1> HIDE DEF d
  <1>14. Moves(g.ctx, d, {t.result}) /\ d \in Contexts /\ d.inregister = c.inregister
    BY <1>12, <1>13, ThenEmits
  <1>15. Moves(g.ctx, e, {t.result}) /\ e.inregister = d.inregister
    BY <1>4, <1>6, <1>14, ProduceFact, ThenEmits
  <1> HIDE DEF e
  <1>16. Placed(s, t, e)
    BY <1>11, <1>14, <1>15 DEF Placed
  <1>17. Done(s, t, e)
    BY <1>1, <1>15, <1>16, OneDone
  <1> QED BY <1>2, <1>17 DEF g

LEMMA MoveReturnDone ==
  ASSUME NEW s, NEW t, Ready(s, t), t.op \notin Computing
  PROVE  Done(s, t, MoveReturn(GetOne(s, t), t))
  <1> DEFINE g == GetOne(s, t)
             regs == CASE Ty[t.lhs] = "f" -> Top
                       [] Ty[t.lhs] = "q" -> Pair(EAX, EDX)
                       [] OTHER -> Pair(EAX, NIL)
             a == IF g.op.format = "Reg" /\ g.op.regs = regs THEN Read(g.ctx, g.op, t.lhs)
                  ELSE Load(g.ctx, regs, g.op, t.lhs)
  <1>1. OneGot(s, g, t) /\ t.lhs \in Dags
    BY GetOneFact DEF Ready
  <1>2. MoveReturn(g, t) = a
    BY DEF MoveReturn
  <1> HIDE DEF g
  <1>3. regs[0] \in RegIds /\ regs[1] \in RegIds
    BY ReturnRegs
  <1> HIDE DEF regs
  <1>4. Good(g.ctx) /\ g.ctx \in Contexts /\ Readable(g.op)
    BY <1>1, LoadableFact DEF OneGot
  <1>5. Emits(g.ctx, a)
    BY <1>1, <1>3, <1>4, ReadFact, LoadFact
  <1> HIDE DEF a
  <1>6. Moves(g.ctx, a, {t.lhs})
    BY <1>4, <1>5, EmitsMoves
  <1> QED BY <1>1, <1>2, <1>6, NothingComputed DEF g

LEMMA LoadPointerDone ==
  ASSUME NEW s, NEW t, Ready(s, t), t.op \notin Computing
  PROVE  Done(s, t, LoadPointer(GetOne(s, t), t))
  <1> DEFINE g == GetOne(s, t)
             r == Take(g.ctx, NormalAddrRegs, t.lhs, 0)
             a == Load(r.ctx, Pair(r.reg, NIL), g.op, t.lhs)
             in == t.lhs \in g.ctx.inregister
  <1>1. OneGot(s, g, t) /\ t.lhs \in Dags /\ Begun
    BY GetOneFact DEF Ready
  <1>2. LoadPointer(g, t) = IF in THEN g.ctx ELSE a
    BY DEF LoadPointer, LoadedPointer
  <1> HIDE DEF g
  <1>3. Good(g.ctx) /\ Readable(g.op)
    BY <1>1, LoadableFact DEF OneGot
  <1>4. CASE in
    <2>1. Moves(g.ctx, g.ctx, {t.lhs})
      BY <1>3, StaysMoves
    <2> QED BY <1>1, <1>2, <1>4, <2>1, NothingComputed DEF g
  <1>5. CASE ~in
    <2>1. 0 \in 0 .. 1 /\ 0 # 1 /\ Ample(NormalAddrRegs)
      BY AmpleFact
    <2>2. r.reg \in Registers /\ Moves(g.ctx, r.ctx, {t.lhs})
      BY <1>1, <1>3, <1>5, <2>1, TakeFact
    <2> HIDE DEF r
    <2>3. r.reg \in RegIds /\ r.ctx \in Contexts
      BY <2>2, RegIdsFact DEF Moves, Good, Sound
    <2>4. Pair(r.reg, NIL)[0] \in RegIds /\ Pair(r.reg, NIL)[1] \in RegIds
      BY <2>3, RegIdsFact
    <2>5. Emits(r.ctx, a)
      BY <1>1, <1>3, <2>3, <2>4, LoadFact
    <2> HIDE DEF a
    <2>6. Moves(g.ctx, a, {t.lhs})
      BY <2>2, <2>5, ThenEmits
    <2> QED BY <1>1, <1>2, <1>5, <2>6, NothingComputed DEF g
  <1> QED BY <1>4, <1>5

LEMMA ZeroMemoryDone ==
  ASSUME NEW s, NEW t, Ready(s, t), t.op \notin Computing
  PROVE  Done(s, t, ZeroMemory(GetBase(s, t), t))
  <1> DEFINE g == GetBase(s, t)
             f == FreeAll(g.ctx, <<EDI, EAX, ECX>>)
             a == Read(f, g.op, t.lhs)
             b == Clobber(a, {EDI, EAX, ECX})
  <1>1. Moves(s, g.ctx, {t.lhs} \cup KidOf(t.lhs)) /\ Good(g.ctx)
    BY GetBaseFact
  <1>2. ZeroMemory(g, t) = b
    BY DEF ZeroMemory
  <1> HIDE DEF g
  <1>3. Moves(g.ctx, f, {}) /\ f \in Contexts
    BY <1>1, StringRegsFact, FreeAllFact DEF Moves, Good, Sound
  <1> HIDE DEF f
  <1>4. Moves(g.ctx, a, {}) /\ a \in Contexts
    BY <1>3, ReadFact, ThenEmits DEF Ready
  <1> HIDE DEF a
  <1>5. Moves(g.ctx, b, {})
    BY <1>4, ClobberFact, ThenEmits
  <1> HIDE DEF b
  <1>6. Moves(s, b, {t.lhs} \cup KidOf(t.lhs))
    BY <1>1, <1>5, MovesTwice
  <1>7. Placed(s, t, b)
    BY DEF Placed
  <1>8. Done(s, t, b)
    BY <1>6, <1>7, OwnDone DEF Own
  <1> QED BY <1>2, <1>8 DEF g

-----------------------------------------------------------------------------
(* The inductive invariant of a function's translation.                    *)

\* Who reads through a value does not outlive it.
KidsOutlive ==
  \A d \in Inds : Kid[d] \in emitted \cap Values => gen.last[d] <= gen.last[Kid[d]]

\* Variables have their places in memory.
VarsHome == Vars \subseteq gen.inmemory

\* A value that is not computed yet is in no register and has no place.
Fresh == \A d \in Values \ emitted : d \notin gen.inregister \cup gen.inmemory

\* A shift count is in no register and has no place.
CountsHome ==
  \A t \in Triples[function] :
    t.op \in {"LSH", "RSH"} => t.rhs \notin gen.inregister \cup gen.inmemory

IInv ==
  /\ Good(gen) /\ gen.using = {}
  /\ seqid \in 1 .. MaxSeq + 1 /\ emitted \subseteq Dags /\ function \in Functions
  /\ NothingLost /\ KidsOutlive /\ VarsHome
  /\ Plain => Fresh /\ CountsHome

\* A new last use of a value that is in no register changes no list of users.
LEMMA RelastFact ==
  ASSUME NEW s, Good(s), NEW d \in Dags, NEW n \in 0 .. MaxSeq,
         Plain => d \notin s.inregister
  PROVE  LET a == [s EXCEPT !.last[d] = n] IN
         /\ Good(a) /\ a.using = s.using /\ a.inregister = s.inregister
         /\ a.inmemory = s.inmemory
         /\ a.last[d] = n /\ \A e \in Dags : e # d => a.last[e] = s.last[e]
  <1> DEFINE last == [s.last EXCEPT ![d] = n]
             a == [s EXCEPT !.last = last]
  <1>1. [s EXCEPT !.last[d] = n] = a /\ s.last \in [Dags -> 0 .. MaxSeq]
    BY DEF Good, Sound, Contexts
  <1>2. /\ last \in [Dags -> 0 .. MaxSeq] /\ last[d] = n
        /\ \A e \in Dags : e # d => last[e] = s.last[e]
    BY <1>1
  <1> HIDE DEF last
  <1>3. /\ a \in Contexts /\ a.last = last
        /\ a.link = s.link /\ a.lastref = s.lastref /\ a.using = s.using
        /\ a.inregister = s.inregister /\ a.regs = s.regs /\ a.inmemory = s.inmemory
    BY <1>2 DEF Good, Sound, Contexts
  <1> HIDE DEF a
  <1>4. Located(a)
    BY <1>3 DEF Located, Good, Sound
  <1>5. ASSUME Plain PROVE Match(a)
    <2>1. Match(s) /\ d \notin s.inregister
      BY <1>5 DEF Good
    <2>2. \A p \in 0 .. 1 : s.regs[d][p] = NIL
      <3>1. s.regs[d][0] = NIL
        BY <2>1 DEF Match
      <3>2. s.regs[d][1] = NIL
        BY <1>5, PlainFact DEF Good, Sound, Located
      <3>3. \A p \in 0 .. 1 : p = 0 \/ p = 1
        OBVIOUS
      <3> QED BY <3>1, <3>2, <3>3
    <2>3. ASSUME NEW r \in Registers
          PROVE  LastrefOf(a, a.link[r]) = LastrefOf(s, s.link[r])
      <3> DEFINE users == s.link[r]
      <3>1. users \in Seq(Words) /\ r # NIL
        BY RegisterFact DEF Good, Sound, Contexts, NIL
      <3>2. \A i \in DOMAIN users : users[i] \in ToSet(users) /\ users[i] \in Words
        BY <3>1 DEF ToSet
      <3>3. \A w \in ToSet(users) : w \in Words /\ s.regs[w[1]][w[2]] = r
        BY <2>1 DEF Match
      <3>4. \A i \in DOMAIN users : users[i][1] # d /\ users[i][1] \in Dags
        BY <2>2, <3>1, <3>2, <3>3 DEF Words
      <3>5. \A i \in DOMAIN users : a.last[users[i][1]] = s.last[users[i][1]]
        BY <1>2, <1>3, <3>4
      <3>6. {a.last[users[i][1]] : i \in DOMAIN users} = {s.last[users[i][1]] : i \in DOMAIN users}
        BY <3>5
      <3> QED BY <1>3, <3>6 DEF LastrefOf
    <2> QED BY <1>3, <2>1, <2>3 DEF Match
  <1>6. Good(a)
    BY <1>3, <1>4, <1>5 DEF Good, Sound
  <1>7. a.last[d] = n /\ \A e \in Dags : e # d => a.last[e] = s.last[e]
    BY <1>2, <1>3
  <1> QED BY <1>1, <1>3, <1>6, <1>7 DEF a

\* A triple is translated from the context s.
Translates(t, s) ==
  /\ t \in Triples[function] /\ seqid <= Length[function] /\ UsesNow(t) /\ s \in Starts(t)
  /\ seqid' = seqid + 1 /\ emitted' = emitted \cup ({t.result} \ {NoDag})
  /\ function' = function

LEMMA TripleFact ==
  ASSUME IInv, NEW t \in Triples[function]
  PROVE  /\ t.lhs \in Dags
         /\ t.op \in TwoOperands => t.rhs \in Dags
         /\ t.op \in Computing => t.result \in Values
         /\ t.op \notin Computing => t.result \in Vars \cup {NoDag}
         /\ t.op \in SameTyped => Ty[t.result] = Ty[t.lhs]
  BY TripleAssumption DEF IInv

\* Where the translation of a triple starts.
LEMMA StartFact ==
  ASSUME IInv, NEW t, NEW s, Translates(t, s)
  PROVE  /\ Good(s) /\ s.using = {} /\ s.inregister = gen.inregister
         /\ s.inmemory = gen.inmemory
         /\ \A d \in Dags : d # t.result => s.last[d] = gen.last[d]
         /\ t.result \in Values => \A d \in Inds : Kid[d] = t.result => gen.last[d] <= s.last[t.result]
         /\ t.result \notin Values => s = gen
  <1>1. CASE t.result \in Values
    <2>1. PICK n \in seqid .. Length[function] :
            /\ s = [gen EXCEPT !.last[t.result] = n]
            /\ \A d \in Inds : Kid[d] = t.result => gen.last[d] <= n
      BY <1>1 DEF Translates, Starts
    <2>2. n \in 0 .. MaxSeq
      <3>1. Length[function] \in 1 .. MaxSeq /\ MaxSeq \in Nat
        BY GenAssumption DEF IInv
      <3> QED BY <2>1, <3>1 DEF IInv
    <2>3. t.result \in Dags /\ (Plain => t.result \notin gen.inregister)
      BY <1>1, NodesFact DEF IInv, Fresh, Translates, UsesNow
    <2>4. Good(gen) /\ gen.using = {}
      BY DEF IInv
    <2>5. /\ Good(s) /\ s.using = gen.using /\ s.inregister = gen.inregister
          /\ s.inmemory = gen.inmemory
          /\ s.last[t.result] = n /\ \A e \in Dags : e # t.result => s.last[e] = gen.last[e]
      BY <2>1, <2>2, <2>3, <2>4, RelastFact
    <2> QED BY <1>1, <2>1, <2>4, <2>5
  <1>2. CASE t.result \notin Values
    <2>1. s = gen
      BY <1>2 DEF Translates, Starts
    <2> QED BY <1>2, <2>1 DEF IInv
  <1> QED BY <1>1, <1>2

\* The operands of a triple that may come next.
LEMMA AtHandFact ==
  ASSUME IInv, NEW t, NEW s, Translates(t, s), NEW d \in {t.lhs, t.rhs} \cap Dags
  PROVE  /\ d \in Values => d \in emitted
         /\ \A e \in KidOf(d) : e \in emitted
         /\ Present(gen, d)
  <1>1. AtHand(d)
    BY NodesFact DEF Translates, UsesNow
  <1>2. d \in Values => d \in emitted
    BY <1>1 DEF AtHand
  <1>3. \A e \in KidOf(d) : e \in emitted
    BY <1>1 DEF AtHand, KidOf
  <1>4. Present(gen, d)
    <2>1. CASE d \in Inds
      <3>1. Kid[d] \in Vars \cup Values /\ Kid[d] \in Dags
        BY <2>1, GenAssumption
      <3>2. CASE Kid[d] \in Vars
        BY <2>1, <3>2 DEF Present, IInv, VarsHome
      <3>3. CASE Kid[d] \in Values
        <4>1. Kid[d] \in emitted /\ gen.last[d] >= seqid
          BY <1>1, <2>1 DEF AtHand
        <4>2. gen.last[d] <= gen.last[Kid[d]]
          BY <2>1, <3>3, <4>1 DEF IInv, KidsOutlive
        <4>3. gen.last[d] \in Int /\ gen.last[Kid[d]] \in Int /\ seqid \in Int
          BY <3>1 DEF IInv, Good, Sound, Contexts
        <4>4. gen.last[Kid[d]] >= seqid
          BY <4>1, <4>2, <4>3
        <4>5. Kid[d] \in gen.inregister \cup gen.inmemory
          BY <3>3, <4>1, <4>4 DEF IInv, NothingLost
        <4> QED BY <2>1, <4>5 DEF Present
      <3> QED BY <3>1, <3>2, <3>3
    <2>2. CASE d \in Values
      <3>1. d \in gen.inregister \cup gen.inmemory
        BY <1>1, <1>2, <2>2 DEF AtHand, IInv, NothingLost
      <3> QED BY <2>2, <3>1, NodesFact DEF Present
    <2>3. CASE d \in Vars
      BY <2>3, NodesFact DEF Present, IInv, VarsHome
    <2>4. CASE d \notin Inds /\ d \in Imms \cup Addrs
      BY <2>4 DEF Present
    <2> QED BY <2>1, <2>2, <2>3, <2>4, NodesFact
  <1> QED BY <1>2, <1>3, <1>4

LEMMA ReadyFact ==
  ASSUME IInv, NEW t, NEW s, Translates(t, s)
  PROVE  Ready(s, t)
  <1>1. /\ t \in Triples[function] /\ Good(s) /\ s.using = {} /\ s.inregister = gen.inregister
        /\ s.inmemory = gen.inmemory
    BY StartFact DEF Translates
  <1>2. /\ t.lhs \in Dags
        /\ t.op \in TwoOperands => t.rhs \in Dags
        /\ t.op \in Computing => t.result \in Values
        /\ t.op \notin Computing => t.result \in Vars \cup {NoDag}
        /\ t.op \in SameTyped => Ty[t.result] = Ty[t.lhs]
    BY <1>1, TripleFact
  <1>3. Present(s, t.lhs)
    BY <1>1, <1>2, AtHandFact DEF Present
  <1>4. Begun
    BY DEF IInv, Begun
  <1>5. ASSUME Plain, t.op \in Computing
        PROVE  t.result \notin s.inregister \cup {t.lhs, t.rhs} \cup KidOf(t.lhs) \cup KidOf(t.rhs)
    <2>1. t.result \in Values /\ t.result \in Dags /\ t.result \notin emitted
      BY <1>2, <1>5, NodesFact DEF Translates, UsesNow
    <2>2. t.result \notin s.inregister
      BY <1>1, <1>5, <2>1 DEF IInv, Fresh
    <2>3. t.result # t.lhs /\ t.result \notin KidOf(t.lhs)
      BY <1>2, <2>1, AtHandFact
    <2>4. t.result # t.rhs /\ t.result \notin KidOf(t.rhs)
      <3>1. t.rhs \notin Dags => KidOf(t.rhs) = {}
        BY NodesFact DEF KidOf
      <3> QED BY <2>1, <3>1, AtHandFact
    <2> QED BY <2>2, <2>3, <2>4
  <1>6. function \in Functions
    BY DEF IInv
  <1>7. ASSUME Plain, t.op \in {"LSH", "RSH"}
        PROVE  t.rhs \in Imms \ (s.inregister \cup s.inmemory)
    BY <1>1, <1>6, <1>7 DEF Plain, IInv, CountsHome
  <1>8. ASSUME Plain, t.op = "J" PROVE t.lhs \notin KidOf(t.rhs)
    BY <1>1, <1>6, <1>8 DEF Plain, KidOf
  <1> QED BY <1>1, <1>2, <1>3, <1>4, <1>5, <1>7, <1>8 DEF Ready

\* A triple that is translated as its handler should be keeps the invariant.
LEMMA StepFact ==
  ASSUME IInv, NEW t, NEW s, Translates(t, s), Done(s, t, gen')
  PROVE  IInv'
  <1> DEFINE D == Own(t) \cup {t.rhs}
  <1>1. Moves(s, gen', D) /\ Placed(s, t, gen') /\ CountStays(s, t, gen')
    BY DEF Done
  <1>2. /\ Good(s) /\ s.using = {} /\ s.inregister = gen.inregister
        /\ s.inmemory = gen.inmemory
        /\ \A d \in Dags : d # t.result => s.last[d] = gen.last[d]
        /\ t.result \in Values => \A d \in Inds : Kid[d] = t.result => gen.last[d] <= s.last[t.result]
        /\ t.result \notin Values => s = gen
    BY StartFact
  <1>3. /\ t \in Triples[function] /\ t.lhs \in Dags
        /\ t.op \in Computing => t.result \in Values
        /\ t.op \notin Computing => t.result \in Vars \cup {NoDag}
    BY TripleFact DEF Translates
  <1>4. /\ seqid' = seqid + 1 /\ emitted' = emitted \cup ({t.result} \ {NoDag})
        /\ function' = function /\ t.result \notin emitted
    BY DEF Translates, UsesNow
  <1>5. /\ Good(gen') /\ gen'.using = {} /\ gen'.last = s.last
        /\ s.inmemory \subseteq gen'.inmemory
        /\ gen'.inregister \subseteq s.inregister \cup D
        /\ \A d \in s.inregister : s.last[d] > seqid => d \in gen'.inregister \cup gen'.inmemory
        /\ Plain => gen'.inmemory \subseteq s.inmemory \cup s.inregister \cup D
    BY <1>1, <1>2 DEF Moves, Places
  <1>6. seqid \in Int /\ \A d \in Dags : gen'.last[d] \in Int /\ gen.last[d] \in Int
    <2>1. gen' \in Contexts /\ gen \in Contexts
      BY <1>5 DEF IInv, Good, Sound
    <2> QED BY <2>1 DEF IInv, Contexts
  <1>7. seqid' \in 1 .. MaxSeq + 1
    <2>1. Length[function] \in 1 .. MaxSeq /\ MaxSeq \in Nat /\ seqid <= Length[function]
      BY GenAssumption DEF IInv, Translates
    <2> QED BY <1>4, <2>1 DEF IInv
  <1>8. emitted' \subseteq Dags /\ function' \in Functions
    BY <1>3, <1>4, NodesFact DEF IInv
  <1>9. NothingLost'
    <2> SUFFICES ASSUME NEW d \in emitted' \cap Values, gen'.last[d] >= seqid'
                 PROVE  d \in gen'.inregister \cup gen'.inmemory
      BY DEF NothingLost
    <2>1. gen'.last[d] > seqid /\ d \in Dags
      BY <1>4, <1>6, NodesFact
    <2>2. CASE d = t.result
      <3>1. t.op \in Computing
        BY <1>3, <2>2, NodesFact
      <3> QED BY <1>1, <1>5, <2>1, <2>2, <3>1 DEF Placed
    <2>3. CASE d # t.result
      <3>1. d \in emitted /\ s.last[d] = gen.last[d]
        BY <1>2, <1>4, <2>1, <2>3
      <3>2. gen.last[d] >= seqid /\ s.last[d] > seqid
        BY <1>5, <1>6, <2>1, <3>1
      <3>3. d \in gen.inregister \cup gen.inmemory
        BY <3>1, <3>2 DEF IInv, NothingLost
      <3> QED BY <1>2, <1>5, <3>2, <3>3
    <2> QED BY <2>2, <2>3
  <1>10. KidsOutlive'
    <2> SUFFICES ASSUME NEW d \in Inds, Kid[d] \in emitted' \cap Values
                 PROVE  gen'.last[d] <= gen'.last[Kid[d]]
      BY DEF KidsOutlive
    <2>1. d \in Dags /\ Kid[d] \in Dags /\ d \notin Values /\ d \notin Vars /\ d # NoDag
      BY NodesFact
    <2>2. gen'.last[d] = gen.last[d]
      BY <1>2, <1>3, <1>5, <2>1
    <2>3. CASE Kid[d] = t.result
      BY <1>2, <1>5, <2>2, <2>3
    <2>4. CASE Kid[d] # t.result
      <3>1. Kid[d] \in emitted
        BY <1>4, <2>4
      <3>2. gen.last[d] <= gen.last[Kid[d]]
        BY <3>1 DEF IInv, KidsOutlive
      <3> QED BY <1>2, <1>5, <2>1, <2>2, <2>4, <3>2
    <2> QED BY <2>3, <2>4
  <1>11. VarsHome'
    BY <1>2, <1>5 DEF IInv, VarsHome
  <1>12. ASSUME Plain PROVE Fresh'
    <2> SUFFICES ASSUME NEW d \in Values \ emitted'
                 PROVE  d \notin gen'.inregister \cup gen'.inmemory
      BY DEF Fresh
    <2>1. d \in Dags /\ d \notin emitted /\ d # t.result /\ d # NoDag
      BY <1>4, NodesFact
    <2>2. d \notin gen.inregister \cup gen.inmemory
      BY <1>12, <2>1 DEF IInv, Fresh
    <2>3. d # t.lhs /\ d \notin KidOf(t.lhs)
      BY <1>3, <2>1, AtHandFact
    <2>4. d # t.rhs /\ d \notin KidOf(t.rhs)
      <3>1. t.rhs \notin Dags => KidOf(t.rhs) = {}
        BY NodesFact DEF KidOf
      <3> QED BY <2>1, <3>1, AtHandFact
    <2> QED BY <1>2, <1>5, <1>12, <2>1, <2>2, <2>3, <2>4 DEF Own
  <1>13. ASSUME Plain PROVE CountsHome'
    <2> SUFFICES ASSUME NEW u \in Triples[function], u.op \in {"LSH", "RSH"}
                 PROVE  u.rhs \notin gen'.inregister \cup gen'.inmemory
      BY <1>4 DEF CountsHome
    <2>1. function \in Functions
      BY DEF IInv
    <2>2. /\ u.rhs \in Imms /\ t.lhs # u.rhs
          /\ t.op \in {"DIV", "MOD"} => t.rhs # u.rhs
      BY <1>3, <1>13, <2>1 DEF Plain
    <2>3. u.rhs \notin s.inregister \cup s.inmemory
      BY <1>2, <1>13 DEF IInv, CountsHome
    <2>4. CASE u.rhs = t.rhs
      BY <1>1, <1>13, <2>2, <2>3, <2>4 DEF CountStays
    <2>5. CASE u.rhs # t.rhs
      <3>1. u.rhs # t.result
        BY <1>3, <2>2, NodesFact
      <3>2. u.rhs \notin D
        BY <2>2, <2>5, <3>1, KidFact DEF Own
      <3> QED BY <1>5, <1>13, <2>3, <3>2
    <2> QED BY <2>4, <2>5
  <1> QED BY <1>5, <1>7, <1>8, <1>9, <1>10, <1>11, <1>12, <1>13 DEF IInv, Plain

LEMMA LogicInv ==
  ASSUME IInv, Logic
  PROVE  IInv'
  <1>1. PICK t \in Triples[function] :
          t.op \in {"OR", "XOR", "AND"} /\ Translate(t, GetBoth, IntegerBinary)
    BY DEF Logic
  <1>2. PICK s \in Starts(t) : gen' = IntegerBinary(GetBoth(s, t), t)
    BY <1>1 DEF Translate
  <1>3. Translates(t, s)
    BY <1>1, <1>2 DEF Translate, Translates
  <1>4. Done(s, t, gen')
    BY <1>1, <1>2, <1>3, ReadyFact, IntegerBinaryDone DEF SameTyped, TwoOperands
  <1> QED BY <1>3, <1>4, StepFact

LEMMA AddSubInv ==
  ASSUME IInv, AddSub
  PROVE  IInv'
  <1>1. PICK t \in Triples[function] : t.op \in {"ADD", "SUB"} /\
          \/ Integer(t.lhs) /\ Translate(t, GetBoth, IntegerBinary)
          \/ Ty[t.lhs] = "f" /\ Translate(t, GetBoth, FloatBinary)
    BY DEF AddSub
  <1>2. CASE Integer(t.lhs) /\ Translate(t, GetBoth, IntegerBinary)
    <2>1. PICK s \in Starts(t) : gen' = IntegerBinary(GetBoth(s, t), t)
      BY <1>2 DEF Translate
    <2>2. Translates(t, s)
      BY <1>2, <2>1 DEF Translate, Translates
    <2>3. Done(s, t, gen')
      BY <1>1, <1>2, <2>1, <2>2, ReadyFact, IntegerBinaryDone DEF SameTyped, TwoOperands
    <2> QED BY <2>2, <2>3, StepFact
  <1>3. CASE Ty[t.lhs] = "f" /\ Translate(t, GetBoth, FloatBinary)
    <2>1. PICK s \in Starts(t) : gen' = FloatBinary(GetBoth(s, t), t)
      BY <1>3 DEF Translate
    <2>2. Translates(t, s)
      BY <1>3, <2>1 DEF Translate, Translates
    <2>3. Done(s, t, gen')
      BY <1>1, <1>3, <2>1, <2>2, ReadyFact, FloatBinaryDone DEF SameTyped, TwoOperands
    <2> QED BY <2>2, <2>3, StepFact
  <1> QED BY <1>1, <1>2, <1>3

LEMMA MulInv ==
  ASSUME IInv, Mul
  PROVE  IInv'
  <1>1. PICK t \in Triples[function] : t.op = "MUL" /\
          \/ Ty[t.lhs] = "w" /\ Translate(t, GetBoth, IntegerBinary)
          \/ Ty[t.lhs] = "q" /\ Translate(t, GetBoth, LongBinary)
          \/ Ty[t.lhs] = "f" /\ Translate(t, GetBoth, FloatBinary)
    BY DEF Mul
  <1>2. CASE Ty[t.lhs] = "w" /\ Translate(t, GetBoth, IntegerBinary)
    <2>1. PICK s \in Starts(t) : gen' = IntegerBinary(GetBoth(s, t), t)
      BY <1>2 DEF Translate
    <2>2. Translates(t, s)
      BY <1>2, <2>1 DEF Translate, Translates
    <2>3. Done(s, t, gen')
      BY <1>1, <1>2, <2>1, <2>2, ReadyFact, IntegerBinaryDone DEF SameTyped, TwoOperands
    <2> QED BY <2>2, <2>3, StepFact
  <1>3. CASE Ty[t.lhs] = "q" /\ Translate(t, GetBoth, LongBinary)
    <2>1. PICK s \in Starts(t) : gen' = LongBinary(GetBoth(s, t), t)
      BY <1>3 DEF Translate
    <2>2. Translates(t, s)
      BY <1>3, <2>1 DEF Translate, Translates
    <2>3. Done(s, t, gen')
      BY <1>1, <1>3, <2>1, <2>2, ReadyFact, LongBinaryDone DEF SameTyped, TwoOperands
    <2> QED BY <2>2, <2>3, StepFact
  <1>4. CASE Ty[t.lhs] = "f" /\ Translate(t, GetBoth, FloatBinary)
    <2>1. PICK s \in Starts(t) : gen' = FloatBinary(GetBoth(s, t), t)
      BY <1>4 DEF Translate
    <2>2. Translates(t, s)
      BY <1>4, <2>1 DEF Translate, Translates
    <2>3. Done(s, t, gen')
      BY <1>1, <1>4, <2>1, <2>2, ReadyFact, FloatBinaryDone DEF SameTyped, TwoOperands
    <2> QED BY <2>2, <2>3, StepFact
  <1> QED BY <1>1, <1>2, <1>3, <1>4

LEMMA ShiftInv ==
  ASSUME IInv, Shift
  PROVE  IInv'
  <1>1. PICK t \in Triples[function] : t.op \in {"LSH", "RSH"} /\
          \/ Ty[t.lhs] = "w" /\ Translate(t, GetBoth, ShiftWord)
          \/ Ty[t.lhs] = "q" /\ Translate(t, GetBoth, ShiftLong)
    BY DEF Shift
  <1>2. CASE Ty[t.lhs] = "w" /\ Translate(t, GetBoth, ShiftWord)
    <2>1. PICK s \in Starts(t) : gen' = ShiftWord(GetBoth(s, t), t)
      BY <1>2 DEF Translate
    <2>2. Translates(t, s)
      BY <1>2, <2>1 DEF Translate, Translates
    <2>3. Done(s, t, gen')
      BY <1>1, <1>2, <2>1, <2>2, ReadyFact, ShiftWordDone
    <2> QED BY <2>2, <2>3, StepFact
  <1>3. CASE Ty[t.lhs] = "q" /\ Translate(t, GetBoth, ShiftLong)
    <2>1. PICK s \in Starts(t) : gen' = ShiftLong(GetBoth(s, t), t)
      BY <1>3 DEF Translate
    <2>2. Translates(t, s)
      BY <1>3, <2>1 DEF Translate, Translates
    <2>3. Done(s, t, gen')
      BY <1>1, <1>3, <2>1, <2>2, ReadyFact, ShiftLongDone
    <2> QED BY <2>2, <2>3, StepFact
  <1> QED BY <1>1, <1>2, <1>3

LEMMA DivModInv ==
  ASSUME IInv, DivMod
  PROVE  IInv'
  <1>1. PICK t \in Triples[function] : t.op \in {"DIV", "MOD"} /\
          \/ Ty[t.lhs] = "w" /\ Translate(t, GetBoth, DivideWord)
          \/ Ty[t.lhs] = "q" /\ Translate(t, GetBoth, LongBinary)
          \/ Ty[t.lhs] = "f" /\ Translate(t, GetBoth, FloatBinary)
    BY DEF DivMod
  <1>2. CASE Ty[t.lhs] = "w" /\ Translate(t, GetBoth, DivideWord)
    <2>1. PICK s \in Starts(t) : gen' = DivideWord(GetBoth(s, t), t)
      BY <1>2 DEF Translate
    <2>2. Translates(t, s)
      BY <1>2, <2>1 DEF Translate, Translates
    <2>3. Done(s, t, gen')
      BY <1>1, <1>2, <2>1, <2>2, ReadyFact, DivideWordDone
    <2> QED BY <2>2, <2>3, StepFact
  <1>3. CASE Ty[t.lhs] = "q" /\ Translate(t, GetBoth, LongBinary)
    <2>1. PICK s \in Starts(t) : gen' = LongBinary(GetBoth(s, t), t)
      BY <1>3 DEF Translate
    <2>2. Translates(t, s)
      BY <1>3, <2>1 DEF Translate, Translates
    <2>3. Done(s, t, gen')
      BY <1>1, <1>3, <2>1, <2>2, ReadyFact, LongBinaryDone DEF SameTyped, TwoOperands
    <2> QED BY <2>2, <2>3, StepFact
  <1>4. CASE Ty[t.lhs] = "f" /\ Translate(t, GetBoth, FloatBinary)
    <2>1. PICK s \in Starts(t) : gen' = FloatBinary(GetBoth(s, t), t)
      BY <1>4 DEF Translate
    <2>2. Translates(t, s)
      BY <1>4, <2>1 DEF Translate, Translates
    <2>3. Done(s, t, gen')
      BY <1>1, <1>4, <2>1, <2>2, ReadyFact, FloatBinaryDone DEF SameTyped, TwoOperands
    <2> QED BY <2>2, <2>3, StepFact
  <1> QED BY <1>1, <1>2, <1>3, <1>4

LEMMA NegNotInv ==
  ASSUME IInv, NegNot
  PROVE  IInv'
  <1>1. PICK t \in Triples[function] : t.op \in {"NEG", "NOT"} /\
          \/ Integer(t.lhs) /\ Translate(t, GetOne, IntegerUnary)
          \/ Ty[t.lhs] = "f" /\ Translate(t, GetOne, FloatNegate)
    BY DEF NegNot
  <1>2. CASE Integer(t.lhs) /\ Translate(t, GetOne, IntegerUnary)
    <2>1. PICK s \in Starts(t) : gen' = IntegerUnary(GetOne(s, t), t)
      BY <1>2 DEF Translate
    <2>2. Translates(t, s)
      BY <1>2, <2>1 DEF Translate, Translates
    <2>3. Done(s, t, gen')
      BY <1>1, <1>2, <2>1, <2>2, ReadyFact, IntegerUnaryDone DEF SameTyped
    <2> QED BY <2>2, <2>3, StepFact
  <1>3. CASE Ty[t.lhs] = "f" /\ Translate(t, GetOne, FloatNegate)
    <2>1. PICK s \in Starts(t) : gen' = FloatNegate(GetOne(s, t), t)
      BY <1>3 DEF Translate
    <2>2. Translates(t, s)
      BY <1>3, <2>1 DEF Translate, Translates
    <2>3. Done(s, t, gen')
      BY <1>1, <1>3, <2>1, <2>2, ReadyFact, FloatNegateDone DEF SameTyped
    <2> QED BY <2>2, <2>3, StepFact
  <1> QED BY <1>1, <1>2, <1>3

LEMMA JumpInv ==
  ASSUME IInv, Jump
  PROVE  IInv'
  <1>1. PICK t \in Triples[function] : t.op = "J" /\
          \/ Integer(t.lhs) /\ Translate(t, GetBoth, IntegerJump)
          \/ Ty[t.lhs] = "f" /\ Translate(t, GetBoth, FloatJump)
    BY DEF Jump
  <1>2. CASE Integer(t.lhs) /\ Translate(t, GetBoth, IntegerJump)
    <2>1. PICK s \in Starts(t) : gen' = IntegerJump(GetBoth(s, t), t)
      BY <1>2 DEF Translate
    <2>2. Translates(t, s)
      BY <1>2, <2>1 DEF Translate, Translates
    <2>3. Done(s, t, gen')
      BY <1>1, <1>2, <2>1, <2>2, ReadyFact, IntegerJumpDone
    <2> QED BY <2>2, <2>3, StepFact
  <1>3. CASE Ty[t.lhs] = "f" /\ Translate(t, GetBoth, FloatJump)
    <2>1. PICK s \in Starts(t) : gen' = FloatJump(GetBoth(s, t), t)
      BY <1>3 DEF Translate
    <2>2. Translates(t, s)
      BY <1>3, <2>1 DEF Translate, Translates
    <2>3. Done(s, t, gen')
      BY <1>1, <1>3, <2>1, <2>2, ReadyFact, FloatJumpDone
    <2> QED BY <2>2, <2>3, StepFact
  <1> QED BY <1>1, <1>2, <1>3

LEMMA CvtInv ==
  ASSUME IInv, Cvt
  PROVE  IInv'
  <1>1. PICK t \in Triples[function] : t.op = "CVT" /\
          \/ Ty[t.result] = Ty[t.lhs] /\ Translate(t, GetSource, SameSize)
          \/ Translate(t, GetSource, ToNarrow)
          \/ Ty[t.result] = "q" /\ Translate(t, GetSource, ToLong)
          \/ Translate(t, GetSource, FloatToInteger)
          \/ Translate(t, GetSource, IntegerToFloat)
          \/ Translate(t, GetSource, FloatToFloat)
    BY DEF Cvt
  <1>2. CASE Ty[t.result] = Ty[t.lhs] /\ Translate(t, GetSource, SameSize)
    <2>1. PICK s \in Starts(t) : gen' = SameSize(GetSource(s, t), t)
      BY <1>2 DEF Translate
    <2>2. Translates(t, s)
      BY <1>2, <2>1 DEF Translate, Translates
    <2>3. Done(s, t, gen')
      BY <1>1, <1>2, <2>1, <2>2, ReadyFact, SameSizeDone
    <2> QED BY <2>2, <2>3, StepFact
  <1>3. CASE Translate(t, GetSource, ToNarrow)
    <2>1. PICK s \in Starts(t) : gen' = ToNarrow(GetSource(s, t), t)
      BY <1>3 DEF Translate
    <2>2. Translates(t, s)
      BY <1>3, <2>1 DEF Translate, Translates
    <2>3. Done(s, t, gen')
      BY <1>1, <1>3, <2>1, <2>2, ReadyFact, ToNarrowDone
    <2> QED BY <2>2, <2>3, StepFact
  <1>4. CASE Ty[t.result] = "q" /\ Translate(t, GetSource, ToLong)
    <2>1. PICK s \in Starts(t) : gen' = ToLong(GetSource(s, t), t)
      BY <1>4 DEF Translate
    <2>2. Translates(t, s)
      BY <1>4, <2>1 DEF Translate, Translates
    <2>3. Done(s, t, gen')
      BY <1>1, <1>4, <2>1, <2>2, ReadyFact, ToLongDone
    <2> QED BY <2>2, <2>3, StepFact
  <1>5. CASE Translate(t, GetSource, FloatToInteger)
    <2>1. PICK s \in Starts(t) : gen' = FloatToInteger(GetSource(s, t), t)
      BY <1>5 DEF Translate
    <2>2. Translates(t, s)
      BY <1>5, <2>1 DEF Translate, Translates
    <2>3. Done(s, t, gen')
      BY <1>1, <1>5, <2>1, <2>2, ReadyFact, FloatToIntegerDone
    <2> QED BY <2>2, <2>3, StepFact
  <1>6. CASE Translate(t, GetSource, IntegerToFloat)
    <2>1. PICK s \in Starts(t) : gen' = IntegerToFloat(GetSource(s, t), t)
      BY <1>6 DEF Translate
    <2>2. Translates(t, s)
      BY <1>6, <2>1 DEF Translate, Translates
    <2>3. Done(s, t, gen')
      BY <1>1, <1>6, <2>1, <2>2, ReadyFact, IntegerToFloatDone
    <2> QED BY <2>2, <2>3, StepFact
  <1>7. CASE Translate(t, GetSource, FloatToFloat)
    <2>1. PICK s \in Starts(t) : gen' = FloatToFloat(GetSource(s, t), t)
      BY <1>7 DEF Translate
    <2>2. Translates(t, s)
      BY <1>7, <2>1 DEF Translate, Translates
    <2>3. Done(s, t, gen')
      BY <1>1, <1>7, <2>1, <2>2, ReadyFact, FloatToFloatDone
    <2> QED BY <2>2, <2>3, StepFact
  <1> QED BY <1>1, <1>2, <1>3, <1>4, <1>5, <1>6, <1>7

LEMMA MovInv ==
  ASSUME IInv, Mov
  PROVE  IInv'
  <1>1. PICK t \in Triples[function] : t.op = "MOV" /\
          \/ Translate(t, GetStore, Assign)
          \/ Translate(t, GetStore, CopyBlock)
    BY DEF Mov
  <1>2. CASE Translate(t, GetStore, Assign)
    <2>1. PICK s \in Starts(t) : gen' = Assign(GetStore(s, t), t)
      BY <1>2 DEF Translate
    <2>2. Translates(t, s)
      BY <1>2, <2>1 DEF Translate, Translates
    <2>3. Done(s, t, gen')
      BY <1>1, <1>2, <2>1, <2>2, ReadyFact, AssignDone
    <2> QED BY <2>2, <2>3, StepFact
  <1>3. CASE Translate(t, GetStore, CopyBlock)
    <2>1. PICK s \in Starts(t) : gen' = CopyBlock(GetStore(s, t), t)
      BY <1>3 DEF Translate
    <2>2. Translates(t, s)
      BY <1>3, <2>1 DEF Translate, Translates
    <2>3. Done(s, t, gen')
      BY <1>1, <1>3, <2>1, <2>2, ReadyFact, CopyBlockDone
    <2> QED BY <2>2, <2>3, StepFact
  <1> QED BY <1>1, <1>2, <1>3

LEMMA PushArgInv ==
  ASSUME IInv, PushArg
  PROVE  IInv'
  <1>1. PICK t \in Triples[function] : t.op = "PUSH" /\
          \/ Translate(t, GetSource, Push)
          \/ Translate(t, GetOne, PushBlock)
    BY DEF PushArg
  <1>2. CASE Translate(t, GetSource, Push)
    <2>1. PICK s \in Starts(t) : gen' = Push(GetSource(s, t), t)
      BY <1>2 DEF Translate
    <2>2. Translates(t, s)
      BY <1>2, <2>1 DEF Translate, Translates
    <2>3. Done(s, t, gen')
      BY <1>1, <1>2, <2>1, <2>2, ReadyFact, PushDone DEF Computing, SameTyped
    <2> QED BY <2>2, <2>3, StepFact
  <1>3. CASE Translate(t, GetOne, PushBlock)
    <2>1. PICK s \in Starts(t) : gen' = PushBlock(GetOne(s, t), t)
      BY <1>3 DEF Translate
    <2>2. Translates(t, s)
      BY <1>3, <2>1 DEF Translate, Translates
    <2>3. Done(s, t, gen')
      BY <1>1, <1>3, <2>1, <2>2, ReadyFact, PushDone DEF Computing, SameTyped
    <2> QED BY <2>2, <2>3, StepFact
  <1> QED BY <1>1, <1>2, <1>3

LEMMA CallFunctionInv ==
  ASSUME IInv, CallFunction
  PROVE  IInv'
  <1>1. PICK t \in Triples[function] : t.op = "CALL" /\ Translate(t, GetOne, Call)
    BY DEF CallFunction
  <1>2. PICK s \in Starts(t) : gen' = Call(GetOne(s, t), t)
    BY <1>1 DEF Translate
  <1>3. Translates(t, s)
    BY <1>1, <1>2 DEF Translate, Translates
  <1>4. Done(s, t, gen')
    BY <1>1, <1>2, <1>3, ReadyFact, CallDone
  <1> QED BY <1>3, <1>4, StepFact

LEMMA MovRetInv ==
  ASSUME IInv, MovRet
  PROVE  IInv'
  <1>1. PICK t \in Triples[function] : t.op = "MOVERET" /\ Translate(t, GetOne, MoveReturn)
    BY DEF MovRet
  <1>2. PICK s \in Starts(t) : gen' = MoveReturn(GetOne(s, t), t)
    BY <1>1 DEF Translate
  <1>3. Translates(t, s)
    BY <1>1, <1>2 DEF Translate, Translates
  <1>4. Done(s, t, gen')
    BY <1>1, <1>2, <1>3, ReadyFact, MoveReturnDone DEF Computing, SameTyped
  <1> QED BY <1>3, <1>4, StepFact

LEMMA LoadPtrInv ==
  ASSUME IInv, LoadPtr
  PROVE  IInv'
  <1>1. PICK t \in Triples[function] : t.op = "LOAD" /\ Translate(t, GetOne, LoadPointer)
    BY DEF LoadPtr
  <1>2. PICK s \in Starts(t) : gen' = LoadPointer(GetOne(s, t), t)
    BY <1>1 DEF Translate
  <1>3. Translates(t, s)
    BY <1>1, <1>2 DEF Translate, Translates
  <1>4. Done(s, t, gen')
    BY <1>1, <1>2, <1>3, ReadyFact, LoadPointerDone DEF Computing, SameTyped
  <1> QED BY <1>3, <1>4, StepFact

LEMMA ZeroMemInv ==
  ASSUME IInv, ZeroMem
  PROVE  IInv'
  <1>1. PICK t \in Triples[function] : t.op = "ZERO" /\ Translate(t, GetBase, ZeroMemory)
    BY DEF ZeroMem
  <1>2. PICK s \in Starts(t) : gen' = ZeroMemory(GetBase(s, t), t)
    BY <1>1 DEF Translate
  <1>3. Translates(t, s)
    BY <1>1, <1>2 DEF Translate, Translates
  <1>4. Done(s, t, gen')
    BY <1>1, <1>2, <1>3, ReadyFact, ZeroMemoryDone DEF Computing, SameTyped
  <1> QED BY <1>3, <1>4, StepFact

LEMMA NoOperandInv ==
  ASSUME IInv, NoOperand
  PROVE  IInv'
  <1>1. /\ seqid' = seqid + 1 /\ gen' = gen /\ function' = function /\ emitted' = emitted
        /\ seqid <= Length[function]
    BY DEF NoOperand
  <1>2. seqid' \in 1 .. MaxSeq + 1
    <2>1. Length[function] \in 1 .. MaxSeq /\ MaxSeq \in Nat
      BY GenAssumption DEF IInv
    <2> QED BY <1>1, <2>1 DEF IInv
  <1>3. NothingLost'
    <2> SUFFICES ASSUME NEW d \in emitted \cap Values, gen.last[d] >= seqid'
                 PROVE  d \in gen.inregister \cup gen.inmemory
      BY <1>1 DEF NothingLost
    <2>1. gen.last[d] \in Int /\ seqid \in Int
      BY NodesFact DEF IInv, Good, Sound, Contexts
    <2>2. gen.last[d] >= seqid
      BY <1>1, <2>1
    <2> QED BY <2>2 DEF IInv, NothingLost
  <1>4. KidsOutlive' /\ VarsHome' /\ (Plain => Fresh' /\ CountsHome')
    BY <1>1 DEF IInv, KidsOutlive, VarsHome, Fresh, CountsHome
  <1> QED BY <1>1, <1>2, <1>3, <1>4 DEF IInv, Plain

LEMMA InitInv ==
  ASSUME Init
  PROVE  IInv
  <1> DEFINE cell == [d \in Dags |-> [p \in 0 .. 1 |->
                       IF d \in Vars /\ p \in PartsOf(d) THEN {<<d, p>>} ELSE {}]]
             link == [r \in Registers |-> <<>>]
             lastref == [r \in Registers |-> 0]
             regs == [d \in Dags |-> NoRegs]
             reg == [r \in Registers |-> {}]
  <1>1. seqid = 1 /\ emitted = {} /\ function \in Functions
    BY DEF Init
  <1>2. PICK last \in LastUses(function) :
          gen = [link |-> link, lastref |-> lastref, using |-> {}, last |-> last,
                 inregister |-> {}, regs |-> regs, inmemory |-> Vars, reg |-> reg,
                 cell |-> cell, depth |-> 0, misread |-> {}, failed |-> {}]
    BY DEF Init
  <1>3. MaxSeq \in Nat /\ 0 \in 0 .. MaxSeq /\ Length[function] \in 1 .. MaxSeq
    BY <1>1, GenAssumption
  <1>4. last \in [Dags -> 0 .. MaxSeq]
    <2> DEFINE leaves == UNION {Uses(t) : t \in Triples[function]} \ (Values \cup {NoDag})
    <2>1. PICK g \in [leaves -> 0 .. Length[function]] :
            last = [d \in Dags |-> IF d \in leaves THEN g[d] ELSE 0]
      BY DEF LastUses
    <2> HIDE DEF leaves
    <2>2. \A d \in leaves : g[d] \in 0 .. MaxSeq
      BY <1>3
    <2> QED BY <1>3, <2>1, <2>2
  <1>5. cell \in [Dags -> [0 .. 1 -> SUBSET Words]]
    BY DEF Words
  <1>6. /\ link \in [Registers -> Seq(Words)] /\ lastref \in [Registers -> 0 .. MaxSeq]
        /\ regs \in [Dags -> [0 .. 1 -> {NIL} \cup Registers]]
        /\ reg \in [Registers -> SUBSET Words] /\ Vars \subseteq Dags
    <2>1. \A d \in Dags : regs[d] = NoRegs
      OBVIOUS
    <2>2. regs \in [Dags -> [0 .. 1 -> {NIL} \cup Registers]]
      BY RegIdsFact DEF RegIds
    <2> QED BY <1>3, <2>2, NodesFact
  <1>7. \A d \in Dags : \A p \in 0 .. 1 : regs[d][p] = NIL
    BY DEF NoRegs
  <1> HIDE DEF cell, regs, reg
  <1>8. gen \in Contexts
    BY <1>2, <1>4, <1>5, <1>6 DEF Contexts
  <1>9. Located(gen)
    BY <1>2, <1>7 DEF Located
  <1>10. Match(gen)
    <2>1. ASSUME NEW r \in Registers
          PROVE  /\ IsInjective(gen.link[r])
                 /\ ToSet(gen.link[r]) = {w \in Words : gen.regs[w[1]][w[2]] = r}
                 /\ gen.lastref[r] = LastrefOf(gen, gen.link[r])
      <3>1. gen.link[r] = <<>> /\ gen.lastref[r] = 0 /\ gen.regs = regs
        BY <1>2
      <3>2. r # NIL
        BY RegisterFact DEF NIL
      <3>3. {w \in Words : gen.regs[w[1]][w[2]] = r} = {}
        BY <1>7, <3>1, <3>2 DEF Words
      <3>4. IsInjective(gen.link[r]) /\ ToSet(gen.link[r]) = {}
        BY <3>1 DEF IsInjective, ToSet
      <3>5. LastrefOf(gen, gen.link[r]) = 0
        <4>1. {0} \cup {gen.last[gen.link[r][i][1]] : i \in DOMAIN gen.link[r]} = {0}
          BY <3>1
        <4>2. Max({0}) \in {0}
          <5>1. 0 \in Nat /\ {0} \in SUBSET (0 .. 0) /\ {0} # {}
            OBVIOUS
          <5> QED BY <5>1, GreatestFact
        <4> QED BY <4>1, <4>2 DEF LastrefOf
      <3> QED BY <3>1, <3>3, <3>4, <3>5
    <2>2. \A d \in Dags : d \in gen.inregister <=> gen.regs[d][0] # NIL
      BY <1>2, <1>7
    <2> QED BY <2>1, <2>2 DEF Match
  <1>11. Good(gen) /\ gen.using = {}
    BY <1>2, <1>8, <1>9, <1>10 DEF Good, Sound
  <1>12. NothingLost /\ KidsOutlive /\ VarsHome
    BY <1>1, <1>2 DEF NothingLost, KidsOutlive, VarsHome
  <1>13. ASSUME Plain PROVE Fresh /\ CountsHome
    <2>1. Fresh
      BY <1>2, NodesFact DEF Fresh
    <2>2. CountsHome
      <3>1. gen.inregister \cup gen.inmemory = Vars
        BY <1>2
      <3> QED BY <1>1, <1>13, <3>1, NodesFact DEF CountsHome, Plain
    <2> QED BY <2>1, <2>2
  <1> QED BY <1>1, <1>3, <1>11, <1>12, <1>13 DEF IInv

LEMMA NextInv ==
  ASSUME IInv, [Next]_vars
  PROVE  IInv'
  <1>1. CASE Next
    <2>1. CASE Logic
      BY <2>1, LogicInv
    <2>2. CASE AddSub
      BY <2>2, AddSubInv
    <2>3. CASE Mul
      BY <2>3, MulInv
    <2>4. CASE Shift
      BY <2>4, ShiftInv
    <2>5. CASE DivMod
      BY <2>5, DivModInv
    <2>6. CASE NegNot
      BY <2>6, NegNotInv
    <2>7. CASE Jump
      BY <2>7, JumpInv
    <2>8. CASE Cvt
      BY <2>8, CvtInv
    <2>9. CASE Mov
      BY <2>9, MovInv
    <2>10. CASE PushArg
      BY <2>10, PushArgInv
    <2>11. CASE CallFunction
      BY <2>11, CallFunctionInv
    <2>12. CASE MovRet
      BY <2>12, MovRetInv
    <2>13. CASE LoadPtr
      BY <2>13, LoadPtrInv
    <2>14. CASE ZeroMem
      BY <2>14, ZeroMemInv
    <2>15. CASE NoOperand
      BY <2>15, NoOperandInv
    <2> QED BY <1>1, <2>1, <2>2, <2>3, <2>4, <2>5, <2>6, <2>7, <2>8, <2>9, <2>10,
               <2>11, <2>12, <2>13, <2>14, <2>15 DEF Next
  <1>2. CASE UNCHANGED vars
    <2>1. gen' = gen /\ seqid' = seqid /\ emitted' = emitted /\ function' = function
      BY <1>2 DEF vars
    <2> QED BY <2>1 DEF IInv, NothingLost, KidsOutlive, VarsHome, Fresh, CountsHome, Plain
  <1> QED BY <1>1, <1>2

-----------------------------------------------------------------------------
(* What the invariant gives, for every program.                            *)

\* The invariant holds in every state: contexts are well formed, and only what
\* is wanted later outlives a triple (all handlers of gencode_x86.c).
THEOREM Invariant == Spec => []IInv
  <1>1. Init => IInv
    BY InitInv
  <1>2. IInv /\ [Next]_vars => IInv'
    BY NextInv
  <1> QED BY <1>1, <1>2, PTL DEF Spec

\* Every handler leaves a well-formed context behind: users of registers that
\* are registers, nodes' locations that are registers or none, and last
\* references that are triples of the function (reg_x86.c, gencode_x86.c).
THEOREM Types == Spec => []TypeOK
  <1>1. IInv => TypeOK
    BY DEF IInv, Good, Sound, TypeOK, RegTypeOK
  <1> QED BY <1>1, Invariant, PTL

\* A value that is wanted later is in a register or in memory, however often
\* cc_reg_alloc and cc_reg_free take its registers away, in every handler.
THEOREM NothingIsLost == Spec => []NothingLost
  <1>1. IInv => NothingLost
    BY DEF IInv
  <1> QED BY <1>1, Invariant, PTL

\* The registers that a division marks as being used are given back before the
\* next triple, whatever is spilled in between.
THEOREM MarksGivenBack == Spec => []NothingSetAside
  <1>1. IInv => NothingSetAside
    BY DEF IInv, NothingSetAside
  <1> QED BY <1>1, Invariant, PTL

\* In functions of words, whose shift counts are constants used for nothing
\* else and whose comparisons read no right operand through the left one, the
\* descriptors' lists of users, the nodes' own locations and the cached last
\* references agree. Elsewhere they need not: the code gives a register to a
\* node that has one, and takes a user out of a list as if it were its head.
THEOREM UsersAgree == Spec => [](Plain => UsersMatch)
  <1>1. IInv => (Plain => UsersMatch)
    <2> SUFFICES ASSUME IInv, Plain PROVE UsersMatch
      OBVIOUS
    <2>1. Match(gen)
      BY DEF IInv, Good
    <2>2. ASSUME NEW d \in Dags
          PROVE  d \in gen.inregister <=> \A p \in PartsOf(d) : gen.regs[d][p] # NIL
      BY <2>1, PlainFact DEF Match
    <2> QED BY <2>1, <2>2 DEF Match, UsersMatch
  <1> QED BY <1>1, Invariant, PTL

-----------------------------------------------------------------------------
(* What registers and memory hold, in functions of integers.               *)

Divisions == {"DIV", "MOD"}

\* The operands that t's handler may load into a register of their own, other
\* than the right operand of a division.
Loaded(t) ==
  CASE t.op \in {"J", "NEG", "NOT", "PUSH", "ZERO"} -> {t.lhs}
    [] t.op = "MOV" -> {t.lhs, t.rhs}
    [] OTHER -> {}

\* Plain functions without floats that read nothing through a pointer. Where one
\* divides, it converts nothing, and a dividend is used there for the last time
\* or is never in EAX.
Tame ==
  /\ Plain /\ Inds = {} /\ \A d \in Dags : Ty[d] # "f"
  /\ \A f \in Functions : \A t \in Triples[f] : t.op \in Divisions =>
       /\ \A u \in Triples[f] : u.op # "CVT"
       /\ \/ t.lhs \in t.dies
          \/ t.lhs \notin Values /\ \A u \in Triples[f] : t.lhs \notin Loaded(u)

\* Tame functions without structures, where none both stores and converts: a
\* value that shares its register with an equal one can be lost by a store.
Simple ==
  /\ Tame /\ \A d \in Dags : Ty[d] # "blk"
  /\ \A f \in Functions : \A t \in Triples[f] :
       t.op = "MOV" => \A u \in Triples[f] : u.op # "CVT"

\* Every value has a register of its own: only a conversion shares one.
Unconverted == \A t \in Triples[function] : t.op # "CVT"

\* The dividends that are used again.
Dividends ==
  {t.lhs : t \in {u \in Triples[function] : u.op \in Divisions /\ u.lhs \notin u.dies}}

\* d is where its node says.
KeptBy(s, d) ==
  /\ d \in s.inregister => <<d, 0>> \in s.reg[s.regs[d][0]]
  /\ d \in s.inmemory => <<d, 0>> \in s.cell[d][0]

\* Two values that are wanted are in different registers.
AloneFrom(s, n) ==
  \A d \in s.inregister : \A e \in s.inregister :
    s.last[d] >= n /\ s.last[e] >= n /\ s.regs[d][0] = s.regs[e][0] => d = e

Away(s) == \A d \in Dags : s.regs[d][0] = EAX => d \notin Dividends

\* No assertion of a simple function fails on the way from s to a.
Passes(s, a) == Simple => a.failed = s.failed

Steady(s, n) ==
  /\ \A d \in Dags : s.last[d] >= n => KeptBy(s, d)
  /\ Simple => s.failed = {}
  /\ Unconverted => AloneFrom(s, n) /\ Away(s)

\* Registers R are freed: who was in them is in memory or nowhere.
Frees(s, a, R) ==
  /\ a.last = s.last /\ a.reg = s.reg /\ Passes(s, a)
  /\ a.inregister \subseteq s.inregister
  /\ \A d \in a.inregister : a.regs[d] = s.regs[d] /\ a.regs[d][0] \notin R
  /\ \A d \in Dags : a.regs[d][0] \in {s.regs[d][0], NIL}
  /\ \A d \in s.inmemory : d \in a.inmemory /\ a.cell[d] = s.cell[d]
  /\ \A d \in a.inmemory \ s.inmemory :
       d \in s.inregister /\ a.cell[d][0] = s.reg[s.regs[d][0]]

\* Emitted codes change nothing but registers R.
Touches(s, a, R) ==
  /\ Emits(s, a) /\ a.cell = s.cell /\ Passes(s, a)
  /\ \A q \in Registers \ R : a.reg[q] = s.reg[q]

\* d is in r, and of the registers nothing but R has changed.
Sets(s, a, d, r, R) ==
  /\ a.last = s.last /\ a.inmemory = s.inmemory /\ a.cell = s.cell /\ Passes(s, a)
  /\ a.inregister = s.inregister \cup {d}
  /\ a.regs[d][0] = r /\ \A e \in Dags : e # d => a.regs[e] = s.regs[e]
  /\ \A q \in Registers \ R : a.reg[q] = s.reg[q]
  /\ <<d, 0>> \in a.reg[r]

LEMMA TameFact ==
  ASSUME Tame
  PROVE  Plain /\ Inds = {} /\ \A d : KidOf(d) = {}
  BY DEF Tame, KidOf

\* Where a word is.
LEMMA HomeFact ==
  ASSUME Plain, NEW s, Good(s), NEW d \in Dags
  PROVE  /\ s.regs[d][1] = NIL /\ s.regs[d][0] \in RegIds
         /\ d \in s.inregister <=> s.regs[d][0] # NIL
         /\ d \in s.inregister => s.regs[d][0] \in Registers
  <1>1. s.regs[d][1] = NIL /\ s.regs[d][0] \in RegIds
    BY RegsFact, PlainFact
  <1>2. d \in s.inregister <=> s.regs[d][0] # NIL
    BY DEF Good, Match
  <1> QED BY <1>1, <1>2 DEF RegIds

LEMMA TypesFact ==
  ASSUME Tame, NEW d \in Dags
  PROVE  Ty[d] # "f" /\ Ty[d] # "q"
  BY TameFact, PlainFact DEF Tame

LEMMA FreesTwice ==
  ASSUME NEW s, NEW a, NEW b, NEW R, NEW Q, s \in Contexts, Frees(s, a, R), Frees(a, b, Q)
  PROVE  Frees(s, b, R \cup Q)
  <1>1. \A d \in s.inmemory : d \in b.inmemory /\ b.cell[d] = s.cell[d]
    BY DEF Frees
  <1>2. ASSUME NEW d \in b.inmemory \ s.inmemory
        PROVE  d \in s.inregister /\ b.cell[d][0] = s.reg[s.regs[d][0]]
    BY DEF Frees
  <1>3. \A d \in b.inregister : b.regs[d] = s.regs[d] /\ b.regs[d][0] \notin R \cup Q
    BY DEF Frees
  <1>4. \A d \in Dags : b.regs[d][0] \in {s.regs[d][0], NIL}
    BY DEF Frees
  <1>5. Passes(s, b)
    BY DEF Frees, Passes
  <1> QED BY <1>1, <1>2, <1>3, <1>4, <1>5 DEF Frees

LEMMA FreesSteady ==
  ASSUME NEW s, NEW a, NEW R, NEW n, s \in Contexts, a \in Contexts, Frees(s, a, R),
         Steady(s, n)
  PROVE  Steady(a, n)
  <1>1. a.inregister \subseteq Dags /\ a.inmemory \subseteq Dags
    BY DEF Contexts
  <1>2. ASSUME NEW d \in Dags, a.last[d] >= n PROVE KeptBy(a, d)
    <2>1. KeptBy(s, d) /\ a.reg = s.reg
      BY <1>2 DEF Steady, Frees
    <2>2. d \in a.inregister => <<d, 0>> \in a.reg[a.regs[d][0]]
      BY <2>1 DEF Frees, KeptBy
    <2>3. CASE d \in s.inmemory
      BY <2>1, <2>2, <2>3 DEF Frees, KeptBy
    <2>4. CASE d \notin s.inmemory
      BY <2>1, <2>2, <2>4 DEF Frees, KeptBy
    <2> QED BY <2>3, <2>4
  <1>3. ASSUME Unconverted PROVE AloneFrom(a, n) /\ Away(a)
    <2>1. AloneFrom(s, n) /\ Away(s)
      BY <1>3 DEF Steady
    <2>2. AloneFrom(a, n)
      BY <2>1 DEF Frees, AloneFrom
    <2>3. ASSUME NEW d \in Dags, a.regs[d][0] = EAX PROVE d \notin Dividends
      <3>1. a.regs[d][0] \in {s.regs[d][0], NIL} /\ NIL # EAX
        BY DEF Frees, NIL, EAX
      <3> QED BY <2>1, <2>3, <3>1 DEF Away
    <2> QED BY <2>2, <2>3 DEF Away
  <1>4. Simple => a.failed = {}
    BY DEF Steady, Frees, Passes
  <1> QED BY <1>2, <1>3, <1>4 DEF Steady

LEMMA SetsSteady ==
  ASSUME NEW s, NEW a, NEW n, NEW d \in Dags, NEW r, NEW R, r \in R, R \subseteq Registers,
         Plain, Good(s), d \notin s.inregister, Sets(s, a, d, r, R),
         \A e \in s.inregister : s.last[e] >= n => s.regs[e][0] \notin R,
         r = EAX => d \notin Dividends, Steady(s, n)
  PROVE  Steady(a, n)
  <1>1. ASSUME NEW e \in Dags, a.last[e] >= n PROVE KeptBy(a, e)
    <2>1. KeptBy(s, e)
      BY <1>1 DEF Steady, Sets
    <2>2. e \in a.inmemory => <<e, 0>> \in a.cell[e][0]
      BY <2>1 DEF Sets, KeptBy
    <2>3. CASE e = d
      BY <2>2, <2>3 DEF KeptBy, Sets
    <2>4. CASE e # d
      <3>1. ASSUME e \in a.inregister PROVE <<e, 0>> \in a.reg[a.regs[e][0]]
        <4>1. e \in s.inregister /\ a.regs[e] = s.regs[e]
          BY <2>4, <3>1 DEF Sets
        <4>2. s.regs[e][0] \in Registers \ R
          BY <1>1, <4>1, HomeFact DEF Sets
        <4>3. a.reg[s.regs[e][0]] = s.reg[s.regs[e][0]]
          BY <4>2 DEF Sets
        <4> QED BY <2>1, <4>1, <4>3 DEF KeptBy
      <3> QED BY <2>2, <3>1 DEF KeptBy
    <2> QED BY <2>3, <2>4
  <1>2. ASSUME Unconverted PROVE AloneFrom(a, n) /\ Away(a)
    <2>1. AloneFrom(s, n) /\ Away(s)
      BY <1>2 DEF Steady
    <2>2. s.inregister \subseteq Dags
      BY DEF Good, Sound, Contexts
    <2>3. \A e \in s.inregister :
            e # d /\ a.regs[e] = s.regs[e] /\ (s.last[e] >= n => a.regs[e][0] # r)
      BY <2>2 DEF Sets
    <2>4. a.inregister = s.inregister \cup {d} /\ a.regs[d][0] = r /\ a.last = s.last
      BY DEF Sets
    <2>5. AloneFrom(a, n)
      <3> SUFFICES ASSUME NEW x \in a.inregister, NEW y \in a.inregister,
                          a.last[x] >= n, a.last[y] >= n, a.regs[x][0] = a.regs[y][0]
                   PROVE  x = y
        BY DEF AloneFrom
      <3>1. CASE x = d
        BY <2>3, <2>4, <3>1
      <3>2. CASE y = d
        BY <2>3, <2>4, <3>2
      <3>3. CASE x # d /\ y # d
        BY <2>1, <2>3, <2>4, <3>3 DEF AloneFrom
      <3> QED BY <3>1, <3>2, <3>3
    <2>6. Away(a)
      BY <2>1, <2>4 DEF Away, Sets
    <2> QED BY <2>5, <2>6
  <1>3. Simple => a.failed = {}
    BY DEF Steady, Sets, Passes
  <1> QED BY <1>1, <1>2, <1>3 DEF Steady

\* Emitted codes that touch no register in which somebody is who is wanted.
LEMMA TouchesSteady ==
  ASSUME NEW s, NEW a, NEW n, NEW R, Plain, Good(s), Touches(s, a, R),
         \A e \in s.inregister : s.last[e] >= n => s.regs[e][0] \notin R, Steady(s, n)
  PROVE  Steady(a, n)
  <1>1. /\ a.last = s.last /\ a.inmemory = s.inmemory /\ a.cell = s.cell
        /\ a.inregister = s.inregister /\ a.regs = s.regs
        /\ \A q \in Registers \ R : a.reg[q] = s.reg[q]
    BY DEF Touches, Emits
  <1>2. ASSUME NEW e \in Dags, a.last[e] >= n PROVE KeptBy(a, e)
    <2>1. KeptBy(s, e)
      BY <1>1, <1>2 DEF Steady
    <2>2. e \in s.inregister => a.reg[s.regs[e][0]] = s.reg[s.regs[e][0]]
      BY <1>1, <1>2, HomeFact
    <2> QED BY <1>1, <2>1, <2>2 DEF KeptBy
  <1>3. Unconverted => AloneFrom(a, n) /\ Away(a)
    BY <1>1 DEF Steady, AloneFrom, Away
  <1>4. Simple => a.failed = {}
    BY DEF Steady, Touches, Passes
  <1> QED BY <1>2, <1>3, <1>4 DEF Steady

LEMMA TouchesTwice ==
  ASSUME NEW s, NEW a, NEW b, NEW R, NEW Q, NEW P, R \subseteq P, Q \subseteq P,
         Touches(s, a, R), Touches(a, b, Q)
  PROVE  Touches(s, b, P)
  BY EmitsTwice DEF Touches, Passes

-----------------------------------------------------------------------------
(* cc_reg_free and cc_reg_alloc move values and lose none.                 *)

\* What is stored is stored from its register.
Shelves(s, a) ==
  /\ a.reg = s.reg
  /\ \A d \in s.inmemory : d \in a.inmemory /\ a.cell[d] = s.cell[d]
  /\ \A d \in a.inmemory \ s.inmemory :
       s.last[d] > seqid /\ a.cell[d][0] = Content(s, s.regs[d][0])

LEMMA SpillShelves ==
  ASSUME NEW s \in Contexts, NEW d \in Dags, d \notin s.inmemory, s.last[d] > seqid
  PROVE  Shelves(s, Spill(s, d))
  <1> DEFINE a == Assertion(s, s.last[d] > seqid, "_lastref > curseqid")
             b == Assertion(a, d \notin s.inmemory, "!_inmemory")
             c == Assertion(b, d \in s.inregister, "_inregister")
             saved == [p \in 0 .. 1 |-> Content(s, s.regs[d][p])]
             m == Spill(s, d)
  <1>1. m = [[c EXCEPT !.inmemory = c.inmemory \cup {d}] EXCEPT !.cell[d] = saved]
    BY DEF Spill, AllocTemporary
  <1>2. a \in Contexts /\ a.reg = s.reg /\ a.cell = s.cell
    BY AssertionFact DEF Assertions
  <1> HIDE DEF a
  <1>3. b \in Contexts /\ b.reg = s.reg /\ b.cell = s.cell
    BY <1>2, AssertionFact DEF Assertions
  <1> HIDE DEF b
  <1>4. c \in Contexts /\ c.reg = s.reg /\ c.cell = s.cell
    BY <1>3, AssertionFact DEF Assertions
  <1> HIDE DEF c
  <1>5. saved[0] = Content(s, s.regs[d][0])
    OBVIOUS
  <1> HIDE DEF saved
  <1> DEFINE cell == [c.cell EXCEPT ![d] = saved]
             inmemory == c.inmemory \cup {d}
  <1>6. m = [c EXCEPT !.inmemory = inmemory, !.cell = cell]
    BY <1>1, <1>4 DEF Contexts
  <1>7. cell[d] = saved /\ \A e \in Dags : e # d => cell[e] = s.cell[e]
    BY <1>4 DEF Contexts
  <1> HIDE DEF cell, inmemory
  <1>8. m.reg = c.reg /\ m.cell = cell
    BY <1>4, <1>6 DEF Contexts
  <1>9. m.inmemory = s.inmemory \cup {d} /\ s.inmemory \subseteq Dags
    BY SpillFact DEF Stores, Contexts
  <1> HIDE DEF m
  <1>10. Shelves(s, m)
    BY <1>4, <1>5, <1>7, <1>8, <1>9 DEF Shelves
  <1> QED BY <1>10 DEF m

LEMMA FreeUserShelves ==
  ASSUME NEW s \in Contexts, NEW r \in Registers, NEW d \in Dags, s.regs[d][1] = NIL
  PROVE  Shelves(s, FreeUser(s, r, d))
  <1> DEFINE a == Save(s, d)
             b == FreeUser(s, r, d)
  <1>1. Shelves(s, a)
    <2>1. CASE s.last[d] > seqid /\ d \notin s.inmemory
      <3>1. a = Spill(s, d)
        BY <2>1 DEF Save
      <3> HIDE DEF a
      <3> QED BY <2>1, <3>1, SpillShelves
    <2>2. CASE ~(s.last[d] > seqid /\ d \notin s.inmemory)
      BY <2>2 DEF Save, Shelves
    <2> QED BY <2>1, <2>2
  <1>2. a \in Contexts /\ a.regs = s.regs
    BY SaveFact DEF Emits, Stores
  <1>3. b = Drop(FreeOther(a, r, d), d)
    BY DEF FreeUser
  <1> HIDE DEF a
  <1>4. FreeOther(a, r, d) = a
    <2>1. a.regs[d][1] = NIL /\ r # NIL
      BY <1>2, RegisterFact DEF NIL
    <2> QED BY <2>1 DEF FreeOther
  <1>5. b.reg = a.reg /\ b.inmemory = a.inmemory /\ b.cell = a.cell
    BY <1>2, <1>3, <1>4 DEF Drop, Contexts
  <1> HIDE DEF b
  <1>6. Shelves(s, b)
    BY <1>1, <1>5 DEF Shelves
  <1> QED BY <1>6 DEF b

LEMMA FreeUsersShelves ==
  ASSUME NEW s \in Contexts, NEW r \in Registers, \A d \in Dags : s.regs[d][1] = NIL
  PROVE  Shelves(s, FreeUsers(s, r))
  <1> DEFINE users == s.link[r]
             N == Len(users)
  <1>1. PICK c \in [0 .. N -> Contexts] :
          /\ c[0] = s
          /\ \A n \in 1 .. N : c[n] = FreeUser(c[n - 1], r, users[n][1])
          /\ FreeUsers(s, r) = c[N]
    BY FreeUsersSteps
  <1>2. N \in Nat /\ \A n \in 1 .. N : users[n][1] \in Dags
    BY DEF Contexts, Words
  <1> HIDE DEF users, N
  <1> DEFINE Is(n) == /\ Shelves(s, c[n]) /\ c[n].last = s.last
                      /\ \A d \in Dags : /\ c[n].regs[d][1] = NIL
                                          /\ \/ c[n].regs[d] = s.regs[d]
                                             \/ s.last[d] > seqid => d \in c[n].inmemory
             P == {n \in 0 .. N : Is(n)}
  <1>3. 0 \in P
    <2>1. Shelves(s, s)
      BY DEF Shelves
    <2> QED BY <1>1, <1>2, <2>1
  <1>4. ASSUME NEW n \in 1 .. N, n - 1 \in P PROVE n \in P
    <2> DEFINE d == users[n][1]
               a == c[n - 1]
               b == c[n]
               none == [p \in 0 .. 1 |-> NIL]
    <2>1. d \in Dags /\ n \in 0 .. N /\ n - 1 \in 0 .. N /\ a \in Contexts /\ b \in Contexts
      BY <1>1, <1>2
    <2>2. /\ Shelves(s, a) /\ a.last = s.last /\ \A e \in Dags : a.regs[e][1] = NIL
          /\ \A e \in Dags : \/ a.regs[e] = s.regs[e]
                             \/ s.last[e] > seqid => e \in a.inmemory
      BY <1>4
    <2>3. b = FreeUser(a, r, d)
      BY <1>1
    <2>4. none[1] = NIL
      OBVIOUS
    <2> HIDE DEF a, b, d, none
    <2>5. Dropped(a, b, d) /\ Shelves(a, b)
      BY <2>1, <2>2, <2>3, FreeUserFact, FreeUserShelves
    <2>6. /\ b.last = a.last /\ b.regs = [a.regs EXCEPT ![d] = none]
          /\ a.last[d] > seqid => d \in b.inmemory
          /\ a.inmemory \subseteq b.inmemory
      BY <2>5 DEF Dropped, none
    <2>7. ASSUME NEW e \in Dags
          PROVE  /\ b.regs[e][1] = NIL
                 /\ b.regs[e] = s.regs[e] \/ (s.last[e] > seqid => e \in b.inmemory)
      <3>1. CASE e = d
        BY <2>1, <2>2, <2>4, <2>6, <3>1 DEF Contexts
      <3>2. CASE e # d
        <4>1. b.regs[e] = a.regs[e]
          BY <2>1, <2>6, <3>2 DEF Contexts
        <4> QED BY <2>2, <2>6, <4>1
      <3> QED BY <3>1, <3>2
    <2>8. Shelves(s, b)
      <3>1. ASSUME NEW e \in b.inmemory \ s.inmemory
            PROVE  s.last[e] > seqid /\ b.cell[e][0] = Content(s, s.regs[e][0])
        <4>1. CASE e \in a.inmemory
          BY <2>2, <2>5, <3>1, <4>1 DEF Shelves
        <4>2. CASE e \notin a.inmemory
          <5>1. e \in Dags /\ a.last[e] > seqid /\ b.cell[e][0] = Content(a, a.regs[e][0])
            BY <2>1, <2>5, <3>1, <4>2 DEF Shelves, Contexts
          <5>2. a.regs[e] = s.regs[e] /\ s.last[e] > seqid
            BY <2>2, <4>2, <5>1
          <5> QED BY <2>2, <5>1, <5>2 DEF Shelves, Content
        <4> QED BY <4>1, <4>2
      <3>2. \A e \in s.inmemory : e \in b.inmemory /\ b.cell[e] = s.cell[e]
        BY <2>2, <2>5 DEF Shelves
      <3> QED BY <2>2, <2>5, <3>1, <3>2 DEF Shelves
    <2>9. b.last = s.last
      BY <2>2, <2>6
    <2> QED BY <2>1, <2>7, <2>8, <2>9 DEF b
  <1> HIDE DEF P
  <1>5. \A n \in 0 .. N : n \in P
    BY <1>2, <1>3, <1>4, Steps
  <1>6. N \in P
    BY <1>2, <1>5
  <1>7. Shelves(s, c[N])
    BY <1>6 DEF P
  <1> QED BY <1>1, <1>7

LEMMA SpillPasses ==
  ASSUME NEW s \in Contexts, NEW d \in s.inregister, d \notin s.inmemory, s.last[d] > seqid
  PROVE  Spill(s, d).failed = s.failed
  <1> DEFINE saved == [p \in 0 .. 1 |-> Content(s, s.regs[d][p])]
             cell == [s.cell EXCEPT ![d] = saved]
             m == Spill(s, d)
  <1>1. \A name : Assertion(s, TRUE, name) = s
    BY DEF Assertion
  <1>2. m = [[s EXCEPT !.inmemory = s.inmemory \cup {d}] EXCEPT !.cell[d] = saved]
    BY <1>1 DEF Spill, AllocTemporary
  <1> HIDE DEF saved, m
  <1>3. m = [s EXCEPT !.inmemory = s.inmemory \cup {d}, !.cell = cell]
    BY <1>2 DEF Contexts
  <1> HIDE DEF cell
  <1>4. m.failed = s.failed
    BY <1>3 DEF Contexts
  <1> QED BY <1>4 DEF m

LEMMA FreeUserPasses ==
  ASSUME NEW s \in Contexts, NEW r \in Registers, NEW d \in s.inregister, s.regs[d][1] = NIL
  PROVE  FreeUser(s, r, d).failed = s.failed
  <1> DEFINE a == Save(s, d)
             b == FreeUser(s, r, d)
  <1>1. d \in Dags
    BY DEF Contexts
  <1>2. a.failed = s.failed
    <2>1. CASE s.last[d] > seqid /\ d \notin s.inmemory
      BY <2>1, SpillPasses DEF Save
    <2>2. CASE ~(s.last[d] > seqid /\ d \notin s.inmemory)
      BY <2>2 DEF Save
    <2> QED BY <2>1, <2>2
  <1>3. a \in Contexts /\ a.regs = s.regs
    BY <1>1, SaveFact DEF Emits, Stores
  <1>4. b = Drop(FreeOther(a, r, d), d)
    BY DEF FreeUser
  <1> HIDE DEF a
  <1>5. FreeOther(a, r, d) = a
    <2>1. a.regs[d][1] = NIL /\ r # NIL
      BY <1>3, RegisterFact DEF NIL
    <2> QED BY <2>1 DEF FreeOther
  <1>6. b.failed = a.failed
    BY <1>3, <1>4, <1>5 DEF Drop, Contexts
  <1> QED BY <1>2, <1>6

\* Where nodes are words, no assertion fails when the users of a register are
\* stored: each is in the register, and is in its list once.
LEMMA FreeUsersPasses ==
  ASSUME Plain, NEW s, Good(s), NEW r \in Registers
  PROVE  FreeUsers(s, r).failed = s.failed
  <1> DEFINE users == s.link[r]
             N == Len(users)
  <1>1. s \in Contexts /\ Match(s)
    BY DEF Good, Sound
  <1>2. PICK c \in [0 .. N -> Contexts] :
          /\ c[0] = s
          /\ \A n \in 1 .. N : c[n] = FreeUser(c[n - 1], r, users[n][1])
          /\ FreeUsers(s, r) = c[N]
    BY <1>1, FreeUsersSteps
  <1>3. users \in Seq(Words) /\ N \in Nat /\ DOMAIN users = 1 .. N
    BY <1>1 DEF Contexts
  <1>4. /\ IsInjective(users)
        /\ ToSet(users) = {w \in Words : s.regs[w[1]][w[2]] = r}
    BY <1>1 DEF Match
  <1> HIDE DEF users, N
  <1>5. ASSUME NEW n \in 1 .. N
        PROVE  users[n] \in Words /\ users[n][1] \in s.inregister /\ users[n][2] = 0
    <2>1. users[n] \in Words /\ s.regs[users[n][1]][users[n][2]] = r
      BY <1>3, <1>4 DEF ToSet
    <2>2. users[n][1] \in Dags /\ (users[n][2] = 0 \/ users[n][2] = 1) /\ r # NIL
      BY <2>1, RegisterFact DEF Words, NIL
    <2>3. users[n][2] = 0
      BY <2>1, <2>2, HomeFact
    <2> QED BY <2>1, <2>2, <2>3, HomeFact
  <1>6. ASSUME NEW m \in 1 .. N, NEW n \in 1 .. N, m # n
        PROVE  users[m][1] # users[n][1]
    <2>1. users[m] # users[n]
      BY <1>3, <1>4, <1>6 DEF IsInjective
    <2>2. /\ users[m] = <<users[m][1], users[m][2]>>
          /\ users[n] = <<users[n][1], users[n][2]>>
      BY <1>5 DEF Words
    <2> QED BY <1>5, <2>1, <2>2
  <1> DEFINE Is(n) == /\ c[n].failed = s.failed
                      /\ \A d \in Dags : c[n].regs[d][1] = NIL
                      /\ \A m \in n + 1 .. N : users[m][1] \in c[n].inregister
             P == {n \in 0 .. N : Is(n)}
  <1>7. 0 \in P
    <2>1. \A d \in Dags : s.regs[d][1] = NIL
      BY HomeFact
    <2>2. \A m \in 0 + 1 .. N : users[m][1] \in s.inregister
      BY <1>5
    <2> QED BY <1>2, <1>3, <2>1, <2>2
  <1>8. ASSUME NEW n \in 1 .. N, n - 1 \in P PROVE n \in P
    <2> DEFINE d == users[n][1]
               a == c[n - 1]
               b == c[n]
               none == [p \in 0 .. 1 |-> NIL]
    <2>1. /\ n \in 0 .. N /\ n - 1 \in 0 .. N /\ a \in Contexts /\ b \in Contexts
          /\ (n - 1) + 1 = n
      BY <1>2, <1>3
    <2>2. /\ a.failed = s.failed /\ \A e \in Dags : a.regs[e][1] = NIL
          /\ \A m \in n .. N : users[m][1] \in a.inregister
      BY <1>8, <2>1
    <2>3. b = FreeUser(a, r, d) /\ d \in a.inregister /\ d \in Dags
      <3>1. n \in n .. N /\ d \in Dags
        BY <1>3, <1>5 DEF Words
      <3> QED BY <1>2, <2>2, <3>1
    <2>4. none[1] = NIL
      OBVIOUS
    <2>5. \A m \in n + 1 .. N : users[m][1] # d /\ m \in n .. N
      BY <1>3, <1>6
    <2> HIDE DEF a, b, d, none
    <2>6. b.failed = s.failed
      BY <2>1, <2>2, <2>3, FreeUserPasses
    <2>7. b.inregister = a.inregister \ {d} /\ b.regs = [a.regs EXCEPT ![d] = none]
      BY <2>1, <2>3, FreeUserFact DEF Dropped, none
    <2>8. \A e \in Dags : b.regs[e][1] = NIL
      BY <2>1, <2>2, <2>3, <2>4, <2>7 DEF Contexts
    <2>9. \A m \in n + 1 .. N : users[m][1] \in b.inregister
      BY <2>2, <2>5, <2>7
    <2> QED BY <2>1, <2>6, <2>8, <2>9 DEF b
  <1> HIDE DEF P
  <1>9. \A n \in 0 .. N : n \in P
    BY <1>3, <1>7, <1>8, Steps
  <1>10. N \in P
    BY <1>3, <1>9
  <1> QED BY <1>2, <1>10 DEF P

LEMMA FreeFrees ==
  ASSUME Plain, NEW s, Good(s), NEW r \in Registers
  PROVE  Frees(s, Free(s, r), {r}) /\ Moves(s, Free(s, r), {}) /\ Free(s, r) \in Contexts
  <1> DEFINE users == s.link[r]
             b == FreeUsers(s, r)
             a == Free(s, r)
             gone == UsersUpTo(users, Len(users))
  <1>1. /\ s \in Contexts /\ r # NIL /\ Match(s)
        /\ \A d \in Dags : s.regs[d][1] = NIL
    BY HomeFact, RegisterFact DEF Good, Sound, NIL
  <1>2. Moves(s, a, {}) /\ Good(a)
    BY FreeFact DEF Moves
  <1>3. FreedUpTo(s, b, users, Len(users)) /\ Shelves(s, b) /\ FreeFields(s, r, a)
    BY <1>1, FreeUsersFact, FreeUsersShelves, FreeFieldsFact
  <1>4. a.reg = b.reg /\ a.cell = b.cell /\ a.failed = b.failed
    <2>1. b \in Contexts
      BY <1>3 DEF FreedUpTo
    <2>2. a = [b EXCEPT !.link[r] = <<>>, !.lastref[r] = 0]
      BY DEF Free
    <2> HIDE DEF a, b
    <2> QED BY <2>1, <2>2 DEF Contexts
  <1>5. /\ a.last = s.last /\ a.inmemory = b.inmemory /\ a.inregister = s.inregister \ gone
        /\ \A d \in Dags : a.regs[d] = IF d \in gone THEN [p \in 0 .. 1 |-> NIL] ELSE s.regs[d]
        /\ a.inmemory \subseteq s.inmemory \cup gone
    BY <1>3 DEF FreedUpTo, FreeFields
  <1> HIDE DEF a, b
  <1>6. ASSUME NEW d \in Dags PROVE d \in gone <=> s.regs[d][0] = r
    <2>1. DOMAIN users = 1 .. Len(users)
      BY <1>1 DEF Contexts
    <2>2. ToSet(users) = {w \in Words : s.regs[w[1]][w[2]] = r}
      BY <1>1 DEF Match
    <2>3. gone = {w[1] : w \in ToSet(users)}
      BY <2>1 DEF UsersUpTo, ToSet
    <2> HIDE DEF gone, users
    <2>4. ASSUME s.regs[d][0] = r PROVE d \in gone
      <3> DEFINE w == <<d, 0>>
      <3>1. w \in Words /\ w[1] = d /\ w[2] = 0
        BY DEF Words
      <3>2. w \in ToSet(users)
        BY <2>2, <2>4, <3>1
      <3> QED BY <2>3, <3>1, <3>2
    <2>5. ASSUME d \in gone PROVE s.regs[d][0] = r
      <3>1. PICK w \in ToSet(users) : w[1] = d
        BY <2>3, <2>5
      <3>2. w \in Words /\ s.regs[d][w[2]] = r /\ (w[2] = 0 \/ w[2] = 1)
        BY <2>2, <3>1 DEF Words
      <3> QED BY <1>1, <3>2
    <2> QED BY <2>4, <2>5
  <1> HIDE DEF gone
  <1>7. s.inregister \subseteq Dags /\ a.inmemory \subseteq Dags
    BY <1>1, <1>2 DEF Good, Sound, Contexts
  <1>8. \A d \in Dags : a.regs[d][0] = IF d \in gone THEN NIL ELSE s.regs[d][0]
    BY <1>5
  <1>9. ASSUME NEW d \in a.inmemory \ s.inmemory
        PROVE  d \in s.inregister /\ a.cell[d][0] = s.reg[s.regs[d][0]]
    <2>1. d \in gone /\ d \in Dags
      BY <1>5, <1>7, <1>9
    <2>2. s.regs[d][0] = r /\ d \in s.inregister
      BY <1>1, <1>6, <2>1, HomeFact
    <2>3. b.cell[d][0] = Content(s, s.regs[d][0])
      BY <1>3, <1>5, <1>9 DEF Shelves
    <2> QED BY <1>1, <1>4, <2>2, <2>3 DEF Content
  <1>10. \A d \in a.inregister : a.regs[d] = s.regs[d] /\ a.regs[d][0] # r
    BY <1>5, <1>6, <1>7
  <1>11. Passes(s, a)
    BY <1>4, FreeUsersPasses DEF Passes, b
  <1>12. Frees(s, a, {r})
    BY <1>3, <1>4, <1>5, <1>8, <1>9, <1>10, <1>11 DEF Frees, Shelves
  <1> QED BY <1>2, <1>12 DEF a, Good, Sound

LEMMA FreeAllFrees ==
  ASSUME Plain, NEW s, Good(s), NEW rs \in Seq(Registers)
  PROVE  Frees(s, FreeAll(s, rs), {rs[i] : i \in 1 .. Len(rs)})
  <1> DEFINE N == Len(rs)
             R(n) == {rs[i] : i \in 1 .. n}
  <1>1. s \in Contexts
    BY DEF Good, Sound
  <1>2. PICK c \in [0 .. N -> Contexts] :
          /\ c[0] = s
          /\ \A n \in 1 .. N : c[n] = Free(c[n - 1], rs[n])
          /\ FreeAll(s, rs) = c[N]
    BY <1>1, FreeAllSteps
  <1>3. N \in Nat /\ \A n \in 1 .. N : rs[n] \in Registers
    OBVIOUS
  <1> HIDE DEF N
  <1> DEFINE P == {n \in 0 .. N : Good(c[n]) /\ Frees(s, c[n], R(n))}
  <1>4. 0 \in P
    <2>1. Frees(s, s, {})
      BY DEF Frees, Passes
    <2>2. R(0) = {}
      OBVIOUS
    <2> HIDE DEF R
    <2>3. c[0] = s /\ 0 \in 0 .. N
      BY <1>2, <1>3
    <2>4. Frees(s, s, R(0))
      BY <2>1, <2>2, Zenon
    <2>5. Good(c[0]) /\ Frees(s, c[0], R(0))
      BY <2>3, <2>4
    <2> QED BY <2>3, <2>5
  <1>5. ASSUME NEW n \in 1 .. N, n - 1 \in P PROVE n \in P
    <2> DEFINE a == c[n - 1]
               b == c[n]
    <2>1. Good(a) /\ Frees(s, a, R(n - 1)) /\ n \in 0 .. N
      BY <1>3, <1>5
    <2>2. b = Free(a, rs[n])
      BY <1>2
    <2>3. R(n) = R(n - 1) \cup {rs[n]}
      <3>1. 1 .. n = (1 .. n - 1) \cup {n}
        BY <1>3
      <3> QED BY <3>1
    <2> HIDE DEF a, b, R
    <2>4. Frees(a, b, {rs[n]}) /\ Good(b)
      BY <1>3, <2>1, <2>2, FreeFrees DEF Moves
    <2>5. Frees(s, b, R(n))
      BY <1>1, <2>1, <2>3, <2>4, FreesTwice
    <2> QED BY <2>1, <2>4, <2>5 DEF b
  <1> HIDE DEF P
  <1>6. \A n \in 0 .. N : n \in P
    BY <1>3, <1>4, <1>5, Steps
  <1>7. N \in P
    BY <1>3, <1>6
  <1>8. Frees(s, c[N], R(N))
    BY <1>7 DEF P
  <1> QED BY <1>2, <1>8 DEF N

\* cc_reg_alloc never hands out a register that is set aside.
LEMMA AvailableFact ==
  ASSUME NEW s \in Contexts, NEW flags \in SUBSET Registers, Choice(s, flags) # NIL
  PROVE  Choice(s, flags) \notin s.using
  <1> DEFINE idle == {r \in Available(s, flags) : Idle(s, r)}
  <1>1. /\ idle \in SUBSET (0 .. 9) /\ Victims(s, flags) \in SUBSET (0 .. 9)
        /\ idle \cap s.using = {} /\ Victims(s, flags) \cap s.using = {}
    BY RegisterFact DEF Available, Victims
  <1> HIDE DEF idle
  <1>2. CASE idle # {}
    <2>1. Min(idle) \in idle
      BY <1>1, <1>2, GreatestFact
    <2>2. Choice(s, flags) = Min(idle)
      BY <1>2 DEF Choice, idle
    <2> QED BY <1>1, <2>1, <2>2
  <1>3. CASE idle = {}
    <2>1. /\ Victims(s, flags) # {}
          /\ Choice(s, flags) = Min(Victims(s, flags))
      BY <1>3 DEF Choice, idle
    <2>2. Min(Victims(s, flags)) \in Victims(s, flags)
      BY <1>1, <2>1, GreatestFact
    <2> QED BY <1>1, <2>1, <2>2
  <1> QED BY <1>2, <1>3

LEMMA AllocFrees ==
  ASSUME Plain, NEW s, Good(s), Begun, NEW flags, Ample(flags)
  PROVE  LET a == Alloc(s, flags) IN
         /\ a.reg \in flags /\ a.reg \in Registers /\ a.reg # NIL /\ a.reg \notin s.using
         /\ Frees(s, a.ctx, {a.reg}) /\ Moves(s, a.ctx, {}) /\ Good(a.ctx) /\ a.ctx \in Contexts
  <1> DEFINE r == Choice(s, flags)
             a == Alloc(s, flags)
  <1>1. s \in Contexts /\ r \in flags /\ r \in Registers /\ r # NIL
    <2>1. s \in Contexts /\ r \in flags
      BY ChoiceFact DEF Good, Sound
    <2> QED BY <2>1, RegisterFact DEF Ample, NIL
  <1>2. r \notin s.using
    BY <1>1, AvailableFact DEF Ample
  <1> HIDE DEF r
  <1>3. HandOut(s, r).reg = r /\ HandOut(s, r).ctx = Free(s, r)
    BY <1>1 DEF HandOut
  <1>4. a = HandOut(s, r)
    BY DEF Alloc, r
  <1>5. Frees(s, Free(s, r), {r}) /\ Moves(s, Free(s, r), {}) /\ Free(s, r) \in Contexts
    BY <1>1, FreeFrees
  <1> QED BY <1>1, <1>2, <1>3, <1>4, <1>5 DEF Moves

-----------------------------------------------------------------------------
(* What emitted codes touch.                                               *)

LEMMA AssertionTouches ==
  ASSUME NEW s \in Contexts, NEW holds, Simple => holds, NEW name \in Assertions
  PROVE  Touches(s, Assertion(s, holds, name), {})
  <1>1. Passes(s, Assertion(s, holds, name))
    BY DEF Passes, Assertion
  <1> QED BY <1>1, AssertionFact DEF Touches

LEMMA ReadTouches ==
  ASSUME NEW s \in Contexts, NEW op, NEW d \in Dags
  PROVE  Touches(s, Read(s, op, d), {})
  <1>1. Emits(s, Read(s, op, d))
    BY ReadFact
  <1>2. /\ Read(s, op, d).cell = s.cell /\ Read(s, op, d).reg = s.reg
        /\ Read(s, op, d).failed = s.failed
    BY DEF Read, Contexts
  <1> QED BY <1>1, <1>2 DEF Touches, Passes

LEMMA ClobberTouches ==
  ASSUME NEW s \in Contexts, NEW rs
  PROVE  Touches(s, Clobber(s, rs), rs)
  <1>1. Emits(s, Clobber(s, rs))
    BY ClobberFact
  <1>2. /\ Clobber(s, rs).cell = s.cell /\ Clobber(s, rs).failed = s.failed
        /\ \A q \in Registers \ rs : Clobber(s, rs).reg[q] = s.reg[q]
    BY DEF Clobber, Contexts
  <1> QED BY <1>1, <1>2 DEF Touches, Passes

LEMMA SetRegTouches ==
  ASSUME NEW s \in Contexts, NEW r \in RegIds, NEW words \in SUBSET Words
  PROVE  /\ Touches(s, SetReg(s, r, words), {r})
         /\ r # NIL => SetReg(s, r, words).reg[r] = words
  <1>1. Emits(s, SetReg(s, r, words))
    BY SetRegFact
  <1>2. CASE r = NIL
    <2>1. SetReg(s, r, words) = s
      BY <1>2 DEF SetReg
    <2> QED BY <1>1, <1>2, <2>1 DEF Touches, Passes
  <1>3. CASE r # NIL
    <2> DEFINE reg == [s.reg EXCEPT ![r] = words]
               a == SetReg(s, r, words)
    <2>1. reg[r] = words /\ \A q \in Registers \ {r} : reg[q] = s.reg[q]
      BY <1>3 DEF Contexts, RegIds
    <2>2. a = [s EXCEPT !.reg = reg]
      BY <1>3 DEF SetReg, Contexts
    <2> HIDE DEF reg
    <2>3. a.reg = reg /\ a.cell = s.cell /\ a.failed = s.failed
      BY <2>2 DEF Contexts
    <2> QED BY <1>1, <2>1, <2>3 DEF Touches, Passes
  <1> QED BY <1>2, <1>3

LEMMA WordsFact ==
  ASSUME NEW d \in Dags
  PROVE  <<d, 0>> \in Words /\ <<d, 1>> \in Words
  BY DEF Words

\* One register is loaded with the value of d.
LEMMA ProduceTouches ==
  ASSUME NEW s \in Contexts, NEW regs, NEW r \in Registers, regs[0] = r, regs[1] = NIL,
         NEW d \in Dags
  PROVE  /\ Touches(s, Produce(s, regs, d), {r})
         /\ <<d, 0>> \in Produce(s, regs, d).reg[r]
  <1> DEFINE a == SetReg(s, r, {<<d, 0>>})
  <1>1. r \in RegIds /\ r # NIL /\ {<<d, 0>>} \in SUBSET Words
    BY RegisterFact, WordsFact DEF RegIds, NIL
  <1>2. Produce(s, regs, d) = a
    BY DEF Produce, SetReg
  <1> QED BY <1>1, <1>2, SetRegTouches

LEMMA TopTouches ==
  ASSUME NEW s \in Contexts, NEW d \in Dags
  PROVE  LET a == KeepTop(PushTop(s, d)) IN Touches(s, a, {}) /\ a.reg = s.reg
  <1> DEFINE b == PushTop(s, d)
             a == KeepTop(b)
  <1>1. Emits(s, b) /\ b \in Contexts
    BY TopFact DEF Emits
  <1>2. b.cell = s.cell /\ b.reg = s.reg /\ b.failed = s.failed
    BY DEF PushTop, Contexts
  <1> HIDE DEF b
  <1>3. Emits(b, a)
    BY <1>1, TopFact
  <1>4. a.cell = b.cell /\ a.reg = b.reg /\ a.failed = b.failed
    BY <1>1 DEF KeepTop, Contexts
  <1> HIDE DEF a
  <1>5. Touches(s, a, {}) /\ a.reg = s.reg
    BY <1>1, <1>2, <1>3, <1>4, EmitsTwice DEF Touches, Passes
  <1> QED BY <1>5 DEF a, b

LEMMA LoadTouches ==
  ASSUME NEW s \in Contexts, NEW regs, NEW r \in Registers, regs[0] = r, regs[1] = NIL,
         NEW op, Readable(op), NEW d \in Dags
  PROVE  /\ Touches(s, Load(s, regs, op, d), {r})
         /\ <<d, 0>> \in Bits(s, op, 0) => <<d, 0>> \in Load(s, regs, op, d).reg[r]
  <1> DEFINE a == Read(s, op, d)
             b == LoadPart(a, regs, op, 0)
             c == Load(s, regs, op, d)
  <1>1. r \in RegIds /\ r # NIL
    BY RegisterFact DEF RegIds, NIL
  <1>2. Touches(s, a, {}) /\ a \in Contexts
    BY ReadTouches DEF Touches, Emits
  <1>3. a.reg = s.reg /\ a.cell = s.cell
    BY DEF Read, Contexts
  <1>4. c = IF regs[0] = ST0 THEN KeepTop(PushTop(b, d)) ELSE LoadPart(b, regs, op, 1)
    BY DEF Load
  <1> HIDE DEF a
  <1>5. 0 \in 0 .. 1
    OBVIOUS
  <1>6. Bits(a, op, 0) = Bits(s, op, 0) /\ Bits(a, op, 0) \in SUBSET Words
    BY <1>2, <1>3, <1>5, BitsFact DEF Bits, Content
  <1>7. /\ Touches(a, b, {r}) /\ b \in Contexts
        /\ b.reg[r] = Bits(s, op, 0)
    BY <1>1, <1>2, <1>6, SetRegTouches DEF LoadPart, Touches, Emits
  <1> HIDE DEF b
  <1>8. Touches(b, c, {}) /\ c.reg = b.reg
    <2>1. LoadPart(b, regs, op, 1) = b
      BY DEF LoadPart, SetReg
    <2>2. Touches(b, b, {})
      BY <1>7, EmitsNothing DEF Touches, Passes
    <2> QED BY <1>4, <1>7, <2>1, <2>2, TopTouches
  <1> HIDE DEF c
  <1>9. Touches(s, b, {r})
    BY <1>2, <1>7, TouchesTwice
  <1>10. Touches(s, c, {r})
    BY <1>8, <1>9, TouchesTwice
  <1> QED BY <1>7, <1>8, <1>10 DEF c

LEMMA AssociateMachine ==
  ASSUME NEW s \in Contexts, NEW r \in Registers, NEW d \in Dags
  PROVE  LET a == Associate(s, r, d, 0) IN
         /\ Associated(s, r, d, 0, a) /\ a.reg = s.reg /\ a.cell = s.cell
         /\ a.failed = s.failed
  <1>1. 0 \in 0 .. 1 /\ r # NIL
    BY RegisterFact DEF NIL
  <1>2. Associated(s, r, d, 0, Associate(s, r, d, 0))
    BY <1>1, AssociateFields
  <1>3. /\ Associate(s, r, d, 0).reg = s.reg /\ Associate(s, r, d, 0).cell = s.cell
        /\ Associate(s, r, d, 0).failed = s.failed
    BY <1>1 DEF Associate, Contexts
  <1> QED BY <1>2, <1>3

\* d comes into r, and the codes before and after touch only registers in which
\* nobody else is who is wanted.
LEMMA Settled ==
  ASSUME Plain, NEW s, Good(s), NEW n, Steady(s, n),
         NEW d \in Dags, d \notin s.inregister,
         NEW R, R \subseteq Registers, NEW r \in R, r = EAX => d \notin Dividends,
         \A e \in s.inregister : s.last[e] >= n => s.regs[e][0] \notin R,
         NEW a, Touches(s, a, R), NEW b, b = Associate(a, r, d, 0),
         NEW c, Touches(b, c, R), <<d, 0>> \in c.reg[r]
  PROVE  Steady(c, n)
  <1>1. /\ a \in Contexts /\ a.last = s.last /\ a.inmemory = s.inmemory /\ a.cell = s.cell
        /\ a.inregister = s.inregister /\ a.regs = s.regs
        /\ \A q \in Registers \ R : a.reg[q] = s.reg[q]
    BY DEF Touches, Emits
  <1>2. Associated(a, r, d, 0, b) /\ b.reg = a.reg /\ b.cell = a.cell /\ b.failed = a.failed
    BY <1>1, AssociateMachine
  <1>3. /\ b.regs[d][0] = r /\ \A e \in Dags : e # d => b.regs[e] = a.regs[e]
    BY <1>1, <1>2 DEF Associated, Contexts
  <1>4. /\ b.last = s.last /\ b.inmemory = s.inmemory /\ b.cell = s.cell
        /\ b.inregister = s.inregister \cup {d}
    BY <1>1, <1>2 DEF Associated
  <1>5. Passes(s, c)
    BY <1>2 DEF Touches, Passes
  <1>6. Sets(s, c, d, r, R)
    BY <1>1, <1>2, <1>3, <1>4, <1>5 DEF Sets, Touches, Emits
  <1> QED BY <1>6, SetsSteady

-----------------------------------------------------------------------------
(* Operands, where nothing is read through a pointer.                      *)

LEMMA SameLocation ==
  ASSUME NEW s, NEW a, Emits(s, a), NEW d
  PROVE  GetLocation(a, d) = GetLocation(s, d)
  BY DEF GetLocation, Emits

LEMMA GetTouches ==
  ASSUME Tame, NEW s, Good(s), NEW d \in Dags, Simple => Present(s, d)
  PROVE  /\ Get(s, d).op = GetLocation(s, d)
         /\ Touches(s, Get(s, d).ctx, {})
  <1> DEFINE op == GetLocation(s, d)
  <1>1. s \in Contexts /\ op.format \in {"Reg", "InSIB", "Imm", "SIB", "None"}
    BY LocationFact DEF Good, Sound
  <1>2. GetOperand(s, d) = op
    BY TameFact DEF GetOperand
  <1> HIDE DEF op
  <1>3. Touches(s, s, {})
    BY <1>1, EmitsNothing DEF Touches, Passes
  <1>4. ASSUME op.format = "None" PROVE Touches(s, Assertion(s, FALSE, "cc_get_operand"), {})
    <2>1. Simple => FALSE
      BY <1>4, TameFact, LocationFact DEF Present, op
    <2> QED BY <1>1, <2>1, AssertionTouches DEF Assertions
  <1>5. Get(s, d) = ToInSIB(s, op, d)
    BY <1>2 DEF Get
  <1>6. CASE op.format = "None"
    <2> DEFINE a == Assertion(s, FALSE, "cc_get_operand")
    <2>1. Get(s, d) = [ctx |-> a, op |-> op]
      BY <1>5, <1>6 DEF ToInSIB, Got
    <2> HIDE DEF a
    <2>2. Get(s, d).op = op /\ Get(s, d).ctx = a
      BY <2>1
    <2> QED BY <1>4, <1>6, <2>2 DEF op, a
  <1>7. CASE op.format # "None"
    <2>1. op.format # "InSIB2"
      BY <1>1
    <2>2. Get(s, d) = [ctx |-> s, op |-> op]
      BY <1>5, <1>7, <2>1 DEF ToInSIB, Got
    <2>3. Get(s, d).op = op /\ Get(s, d).ctx = s
      BY <2>2
    <2> QED BY <1>3, <2>3 DEF op
  <1> QED BY <1>6, <1>7

\* c is a context in which the handler goes on.
Fetched(s, c) == Good(c) /\ Touches(s, c, {}) /\ Steady(c, seqid)

LEMMA FetchedFact ==
  ASSUME NEW s, NEW c, Fetched(s, c)
  PROVE  /\ Good(c) /\ c \in Contexts /\ Steady(c, seqid)
         /\ c.last = s.last /\ c.using = s.using
         /\ c.inregister = s.inregister /\ c.inmemory = s.inmemory /\ c.regs = s.regs
         /\ \A d : GetLocation(c, d) = GetLocation(s, d)
  BY SameLocation DEF Fetched, Touches, Emits

LEMMA FetchFact ==
  ASSUME Tame, NEW s, Good(s), Steady(s, seqid), NEW d \in Dags,
         Simple => Present(s, d)
  PROVE  Get(s, d).op = GetLocation(s, d) /\ Fetched(s, Get(s, d).ctx)
  <1> DEFINE a == Get(s, d).ctx
  <1>1. Get(s, d).op = GetLocation(s, d) /\ Touches(s, a, {})
    BY GetTouches
  <1> HIDE DEF a
  <1>2. Good(a)
    BY <1>1, EmitsMoves DEF Touches, Moves
  <1>3. Steady(a, seqid)
    BY <1>1, TameFact, TouchesSteady
  <1> QED BY <1>1, <1>2, <1>3 DEF Fetched, a

LEMMA FetchedTwice ==
  ASSUME NEW s, NEW a, NEW b, Fetched(s, a), Fetched(a, b)
  PROVE  Fetched(s, b)
  BY TouchesTwice DEF Fetched

LEMMA FetchBoth ==
  ASSUME Tame, NEW s, NEW t, Ready(s, t), t.op \in TwoOperands, Steady(s, seqid),
         Simple => Present(s, t.rhs)
  PROVE  LET g == GetBoth(s, t) IN
         /\ Fetched(s, g.ctx)
         /\ g.dst = GetLocation(g.ctx, t.lhs) /\ g.src = GetLocation(g.ctx, t.rhs)
  <1> DEFINE l == Get(s, t.lhs)
             r == Get(l.ctx, t.rhs)
             g == [ctx |-> r.ctx, dst |-> l.op, src |-> r.op]
  <1>1. GetBoth(s, t) = g
    BY DEF GetBoth, AddSource, WithSource
  <1>2. t.lhs \in Dags /\ t.rhs \in Dags /\ Good(s) /\ Present(s, t.lhs)
    BY DEF Ready
  <1>3. l.op = GetLocation(s, t.lhs) /\ Fetched(s, l.ctx)
    BY <1>2, FetchFact
  <1> HIDE DEF l
  <1>4. r.op = GetLocation(l.ctx, t.rhs) /\ Fetched(l.ctx, r.ctx)
    <2>1. Simple => Present(l.ctx, t.rhs)
      BY <1>3, FetchedFact DEF Present
    <2> QED BY <1>2, <1>3, <2>1, FetchFact, FetchedFact
  <1> HIDE DEF r
  <1>5. Fetched(s, r.ctx)
    BY <1>3, <1>4, FetchedTwice
  <1>6. l.op = GetLocation(r.ctx, t.lhs) /\ r.op = GetLocation(r.ctx, t.rhs)
    BY <1>3, <1>4, <1>5, FetchedFact
  <1> QED BY <1>1, <1>5, <1>6

\* What is not in a register is read from where it is.
LEMMA LocationBits ==
  ASSUME Plain, NEW c, Good(c), NEW d \in Dags, NEW n, Steady(c, n), c.last[d] >= n,
         NEW b, b.cell[d] = c.cell[d],
         GetLocation(c, d).format \in {"InSIB", "SIB", "Imm"}
  PROVE  <<d, 0>> \in Bits(b, GetLocation(c, d), 0) /\ d \notin c.inregister
  <1> DEFINE op == GetLocation(c, d)
  <1>1. d \notin c.inregister /\ (op.format = "InSIB" => d \in c.inmemory)
    BY LocationFact
  <1>2. op.base = NIL /\ op.at = d
    BY <1>1 DEF GetLocation, Operand
  <1>3. d \in c.inmemory => <<d, 0>> \in b.cell[d][0]
    BY DEF Steady, KeptBy
  <1> HIDE DEF op
  <1>4. <<d, 0>> \in Bits(b, op, 0)
    BY <1>1, <1>2, <1>3 DEF Bits, op
  <1> QED BY <1>1, <1>4 DEF op

-----------------------------------------------------------------------------
(* Registers that are freed and filled.                                    *)

LEMMA FreedSettled ==
  ASSUME Plain, NEW s, s \in Contexts, NEW n, Steady(s, n),
         NEW f, Good(f), NEW R, R \subseteq Registers, Frees(s, f, R),
         NEW d \in Dags, d \notin s.inregister, NEW r \in R, r = EAX => d \notin Dividends,
         NEW a, Touches(f, a, R), NEW b, b = Associate(a, r, d, 0),
         NEW c, Touches(b, c, R), <<d, 0>> \in c.reg[r]
  PROVE  Steady(c, n)
  <1>1. f \in Contexts /\ Steady(f, n)
    BY FreesSteady DEF Good, Sound
  <1>2. d \notin f.inregister /\ \A e \in f.inregister : f.regs[e][0] \notin R
    BY DEF Frees
  <1> QED BY <1>1, <1>2, Settled

\* The same where the codes come after, and where they come before.
LEMMA TouchesNothing ==
  ASSUME NEW s \in Contexts, NEW R
  PROVE  Touches(s, s, R)
  BY EmitsNothing DEF Touches, Passes

LEMMA DividendsFact ==
  ASSUME Tame, function \in Functions
  PROVE  /\ Dividends \cap Values = {}
         /\ \A u \in Triples[function] : Dividends \cap Loaded(u) = {}
         /\ \A u \in Triples[function] : u.op = "CVT" => ~Unconverted
  <1>1. \A t \in Triples[function] : t.op \in Divisions =>
          /\ \A u \in Triples[function] : u.op # "CVT"
          /\ \/ t.lhs \in t.dies
             \/ t.lhs \notin Values /\ \A u \in Triples[function] : t.lhs \notin Loaded(u)
    BY DEF Tame
  <1> QED BY <1>1 DEF Dividends, Unconverted

\* A register is handed out for d, and d is loaded from where it is.
LEMMA TakeLoaded ==
  ASSUME Tame, NEW c, Good(c), Begun, NEW flags, Ample(flags), NEW d \in Dags,
         Steady(c, seqid), c.last[d] >= seqid,
         NEW op, op = GetLocation(c, d), op.format \in {"InSIB", "SIB", "Imm"},
         d \notin Dividends \/ EAX \in c.using,
         NEW a, a = Take(c, flags, d, 0)
  PROVE  Steady(Load(a.ctx, Pair(a.reg, NIL), op, d), seqid)
  <1> DEFINE f == Alloc(c, flags)
             r == f.reg
             b == Associate(f.ctx, r, d, 0)
             e == Load(b, Pair(r, NIL), op, d)
  <1>1. Plain
    BY TameFact
  <1>2. /\ r \in Registers /\ r \notin c.using
        /\ Frees(c, f.ctx, {r}) /\ Good(f.ctx) /\ f.ctx \in Contexts
    BY <1>1, AllocFrees
  <1>3. a.ctx = b /\ a.reg = r
    BY DEF Take, Taken
  <1> HIDE DEF f
  <1>4. Associated(f.ctx, r, d, 0, b) /\ b.cell = f.ctx.cell /\ b \in Contexts
    <2>1. Associated(f.ctx, r, d, 0, b) /\ b.cell = f.ctx.cell
      BY <1>2, AssociateMachine
    <2> HIDE DEF b
    <2> QED BY <2>1 DEF Associated
  <1>5. b = Associate(f.ctx, r, d, 0)
    OBVIOUS
  <1> HIDE DEF b, r
  <1>6. c \in Contexts /\ Readable(op)
    BY LocationFact DEF Good, Sound
  <1>7. /\ Pair(r, NIL)[0] = r /\ Pair(r, NIL)[1] = NIL
    BY <1>2, RegIdsFact
  <1>8. Touches(b, e, {r}) /\ (<<d, 0>> \in Bits(b, op, 0) => <<d, 0>> \in e.reg[r])
    BY <1>2, <1>4, <1>6, <1>7, LoadTouches
  <1>9. d \notin c.inregister /\ <<d, 0>> \in Bits(b, op, 0)
    <2>1. <<d, 0>> \in Bits(c, op, 0) /\ d \notin c.inregister
      BY <1>1, LocationBits
    <2>2. CASE d \in c.inmemory
      <3>1. b.cell[d] = c.cell[d]
        BY <1>2, <1>4, <2>2 DEF Frees
      <3> QED BY <1>1, <3>1, LocationBits
    <2>3. CASE d \notin c.inmemory
      <3>1. op.format # "InSIB"
        BY <2>3, LocationFact
      <3>2. op.base = NIL
        BY <2>1 DEF GetLocation, Operand
      <3> QED BY <2>1, <3>1, <3>2 DEF Bits
    <2> QED BY <2>1, <2>2, <2>3
  <1> HIDE DEF e
  <1>10. Touches(f.ctx, f.ctx, {r}) /\ (r = EAX => d \notin Dividends)
    BY <1>2, TouchesNothing
  <1>11. Steady(e, seqid)
    BY <1>1, <1>2, <1>5, <1>6, <1>8, <1>9, <1>10, FreedSettled
  <1> QED BY <1>3, <1>11 DEF e

LEMMA ToRegSteady ==
  ASSUME Tame, NEW g, Good(g.ctx), Begun, NEW d \in Dags,
         Steady(g.ctx, seqid), g.ctx.last[d] >= seqid,
         g.op = GetLocation(g.ctx, d) \/ g.op.format = "Reg",
         d \notin Dividends \/ EAX \in g.ctx.using
  PROVE  Steady(ToReg(g, d).ctx, seqid)
  <1>1. CASE g.op.format \notin {"InSIB", "SIB", "Imm"}
    BY <1>1 DEF ToReg
  <1>2. CASE g.op.format \in {"InSIB", "SIB", "Imm"}
    <2> DEFINE a == Take(g.ctx, RegFlags(d), d, 0)
    <2>1. Ty[d] # "q"
      BY TameFact, PlainFact
    <2>2. TakeHigh(a, d) = [regs |-> Pair(a.reg, NIL), ctx |-> a.ctx]
      BY <2>1 DEF TakeHigh, OneReg
    <2>3. ToReg(g, d) = LoadRegs(TakeHigh(a, d), g.op, d)
      BY <1>2 DEF ToReg
    <2> HIDE DEF a
    <2>4. ToReg(g, d).ctx = Load(a.ctx, Pair(a.reg, NIL), g.op, d)
      BY <2>2, <2>3 DEF LoadRegs, Got
    <2>5. Ample(RegFlags(d))
      BY AmpleFact
    <2>6. g.op = GetLocation(g.ctx, d)
      BY <1>2
    <2>7. Steady(Load(a.ctx, Pair(a.reg, NIL), g.op, d), seqid)
      BY <1>2, <2>5, <2>6, TakeLoaded DEF a
    <2> QED BY <2>4, <2>7
  <1> QED BY <1>1, <1>2

-----------------------------------------------------------------------------
(* Binary codes and shifts.                                                *)

LEMMA EmitBinarySets ==
  ASSUME NEW s \in Contexts, NEW dst, NEW r \in Registers, dst.regs[0] = r, dst.regs[1] = NIL,
         NEW src, NEW t, t.lhs \in Dags, t.rhs \in Dags, t.result \in Dags, Ty[t.lhs] # "q"
  PROVE  /\ Touches(s, EmitBinary(s, dst, src, t), {r})
         /\ <<t.result, 0>> \in EmitBinary(s, dst, src, t).reg[r]
  <1> DEFINE a == Read(s, dst, t.lhs)
             b == Read(a, src, t.rhs)
             c == Produce(b, dst.regs, t.result)
  <1>1. EmitBinary(s, dst, src, t) = c
    BY DEF EmitBinary, AddsLow, SetReg
  <1>2. Touches(s, a, {}) /\ a \in Contexts
    BY ReadTouches DEF Touches, Emits
  <1> HIDE DEF a
  <1>3. Touches(a, b, {}) /\ b \in Contexts
    BY <1>2, ReadTouches DEF Touches, Emits
  <1> HIDE DEF b
  <1>4. Touches(b, c, {r}) /\ <<t.result, 0>> \in c.reg[r]
    BY <1>3, ProduceTouches
  <1> HIDE DEF c
  <1>5. Touches(s, b, {r})
    BY <1>2, <1>3, TouchesTwice
  <1>6. Touches(s, c, {r})
    BY <1>4, <1>5, TouchesTwice
  <1> QED BY <1>1, <1>4, <1>6

\* A triple is translated whose operands are wanted until then.
Begins(s, t) ==
  /\ Ready(s, t) /\ Steady(s, seqid) /\ function \in Functions /\ t \in Triples[function]
  /\ s.last[t.lhs] >= seqid /\ (t.lhs \in t.dies => s.last[t.lhs] = seqid)
  /\ t.op \in TwoOperands => s.last[t.rhs] >= seqid /\ Present(s, t.rhs)
  /\ \A d \in Dags : s.last[d] = seqid => d \in Uses(t)

\* What a handler with two operands and a result starts from.
LEMMA BinaryBegins ==
  ASSUME Tame, NEW s, NEW t, Begins(s, t), t.op \in SameTyped \cap TwoOperands,
         NEW g, g = GetBoth(s, t)
  PROVE  /\ Plain /\ Begun /\ Good(g.ctx) /\ g.ctx \in Contexts /\ Steady(g.ctx, seqid)
         /\ t.lhs \in Dags /\ t.rhs \in Dags /\ t.result \in Dags /\ t.result \in Values
         /\ Ty[t.lhs] # "q" /\ t.result \notin g.ctx.inregister /\ t.result \notin Dividends
         /\ g.dst = GetLocation(g.ctx, t.lhs) /\ g.src = GetLocation(g.ctx, t.rhs)
         /\ Readable(g.dst)
         /\ g.ctx.last = s.last /\ g.ctx.using = {} /\ g.ctx.inregister = s.inregister
         /\ g.ctx.inmemory = s.inmemory /\ g.ctx.regs = s.regs
  <1>1. /\ t.op \in Computing /\ t.lhs \in Dags /\ t.rhs \in Dags /\ t.result \in Dags
        /\ t.result \in Values /\ Begun /\ Plain /\ s.using = {}
        /\ t.result \notin s.inregister
    BY TameFact, NodesFact DEF Begins, Ready, Computing
  <1>2. /\ Fetched(s, g.ctx)
        /\ g.dst = GetLocation(g.ctx, t.lhs) /\ g.src = GetLocation(g.ctx, t.rhs)
    BY FetchBoth DEF Begins
  <1>3. /\ Good(g.ctx) /\ g.ctx \in Contexts /\ Steady(g.ctx, seqid)
        /\ g.ctx.last = s.last /\ g.ctx.using = s.using /\ g.ctx.inregister = s.inregister
        /\ g.ctx.inmemory = s.inmemory /\ g.ctx.regs = s.regs
    BY <1>2, FetchedFact
  <1>4. Ty[t.lhs] # "q"
    BY <1>1, PlainFact
  <1>5. t.result \notin Dividends
    BY <1>1, DividendsFact DEF Begins
  <1>6. Readable(g.dst)
    BY <1>1, <1>2, <1>3, LocationFact
  <1> QED BY <1>1, <1>2, <1>3, <1>4, <1>5, <1>6

\* The result takes the register of d, and the code leaves it there.
LEMMA TakenOverSteady ==
  ASSUME Plain, NEW c, Good(c), Steady(c, seqid), NEW r \in Registers,
         NEW d \in Dags, d \notin c.inregister, d \notin Dividends,
         NEW a, Touches(Give(c, r, d, 0), a, {r}), <<d, 0>> \in a.reg[r]
  PROVE  Steady(a, seqid)
  <1> DEFINE f == Free(c, r)
  <1>1. c \in Contexts /\ Frees(c, f, {r}) /\ Good(f) /\ f \in Contexts
    BY FreeFrees DEF Good, Sound, Moves
  <1>2. Give(c, r, d, 0) = Associate(f, r, d, 0)
    BY RegisterFact DEF Give, NIL
  <1> HIDE DEF f
  <1>3. Touches(f, f, {r})
    BY <1>1, TouchesNothing
  <1> QED BY <1>1, <1>2, <1>3, FreedSettled

LEMMA TakeOverGives ==
  ASSUME Plain, NEW c, Good(c), NEW d \in c.inregister, NEW result
  PROVE  /\ TakeOver(c, d, result) = Give(c, c.regs[d][0], result, 0)
         /\ c.regs[d][0] \in Registers /\ c.regs[d][1] = NIL
  <1>1. d \in Dags
    BY DEF Good, Sound, Contexts
  <1>2. c.regs[d][0] \in Registers /\ c.regs[d][1] = NIL
    BY <1>1, HomeFact
  <1> QED BY <1>2 DEF TakeOver, Give

\* A register is handed out and loaded with the left operand; then it is the
\* result's, and the code leaves the result there.
LEMMA LoadedSteady ==
  ASSUME Plain, Begun, NEW c, Good(c), Steady(c, seqid), NEW flags, Ample(flags),
         NEW a, a = Alloc(c, flags), NEW op, Readable(op), NEW l \in Dags,
         NEW d \in Dags, d \notin c.inregister, d \notin Dividends,
         NEW e, Touches(Associate(Load(a.ctx, Pair(a.reg, NIL), op, l), a.reg, d, 0), e, {a.reg}),
         <<d, 0>> \in e.reg[a.reg]
  PROVE  Steady(e, seqid)
  <1>1. /\ a.reg \in Registers /\ c \in Contexts
        /\ Frees(c, a.ctx, {a.reg}) /\ Good(a.ctx) /\ a.ctx \in Contexts
    BY AllocFrees DEF Good, Sound
  <1>2. Pair(a.reg, NIL)[0] = a.reg /\ Pair(a.reg, NIL)[1] = NIL
    BY <1>1, RegIdsFact
  <1>3. Touches(a.ctx, Load(a.ctx, Pair(a.reg, NIL), op, l), {a.reg})
    BY <1>1, <1>2, LoadTouches
  <1> QED BY <1>1, <1>3, FreedSettled

LEMMA IntegerBinarySteady ==
  ASSUME Tame, NEW s, NEW t, Begins(s, t), t.op \in SameTyped \cap TwoOperands
  PROVE  Steady(IntegerBinary(GetBoth(s, t), t), seqid)
  <1> DEFINE g == GetBoth(s, t)
             c == g.ctx
  <1>1. /\ Plain /\ Begun /\ Good(c) /\ c \in Contexts /\ Steady(c, seqid)
        /\ t.lhs \in Dags /\ t.rhs \in Dags /\ t.result \in Dags
        /\ Ty[t.lhs] # "q" /\ t.result \notin c.inregister /\ t.result \notin Dividends
        /\ g.dst = GetLocation(c, t.lhs) /\ Readable(g.dst)
    BY BinaryBegins
  <1> HIDE DEF g
  <1>2. CASE t.lhs \in c.inregister
    <2> DEFINE r == c.regs[t.lhs][0]
               b == TakeOver(c, t.lhs, t.result)
               a == EmitBinary(b, g.dst, g.src, t)
    <2>1. IntegerBinary(g, t) = a
      BY <1>2 DEF IntegerBinary
    <2>2. b = Give(c, r, t.result, 0) /\ r \in Registers /\ c.regs[t.lhs][1] = NIL
      BY <1>1, <1>2, TakeOverGives
    <2>3. g.dst.regs[0] = r /\ g.dst.regs[1] = NIL
      BY <1>1, <1>2, <2>2, LocationFact
    <2>4. b \in Contexts
      <3>1. r \in RegIds /\ 0 \in 0 .. 1 /\ 0 # 1
        BY <2>2, RegIdsFact
      <3> QED BY <1>1, <2>2, <3>1, GiveFact DEF Moves, Good, Sound
    <2> HIDE DEF b, r
    <2>5. Touches(b, a, {r}) /\ <<t.result, 0>> \in a.reg[r]
      BY <1>1, <2>2, <2>3, <2>4, EmitBinarySets
    <2> HIDE DEF a
    <2>6. Steady(a, seqid)
      BY <1>1, <2>2, <2>5, TakenOverSteady
    <2> QED BY <2>1, <2>6 DEF g
  <1>3. CASE t.lhs \notin c.inregister
    <2> DEFINE a == Alloc(c, NormalRegs)
               regs == Pair(a.reg, NIL)
               l == Load(a.ctx, regs, g.dst, t.lhs)
               b == Associate(l, a.reg, t.result, 0)
               src == IF t.lhs = t.rhs THEN Reg(regs) ELSE g.src
               e == EmitBinary(b, Reg(regs), src, t)
    <2>1. /\ a.reg \in Registers /\ Good(a.ctx) /\ a.ctx \in Contexts
          /\ regs[0] = a.reg /\ regs[1] = NIL
      BY <1>1, AllocFrees, AmpleFact, RegIdsFact
    <2>2. TwoRegs(c, t.lhs) = [regs |-> regs, ctx |-> a.ctx]
      BY <1>1 DEF TwoRegs, AllocHigh, OneReg
    <2> HIDE DEF a
    <2>3. AssociatePair(l, regs, t.result) = b
      BY <2>1 DEF AssociatePair, Associate
    <2>4. IntegerBinary(g, t) = EmitLoaded(TwoRegs(c, t.lhs), g, t)
      BY <1>3 DEF IntegerBinary
    <2>5. IntegerBinary(g, t) = e
      BY <2>2, <2>3, <2>4 DEF EmitLoaded
    <2>6. l \in Contexts
      BY <1>1, <2>1, LoadTouches DEF Touches, Emits
    <2> HIDE DEF l, regs
    <2>7. b \in Contexts
      BY <1>1, <2>1, <2>6, AssociateMachine DEF Associated
    <2> HIDE DEF b, src
    <2>8. Reg(regs).regs = regs
      BY DEF Reg, Operand
    <2>9. Touches(b, e, {a.reg}) /\ <<t.result, 0>> \in e.reg[a.reg]
      BY <1>1, <2>1, <2>7, <2>8, EmitBinarySets
    <2> HIDE DEF e
    <2>10. Steady(e, seqid)
      BY <1>1, <2>9, AmpleFact, LoadedSteady DEF a, b, l, regs
    <2> QED BY <2>5, <2>10 DEF g
  <1> QED BY <1>2, <1>3

LEMMA ShiftWordSteady ==
  ASSUME Tame, NEW s, NEW t, Begins(s, t), t.op \in {"LSH", "RSH"}, Ty[t.lhs] = "w"
  PROVE  Steady(ShiftWord(GetBoth(s, t), t), seqid)
  <1> DEFINE g == GetBoth(s, t)
             c == g.ctx
             b == ShiftTarget(g, t)
             dst == GetOperand(b, t.result)
             e == EmitBinary(b, dst, GetOperand(b, t.rhs), t)
  <1>1. t.op \in SameTyped \cap TwoOperands /\ t.op \in Computing
    BY DEF SameTyped, TwoOperands, Computing
  <1>2. /\ Plain /\ Begun /\ Good(c) /\ c \in Contexts /\ Steady(c, seqid)
        /\ t.lhs \in Dags /\ t.rhs \in Dags /\ t.result \in Dags
        /\ Ty[t.lhs] # "q" /\ t.result \notin c.inregister /\ t.result \notin Dividends
        /\ g.dst = GetLocation(c, t.lhs) /\ Readable(g.dst)
    BY <1>1, BinaryBegins
  <1>3. g.src.format = "Imm"
    BY <1>1, <1>2, GetBothFact DEF BothGot, Begins
  <1>4. ShiftWord(g, t) = EmitShift(ShiftCount(b, g.src, t.rhs), t)
    BY DEF ShiftWord
  <1>5. Good(b) /\ b \in Contexts /\ t.result \in b.inregister
    <2>1. Moves(c, b, {t.result}) /\ t.result \in b.inregister
      BY <1>2, ShiftTargetFact
    <2> HIDE DEF b
    <2> QED BY <2>1 DEF Moves, Good, Sound
  <1>6. b = IF InPlace(g, t) THEN Give(c, c.regs[t.lhs][0], t.result, 0)
            ELSE ShiftLoaded(Alloc(c, {EAX, EBX, EDX}), g, t)
    BY DEF ShiftTarget
  <1> HIDE DEF b
  <1>7. ShiftWord(g, t) = e
    BY <1>3, <1>4 DEF ShiftCount, EmitShift
  <1>8. dst = GetLocation(b, t.result)
    BY TameFact DEF GetOperand
  <1> HIDE DEF g, dst
  <1>9. dst.regs = b.regs[t.result] /\ dst.regs[1] = NIL
    BY <1>2, <1>5, <1>8, LocationFact, HomeFact
  <1>10. CASE InPlace(g, t)
    <2> DEFINE r == c.regs[t.lhs][0]
               f == Free(c, r)
    <2>1. t.lhs \in c.inregister
      BY <1>10 DEF InPlace
    <2>2. r \in Registers /\ r # NIL
      BY <1>2, <2>1, HomeFact
    <2>3. b = Give(c, r, t.result, 0)
      BY <1>6, <1>10
    <2> HIDE DEF r
    <2>4. f \in Contexts
      BY <1>2, <2>2, FreeFrees
    <2>5. b = Associate(f, r, t.result, 0)
      BY <2>2, <2>3 DEF Give
    <2> HIDE DEF f
    <2>6. Associated(f, r, t.result, 0, b)
      BY <1>2, <2>2, <2>4, <2>5, AssociateMachine
    <2>7. dst.regs[0] = r
      BY <1>2, <1>9, <2>4, <2>6 DEF Associated, Contexts
    <2>8. Touches(b, e, {r}) /\ <<t.result, 0>> \in e.reg[r]
      BY <1>2, <1>5, <1>9, <2>2, <2>7, EmitBinarySets
    <2> HIDE DEF e
    <2>9. Steady(e, seqid)
      BY <1>2, <2>2, <2>3, <2>8, TakenOverSteady
    <2> QED BY <1>7, <2>9 DEF g
  <1>11. CASE ~InPlace(g, t)
    <2> DEFINE a == Alloc(c, {EAX, EBX, EDX})
               l == Load(a.ctx, Pair(a.reg, NIL), g.dst, t.lhs)
    <2>1. Ample({EAX, EBX, EDX})
      BY AmpleFact
    <2>2. a.reg \in Registers /\ a.ctx \in Contexts
      BY <1>2, <2>1, AllocFrees
    <2>3. b = Associate(l, a.reg, t.result, 0)
      BY <1>6, <1>11 DEF ShiftLoaded
    <2> HIDE DEF a
    <2>4. Pair(a.reg, NIL)[0] = a.reg /\ Pair(a.reg, NIL)[1] = NIL
      BY <2>2, RegIdsFact
    <2>5. l \in Contexts
      BY <1>2, <2>2, <2>4, LoadTouches DEF Touches, Emits
    <2> HIDE DEF l
    <2>6. Associated(l, a.reg, t.result, 0, b)
      BY <1>2, <2>2, <2>3, <2>5, AssociateMachine
    <2>7. dst.regs[0] = a.reg
      BY <1>2, <1>9, <2>5, <2>6 DEF Associated, Contexts
    <2>8. Touches(b, e, {a.reg}) /\ <<t.result, 0>> \in e.reg[a.reg]
      BY <1>2, <1>5, <1>9, <2>2, <2>7, EmitBinarySets
    <2> HIDE DEF e
    <2>9. Steady(e, seqid)
      BY <1>2, <2>1, <2>3, <2>8, LoadedSteady DEF a, l
    <2> QED BY <1>7, <2>9 DEF g
  <1> QED BY <1>10, <1>11

-----------------------------------------------------------------------------
(* One operand.                                                            *)

\* What a handler with one operand starts from, and may load.
LEMMA OneBegins ==
  ASSUME Tame, NEW s, NEW t, Begins(s, t), NEW g, g = GetOne(s, t)
  PROVE  /\ Plain /\ Begun /\ Good(g.ctx) /\ g.ctx \in Contexts /\ Steady(g.ctx, seqid)
         /\ t.lhs \in Dags /\ Ty[t.lhs] # "q" /\ g.op = GetLocation(g.ctx, t.lhs)
         /\ g.op.format # "None"
         /\ g.ctx.last = s.last /\ g.ctx.inregister = s.inregister
         /\ g.ctx.inmemory = s.inmemory /\ g.ctx.using = {}
         /\ g.ctx.regs = s.regs /\ OperandOf(g, t.lhs)
  <1>1. /\ t.lhs \in Dags /\ Begun /\ Plain /\ Ready(s, t) /\ Good(s)
        /\ Present(s, t.lhs) /\ s.using = {}
    BY TameFact DEF Begins, Ready
  <1>2. g = Get(s, t.lhs)
    BY DEF GetOne
  <1>3. g.op = GetLocation(s, t.lhs) /\ Fetched(s, g.ctx)
    BY <1>1, <1>2, FetchFact DEF Begins
  <1>4. /\ Good(g.ctx) /\ g.ctx \in Contexts /\ Steady(g.ctx, seqid)
        /\ g.ctx.last = s.last /\ g.ctx.inregister = s.inregister /\ g.ctx.regs = s.regs
        /\ g.ctx.inmemory = s.inmemory /\ g.ctx.using = s.using
        /\ g.op = GetLocation(g.ctx, t.lhs)
    BY <1>3, FetchedFact
  <1>5. OneGot(s, g, t)
    BY <1>1, GetOneFact
  <1> QED BY <1>1, <1>4, <1>5, PlainFact DEF OneGot

\* d is loaded, if it is in no register.
LEMMA ToRegKeeps ==
  ASSUME Tame, Begun, NEW g, NEW d \in Dags, OperandOf(g, d), g.op.format # "None",
         Steady(g.ctx, seqid), g.ctx.last[d] >= seqid,
         g.op = GetLocation(g.ctx, d) \/ g.op.format = "Reg",
         d \notin Dividends \/ EAX \in g.ctx.using,
         NEW h, h = ToReg(g, d)
  PROVE  /\ Good(h.ctx) /\ h.ctx \in Contexts /\ Steady(h.ctx, seqid)
         /\ d \in h.ctx.inregister /\ h.ctx.last = g.ctx.last
         /\ Moves(g.ctx, h.ctx, {d}) /\ OperandOf(h, d) /\ h.op.format = "Reg"
  <1>1. Good(g.ctx)
    BY DEF OperandOf
  <1>2. Steady(h.ctx, seqid)
    BY <1>1, ToRegSteady
  <1>3. /\ Moves(g.ctx, h.ctx, {d}) /\ OperandOf(h, d) /\ d \in h.ctx.inregister
    BY LoadableFact, ToRegFact
  <1>4. h.op.format = "Reg"
    <2>1. g.op.format \in {"InSIB", "SIB", "Imm", "Reg"}
      BY DEF OperandOf, Readable, Operands, Formats
    <2>2. CASE g.op.format = "Reg"
      BY <2>2 DEF ToReg
    <2>3. CASE g.op.format # "Reg"
      BY <2>1, <2>3 DEF ToReg, LoadRegs, Got, Reg, Operand
    <2> QED BY <2>2, <2>3
  <1> QED BY <1>2, <1>3, <1>4 DEF Moves, Places, Good, Sound

LEMMA SourceBegins ==
  ASSUME Tame, NEW s, NEW t, Begins(s, t), t.lhs \notin Dividends, NEW g, g = GetSource(s, t)
  PROVE  /\ Plain /\ Begun /\ Good(g.ctx) /\ g.ctx \in Contexts /\ Steady(g.ctx, seqid)
         /\ t.lhs \in Dags /\ (g.op = GetLocation(g.ctx, t.lhs) \/ g.op.format = "Reg")
         /\ OperandOf(g, t.lhs) /\ g.op.format # "None"
         /\ g.ctx.last = s.last
         /\ t.op \in Computing => t.result \notin g.ctx.inregister
  <1> DEFINE h == GetOne(s, t)
  <1>1. /\ Plain /\ Begun /\ Good(h.ctx) /\ h.ctx \in Contexts /\ Steady(h.ctx, seqid)
        /\ t.lhs \in Dags /\ h.op = GetLocation(h.ctx, t.lhs)
        /\ h.op.format # "None"
        /\ h.ctx.last = s.last /\ h.ctx.inregister = s.inregister
        /\ OperandOf(h, t.lhs)
    BY OneBegins
  <1>2. g = IF h.op.format = "SIB" THEN ToReg(h, t.lhs) ELSE h
    BY DEF GetSource, GetOne, Unaddressed
  <1> HIDE DEF h
  <1>3. t.op \in Computing => t.result \notin g.ctx.inregister
    BY <1>1, GetOneFact DEF OneGot, Begins
  <1>4. CASE h.op.format # "SIB"
    BY <1>1, <1>2, <1>3, <1>4
  <1>5. CASE h.op.format = "SIB"
    <2>1. g = ToReg(h, t.lhs)
      BY <1>2, <1>5
    <2>2. h.ctx.last[t.lhs] >= seqid
      BY <1>1 DEF Begins
    <2>3. /\ Good(g.ctx) /\ g.ctx \in Contexts /\ Steady(g.ctx, seqid)
          /\ g.ctx.last = h.ctx.last /\ OperandOf(g, t.lhs) /\ g.op.format = "Reg"
      BY <1>1, <2>1, <2>2, ToRegKeeps
    <2> QED BY <1>1, <1>3, <2>3
  <1> QED BY <1>4, <1>5

LEMMA IntegerUnarySteady ==
  ASSUME Tame, NEW s, NEW t, Begins(s, t), t.op \in {"NEG", "NOT"}
  PROVE  Steady(IntegerUnary(GetOne(s, t), t), seqid)
  <1> DEFINE g == GetOne(s, t)
             h == ToReg(g, t.lhs)
             c == h.ctx
             r == c.regs[t.lhs][0]
             a == TakeOver(c, t.lhs, t.result)
             b == Read(a, h.op, t.lhs)
             e == Produce(b, c.regs[t.lhs], t.result)
  <1>1. /\ Plain /\ Begun /\ Good(g.ctx) /\ Steady(g.ctx, seqid)
        /\ t.lhs \in Dags /\ g.op = GetLocation(g.ctx, t.lhs) /\ g.op.format # "None"
        /\ g.ctx.last = s.last /\ g.ctx.inregister = s.inregister /\ OperandOf(g, t.lhs)
    BY OneBegins
  <1>2. IntegerUnary(g, t) = e
    BY DEF IntegerUnary, Negated
  <1> HIDE DEF g
  <1>3. t.op \in Computing /\ t.result \in Values /\ t.result \in Dags /\ Loaded(t) = {t.lhs}
    BY NodesFact DEF Begins, Ready, Computing, SameTyped, Loaded
  <1>4. t.lhs \notin Dividends /\ t.result \notin Dividends
    BY <1>3, DividendsFact DEF Begins
  <1>5. g.ctx.last[t.lhs] >= seqid
    BY <1>1 DEF Begins
  <1>6. /\ Good(c) /\ c \in Contexts /\ Steady(c, seqid) /\ t.lhs \in c.inregister
        /\ Moves(g.ctx, c, {t.lhs})
    BY <1>1, <1>4, <1>5, ToRegKeeps
  <1> HIDE DEF h
  <1>7. t.result \notin c.inregister
    BY <1>1, <1>3, <1>6 DEF Moves, Places, Begins, Ready
  <1>8. a = Give(c, r, t.result, 0) /\ r \in Registers /\ c.regs[t.lhs][1] = NIL
    BY <1>1, <1>6, TakeOverGives
  <1> HIDE DEF r
  <1>9. a \in Contexts
    <2>1. r \in RegIds /\ 0 \in 0 .. 1 /\ 0 # 1
      BY <1>8, RegIdsFact
    <2>2. Moves(c, Give(c, r, t.result, 0), {t.result})
      BY <1>3, <1>6, <1>7, <2>1, GiveFact
    <2> HIDE DEF a
    <2> QED BY <1>8, <2>2 DEF Moves, Good, Sound
  <1> HIDE DEF a
  <1>10. Touches(a, b, {}) /\ b \in Contexts
    BY <1>1, <1>9, ReadTouches DEF Touches, Emits
  <1> HIDE DEF b
  <1>11. c.regs[t.lhs][0] = r
    BY DEF r
  <1>12. Touches(b, e, {r}) /\ <<t.result, 0>> \in e.reg[r]
    BY <1>3, <1>8, <1>10, <1>11, ProduceTouches
  <1> HIDE DEF e
  <1>13. Touches(a, e, {r})
    BY <1>10, <1>12, TouchesTwice
  <1>14. Steady(e, seqid)
    BY <1>1, <1>3, <1>4, <1>6, <1>7, <1>8, <1>12, <1>13, TakenOverSteady
  <1> QED BY <1>2, <1>14 DEF g

LEMMA IntegerJumpSteady ==
  ASSUME Tame, NEW s, NEW t, Begins(s, t), t.op = "J"
  PROVE  Steady(IntegerJump(GetBoth(s, t), t), seqid)
  <1> DEFINE g == GetBoth(s, t)
             m == [ctx |-> g.ctx, op |-> g.dst]
             l == ToReg(m, t.lhs)
             a == Assertion(l.ctx, t.lhs \in l.ctx.inregister, "lhs->_x._inregister")
             b == Read(a, l.op, t.lhs)
             e == Read(b, g.src, t.rhs)
  <1>1. /\ t.op \in TwoOperands /\ t.lhs \in Dags /\ t.rhs \in Dags /\ Begun /\ Plain
        /\ Loaded(t) = {t.lhs} /\ Ty[t.lhs] # "f"
    BY TameFact DEF Begins, Ready, TwoOperands, Loaded, Tame
  <1>2. Fetched(s, g.ctx) /\ g.dst = GetLocation(g.ctx, t.lhs)
    BY <1>1, FetchBoth DEF Begins
  <1>3. /\ Good(g.ctx) /\ Steady(g.ctx, seqid) /\ g.ctx.last = s.last
        /\ g.ctx.inregister = s.inregister /\ g.ctx.inmemory = s.inmemory
    BY <1>2, FetchedFact
  <1>4. BothGot(s, g, t)
    BY <1>1, GetBothFact DEF Begins
  <1>5. IntegerJump(g, t) = e
    BY <1>1 DEF IntegerJump, CompareWith, EmitCompare, Got
  <1> HIDE DEF g
  <1>6. m.ctx = g.ctx /\ m.op = g.dst /\ Loadable(m, t.lhs)
    BY <1>1, <1>4 DEF BothGot
  <1> HIDE DEF m
  <1>a. OperandOf(m, t.lhs) /\ m.op.format # "None"
    <2>1. m.op = GetLocation(g.ctx, t.lhs) /\ t.lhs \notin Inds
      BY <1>2, <1>6, TameFact
    <2>2. m.op.format # "None"
      BY <1>1, <1>3, <2>1, LocationFact DEF Begins, Ready, Present
    <2>3. OperandOf(m, t.lhs)
      BY <1>1, <1>3, <1>6, <2>1, LocationFact DEF OperandOf
    <2> QED BY <2>2, <2>3
  <1>7. t.lhs \notin Dividends
    BY <1>1, DividendsFact DEF Begins
  <1>8. Steady(l.ctx, seqid)
    BY <1>1, <1>2, <1>3, <1>6, <1>7, ToRegSteady DEF Begins
  <1>9. Good(l.ctx) /\ l.ctx \in Contexts /\ t.lhs \in l.ctx.inregister
    BY <1>1, <1>6, <1>a, ToRegFact DEF Moves, Good, Sound
  <1> HIDE DEF l
  <1>10. Touches(l.ctx, a, {}) /\ a \in Contexts
    <2>1. Touches(l.ctx, a, {})
      BY <1>9, AssertionTouches DEF Assertions
    <2> HIDE DEF a
    <2> QED BY <2>1 DEF Touches, Emits
  <1> HIDE DEF a
  <1>11. Touches(a, b, {}) /\ b \in Contexts
    BY <1>1, <1>10, ReadTouches DEF Touches, Emits
  <1> HIDE DEF b
  <1>12. Touches(b, e, {})
    BY <1>1, <1>11, ReadTouches
  <1> HIDE DEF e
  <1>13. Touches(l.ctx, e, {})
    <2>1. Touches(l.ctx, b, {})
      BY <1>10, <1>11, TouchesTwice
    <2> QED BY <1>12, <2>1, TouchesTwice
  <1>14. Steady(e, seqid)
    BY <1>1, <1>8, <1>9, <1>13, TouchesSteady
  <1> QED BY <1>5, <1>14 DEF g

-----------------------------------------------------------------------------
(* Conversions, which no function has that divides.                        *)

\* d comes into the register r, which keeps what it holds.
LEMMA AliasSteady ==
  ASSUME Plain, ~Unconverted, NEW s, Good(s), Steady(s, seqid), NEW regs, NEW r \in Registers,
         regs[0] = r, regs[1] = NIL, NEW d \in Dags, d \notin s.inregister
  PROVE  Steady(Alias(s, regs, d), seqid)
  <1> DEFINE a == Associate(s, r, d, 0)
             words == a.reg[r] \cup {<<d, 0>>}
             reg == [a.reg EXCEPT ![r] = words]
             b == [a EXCEPT !.reg = reg]
  <1>1. s \in Contexts /\ r # NIL
    BY RegisterFact DEF Good, Sound, NIL
  <1>2. AssociatePair(s, regs, d) = a
    BY DEF AssociatePair, Associate
  <1>3. Associated(s, r, d, 0, a) /\ a.reg = s.reg /\ a.cell = s.cell /\ a.failed = s.failed
    BY <1>1, AssociateMachine
  <1>4. Alias(s, regs, d) = [a EXCEPT !.reg[r] = words]
    BY <1>1, <1>2 DEF Alias
  <1> HIDE DEF a
  <1>5. a \in Contexts
    BY <1>3 DEF Associated
  <1>6. words = s.reg[r] \cup {<<d, 0>>}
    BY <1>3
  <1> HIDE DEF words
  <1>7. Alias(s, regs, d) = b
    BY <1>4, <1>5 DEF Contexts
  <1>8. reg[r] = words /\ \A q \in Registers : q # r => reg[q] = s.reg[q]
    BY <1>3, <1>5 DEF Contexts
  <1> HIDE DEF reg
  <1>9. /\ b.reg = reg /\ b.cell = a.cell /\ b.last = a.last /\ b.inregister = a.inregister
        /\ b.inmemory = a.inmemory /\ b.regs = a.regs /\ b.failed = a.failed
    BY <1>5 DEF Contexts
  <1> HIDE DEF b
  <1>10. /\ b.last = s.last /\ b.inmemory = s.inmemory /\ b.cell = s.cell
         /\ b.inregister = s.inregister \cup {d} /\ b.regs[d][0] = r
         /\ \A e \in Dags : e # d => b.regs[e] = s.regs[e]
    BY <1>1, <1>3, <1>9 DEF Associated, Contexts
  <1>11. ASSUME NEW e \in Dags, b.last[e] >= seqid PROVE KeptBy(b, e)
    <2>1. KeptBy(s, e)
      BY <1>10, <1>11 DEF Steady
    <2>2. CASE e = d
      BY <1>6, <1>8, <1>9, <1>10, <2>1, <2>2 DEF KeptBy
    <2>3. CASE e # d
      <3>1. ASSUME e \in b.inregister PROVE <<e, 0>> \in b.reg[b.regs[e][0]]
        <4>1. e \in s.inregister /\ b.regs[e] = s.regs[e]
          BY <1>10, <2>3, <3>1
        <4>2. s.regs[e][0] \in Registers /\ <<e, 0>> \in s.reg[s.regs[e][0]]
          BY <2>1, <4>1, HomeFact DEF KeptBy
        <4> QED BY <1>6, <1>8, <1>9, <4>1, <4>2
      <3> QED BY <1>10, <2>1, <3>1 DEF KeptBy
    <2> QED BY <2>2, <2>3
  <1>12. Steady(b, seqid)
    BY <1>3, <1>9, <1>11 DEF Steady
  <1> QED BY <1>7, <1>12

LEMMA SameSizeSteady ==
  ASSUME Tame, NEW s, NEW t, Begins(s, t), t.op = "CVT"
  PROVE  Steady(SameSize(GetSource(s, t), t), seqid)
  <1> DEFINE g == GetSource(s, t)
             h == ToReg(g, t.lhs)
             a == Assertion(h.ctx, t.lhs \in h.ctx.inregister, "rhs->_x._inregister")
             regs == h.ctx.regs[t.lhs]
             b == Alias(a, regs, t.result)
  <1>1. ~Unconverted /\ Dividends = {}
    <2>1. ~Unconverted
      BY DividendsFact DEF Begins
    <2> QED BY <2>1 DEF Unconverted, Dividends, Tame, Begins
  <1>2. t.op \in Computing /\ t.result \in Dags
    BY NodesFact DEF Begins, Ready, Computing
  <1>3. /\ Plain /\ Begun /\ Good(g.ctx) /\ Steady(g.ctx, seqid) /\ t.lhs \in Dags
        /\ g.op = GetLocation(g.ctx, t.lhs) \/ g.op.format = "Reg"
        /\ OperandOf(g, t.lhs) /\ g.op.format # "None"
        /\ g.ctx.last = s.last /\ t.result \notin g.ctx.inregister
    BY <1>1, <1>2, SourceBegins
  <1>4. SameSize(g, t) = b
    BY DEF SameSize, AliasOf
  <1> HIDE DEF g
  <1>5. g.ctx.last[t.lhs] >= seqid
    BY <1>3 DEF Begins
  <1>6. /\ Good(h.ctx) /\ h.ctx \in Contexts /\ Steady(h.ctx, seqid)
        /\ t.lhs \in h.ctx.inregister /\ Moves(g.ctx, h.ctx, {t.lhs})
    BY <1>1, <1>3, <1>5, ToRegKeeps
  <1> HIDE DEF h
  <1>7. t.result \notin h.ctx.inregister
    BY <1>2, <1>3, <1>6 DEF Moves, Places, Begins, Ready
  <1>8. regs[0] \in Registers /\ regs[1] = NIL
    BY <1>3, <1>6, HomeFact
  <1> HIDE DEF regs
  <1>9. Touches(h.ctx, a, {})
    BY <1>6, AssertionTouches DEF Assertions
  <1> HIDE DEF a
  <1>10. Good(a) /\ a.inregister = h.ctx.inregister
    BY <1>6, <1>9, EmitsMoves DEF Touches, Moves, Emits
  <1>11. Steady(a, seqid)
    BY <1>3, <1>6, <1>9, TouchesSteady
  <1>12. Steady(b, seqid)
    BY <1>1, <1>2, <1>3, <1>7, <1>8, <1>10, <1>11, AliasSteady
  <1> QED BY <1>4, <1>12 DEF g

LEMMA ToNarrowSteady ==
  ASSUME Tame, NEW s, NEW t, Begins(s, t), t.op = "CVT"
  PROVE  Steady(ToNarrow(GetSource(s, t), t), seqid)
  <1> DEFINE g == GetSource(s, t)
             f == Alloc(g.ctx, NormalRegs)
             r == f.reg
             a == Associate(f.ctx, r, t.result, 0)
             l == Read(a, g.op, t.lhs)
             regs == a.regs[t.result]
             b == Produce(l, regs, t.result)
             bad == Ty[t.result] = "b" /\ Nameless(g.op)
             c == [b EXCEPT !.misread = IF bad THEN b.misread \cup {t.lhs} ELSE b.misread]
  <1>1. ~Unconverted /\ Dividends = {}
    <2>1. ~Unconverted
      BY DividendsFact DEF Begins
    <2> QED BY <2>1 DEF Unconverted, Dividends, Tame, Begins
  <1>2. t.op \in Computing /\ t.result \in Dags
    BY NodesFact DEF Begins, Ready, Computing
  <1>3. /\ Plain /\ Begun /\ Good(g.ctx) /\ g.ctx \in Contexts /\ Steady(g.ctx, seqid)
        /\ t.lhs \in Dags /\ g.ctx.last = s.last /\ t.result \notin g.ctx.inregister
    BY <1>1, <1>2, SourceBegins
  <1>4. Take(g.ctx, NormalRegs, t.result, 0).ctx = a
    BY DEF Take, Taken
  <1>5. ToNarrow(g, t) = [Convert(a, g.op, t) EXCEPT
          !.misread = IF bad THEN @ \cup {t.lhs} ELSE @]
    BY <1>4 DEF ToNarrow
  <1> HIDE DEF g, bad
  <1>6. /\ r \in Registers /\ Frees(g.ctx, f.ctx, {r}) /\ Good(f.ctx) /\ f.ctx \in Contexts
    BY <1>3, AllocFrees, AmpleFact
  <1> HIDE DEF f, r
  <1>7. Associated(f.ctx, r, t.result, 0, a)
    BY <1>2, <1>6, AssociateMachine
  <1>8. a \in Contexts /\ t.result \in a.inregister
    BY <1>7 DEF Associated
  <1>9. a.regs[t.result][0] = r /\ a.regs[t.result][1] = f.ctx.regs[t.result][1]
    BY <1>2, <1>6, <1>7 DEF Associated, Contexts
  <1>10. regs[0] = r /\ regs[1] = NIL
    BY <1>2, <1>3, <1>6, <1>9, HomeFact
  <1>11. Convert(a, g.op, t) = b
    BY <1>8 DEF Convert
  <1>a. a = Associate(f.ctx, r, t.result, 0)
    OBVIOUS
  <1> HIDE DEF a, regs
  <1>12. Touches(a, l, {}) /\ l \in Contexts
    BY <1>3, <1>8, ReadTouches DEF Touches, Emits
  <1> HIDE DEF l
  <1>13. Touches(l, b, {r}) /\ <<t.result, 0>> \in b.reg[r]
    BY <1>2, <1>6, <1>10, <1>12, ProduceTouches
  <1>14. ToNarrow(g, t) = c
    BY <1>5, <1>11
  <1> HIDE DEF b
  <1>15. Touches(b, c, {r}) /\ c.reg = b.reg
    <2>1. b \in Contexts
      BY <1>13 DEF Touches, Emits
    <2> DEFINE more == IF bad THEN b.misread \cup {t.lhs} ELSE b.misread
    <2>2. more \in SUBSET Dags
      BY <1>3, <2>1 DEF Contexts
    <2> HIDE DEF more
    <2>3. c = [b EXCEPT !.misread = more]
      BY DEF more
    <2> HIDE DEF c
    <2> QED BY <2>1, <2>2, <2>3 DEF Touches, Emits, Passes, Contexts
  <1> HIDE DEF c
  <1>16. Touches(a, c, {r})
    <2>1. Touches(a, b, {r})
      BY <1>12, <1>13, TouchesTwice
    <2> QED BY <1>15, <2>1, TouchesTwice
  <1>17. Touches(f.ctx, f.ctx, {r})
    BY <1>6, TouchesNothing
  <1>18. Steady(c, seqid)
    BY <1>1, <1>2, <1>3, <1>6, <1>a, <1>13, <1>15, <1>16, <1>17, FreedSettled
  <1> QED BY <1>14, <1>18 DEF g

-----------------------------------------------------------------------------
(* The triples that compute nothing, and X86_CALL.                         *)

\* Registers are freed, and only then touched.
LEMMA ClearedSteady ==
  ASSUME Plain, NEW s, s \in Contexts, NEW n, Steady(s, n),
         NEW f, Good(f), NEW R, Frees(s, f, R), NEW a, Touches(f, a, R)
  PROVE  Steady(a, n)
  <1>1. f \in Contexts /\ Steady(f, n)
    BY FreesSteady DEF Good, Sound
  <1>2. \A e \in f.inregister : f.regs[e][0] \notin R
    BY DEF Frees
  <1> QED BY <1>1, <1>2, TouchesSteady

\* The base of a store or a zeroed block.
LEMMA BaseBegins ==
  ASSUME Tame, NEW s, NEW t, Begins(s, t), t.lhs \in Loaded(t), NEW g, g = GetBase(s, t)
  PROVE  /\ Plain /\ Begun /\ Good(g.ctx) /\ g.ctx \in Contexts /\ Steady(g.ctx, seqid)
         /\ t.lhs \in Dags /\ g.ctx.last = s.last
  <1> DEFINE h == GetOne(s, t)
             a == Take(h.ctx, NormalAddrRegs, t.lhs, 0)
  <1>1. /\ Plain /\ Begun /\ Good(h.ctx) /\ h.ctx \in Contexts /\ Steady(h.ctx, seqid)
        /\ t.lhs \in Dags /\ h.op = GetLocation(h.ctx, t.lhs) /\ h.ctx.last = s.last
    BY OneBegins
  <1>2. g = ToSIB(h, t.lhs)
    BY DEF GetBase, GetOne
  <1>3. Good(g.ctx) /\ g.ctx \in Contexts /\ g.ctx.last = s.last
    BY GetBaseFact DEF Begins, Moves, Places
  <1> HIDE DEF h
  <1>4. CASE h.op.format = "InSIB"
    <2>1. g = LoadBase(a, "SIB", h.op, t.lhs)
      BY <1>2, <1>4 DEF ToSIB
    <2> HIDE DEF a
    <2>2. g.ctx = Load(a.ctx, Pair(a.reg, NIL), h.op, t.lhs)
      BY <2>1 DEF LoadBase, Got
    <2>3. t.lhs \notin Dividends /\ h.ctx.last[t.lhs] >= seqid
      BY <1>1, DividendsFact DEF Begins
    <2>4. Steady(g.ctx, seqid)
      BY <1>1, <1>4, <2>2, <2>3, AmpleFact, TakeLoaded DEF a
    <2> QED BY <1>1, <1>3, <2>4
  <1>5. CASE h.op.format # "InSIB"
    <2>1. g.ctx = h.ctx
      BY <1>2, <1>5 DEF ToSIB, Got
    <2> QED BY <1>1, <1>3, <2>1
  <1> QED BY <1>4, <1>5

\* The cached last reference of a register is that of one of its users.
LEMMA LastrefUsers ==
  ASSUME Plain, NEW s, Good(s), NEW q \in Registers
  PROVE  /\ \A e \in Dags : s.regs[e][0] = q => s.last[e] <= s.lastref[q]
         /\ s.lastref[q] # 0 => \E e \in Dags : s.regs[e][0] = q /\ s.last[e] = s.lastref[q]
  <1> DEFINE users == s.link[q]
             S == {0} \cup {s.last[users[i][1]] : i \in DOMAIN users}
  <1>1. s \in Contexts /\ Match(s) /\ users \in Seq(Words) /\ q # NIL
    BY RegisterFact DEF Good, Sound, Contexts, NIL
  <1>2. /\ ToSet(users) = {w \in Words : s.regs[w[1]][w[2]] = q}
        /\ s.lastref[q] = Max(S)
    BY <1>1 DEF Match, LastrefOf
  <1> HIDE DEF users
  <1>3. \A i \in DOMAIN users : users[i] \in Words /\ users[i][1] \in Dags
    BY <1>1 DEF Words
  <1>4. MaxSeq \in Nat /\ S \in SUBSET (0 .. MaxSeq) /\ S # {}
    BY <1>1, <1>3, GenAssumption DEF Contexts
  <1> HIDE DEF S
  <1>5. Max(S) \in S /\ \A k \in S : k <= Max(S)
    BY <1>4, GreatestFact
  <1>6. ASSUME NEW e \in Dags, s.regs[e][0] = q PROVE s.last[e] <= s.lastref[q]
    <2> DEFINE w == <<e, 0>>
    <2>1. w \in Words /\ w[1] = e /\ w[2] = 0
      BY DEF Words
    <2>2. w \in ToSet(users)
      BY <1>2, <1>6, <2>1
    <2>3. PICK i \in DOMAIN users : users[i] = w
      BY <2>2 DEF ToSet
    <2>4. s.last[users[i][1]] = s.last[e]
      BY <2>1, <2>3
    <2>5. s.last[e] \in S
      BY <2>4 DEF S
    <2> QED BY <1>2, <1>5, <2>5
  <1>7. ASSUME s.lastref[q] # 0
        PROVE  \E e \in Dags : s.regs[e][0] = q /\ s.last[e] = s.lastref[q]
    <2>1. PICK i \in DOMAIN users : s.lastref[q] = s.last[users[i][1]]
      BY <1>2, <1>5, <1>7 DEF S
    <2>2. users[i] \in ToSet(users) /\ users[i] \in Words /\ users[i][1] \in Dags
      BY <1>3, <2>1 DEF ToSet
    <2>3. s.regs[users[i][1]][users[i][2]] = q /\ (users[i][2] = 0 \/ users[i][2] = 1)
      BY <1>2, <2>2 DEF Words
    <2>4. users[i][2] = 0
      BY <1>1, <2>2, <2>3, HomeFact
    <2> QED BY <2>1, <2>2, <2>3, <2>4
  <1> QED BY <1>6, <1>7

\* A value that this triple uses for the last time, as no other value in a
\* register but x may be, keeps its register when one is handed out for an
\* address: some register has nobody whom this or a later triple wants, or all
\* of them are wanted later than it is.
LEMMA ChoiceSpares ==
  ASSUME Plain, NEW s, Good(s), s.using = {}, Begun, AloneFrom(s, seqid),
         NEW d \in s.inregister, s.last[d] = seqid, NEW x,
         \A e \in s.inregister : s.last[e] = seqid => e \in {d, x}
  PROVE  Choice(s, NormalAddrRegs) # s.regs[d][0]
  <1> DEFINE r == s.regs[d][0]
             available == Available(s, NormalAddrRegs)
             idle == {q \in available : Idle(s, q)}
  <1> SUFFICES ASSUME Choice(s, NormalAddrRegs) = r PROVE FALSE
    OBVIOUS
  <1>1. s \in Contexts /\ d \in Dags /\ seqid \in Nat /\ seqid # 0
    BY DEF Good, Sound, Contexts, Begun
  <1>2. r \in Registers /\ r # NIL
    BY <1>1, HomeFact, RegisterFact DEF NIL
  <1>3. available = NormalAddrRegs /\ available \subseteq Registers /\ available \subseteq 0 .. 9
    BY RegisterFact DEF Available, NormalAddrRegs, Registers
  <1> HIDE DEF r, available
  <1>4. ASSUME NEW e \in Dags, NEW q \in Registers, s.regs[e][0] = q PROVE e \in s.inregister
    BY <1>4, RegisterFact, HomeFact DEF NIL
  <1>5. ~Idle(s, r)
    <2>1. s.last[d] <= s.lastref[r]
      BY <1>1, <1>2, LastrefUsers DEF r
    <2>2. s.lastref[r] \in Int
      BY <1>1, <1>2 DEF Contexts
    <2>3. s.link[r] # <<>>
      <3>1. <<d, 0>> \in Words /\ <<d, 0>>[1] = d /\ <<d, 0>>[2] = 0
        BY <1>1 DEF Words
      <3>2. <<d, 0>> \in ToSet(s.link[r])
        BY <1>2, <3>1 DEF Good, Match, r
      <3> QED BY <3>2, NobodyFact
    <2> QED BY <1>1, <2>1, <2>2, <2>3 DEF Idle
  <1>6. idle = {}
    <2>1. ASSUME idle # {} PROVE FALSE
      <3>1. idle \in SUBSET (0 .. 9)
        BY <1>3
      <3>2. Choice(s, NormalAddrRegs) = Min(idle)
        BY <2>1 DEF Choice, available
      <3> HIDE DEF idle
      <3>3. r \in idle
        BY <2>1, <3>1, <3>2, GreatestFact
      <3> QED BY <1>5, <3>3 DEF idle
    <2> QED BY <2>1
  <1>7. r \in Victims(s, NormalAddrRegs)
    <2> DEFINE V == Victims(s, NormalAddrRegs)
    <2>1. V \in SUBSET (0 .. 9)
      BY <1>3 DEF Victims, available
    <2>2. V # {} /\ Choice(s, NormalAddrRegs) = Min(V)
      BY <1>2, <1>6 DEF Choice, available
    <2> HIDE DEF V
    <2>3. r \in V
      BY <2>1, <2>2, GreatestFact
    <2> QED BY <2>3 DEF V
  <1>8. s.lastref[r] = seqid
    <2>1. s.lastref[r] # 0 /\ s.lastref[r] \in Int
      BY <1>1, <1>2, <1>7 DEF Victims, Contexts
    <2>2. PICK e \in Dags : s.regs[e][0] = r /\ s.last[e] = s.lastref[r]
      BY <1>2, <2>1, LastrefUsers
    <2>3. e \in s.inregister
      BY <1>2, <1>4, <2>2
    <2>4. s.last[e] >= seqid
      BY <1>1, <1>2, <2>2, LastrefUsers DEF r
    <2>5. e = d
      BY <1>1, <2>2, <2>3, <2>4 DEF AloneFrom, r
    <2> QED BY <2>2, <2>5
  <1>9. ASSUME NEW q \in available PROVE \E e \in {d, x} : s.regs[e][0] = q
    <2>1. q \in Registers /\ s.lastref[q] \in Int
      BY <1>1, <1>3 DEF Contexts
    <2>2. s.lastref[q] <= seqid
      BY <1>7, <1>8 DEF Victims, available
    <2>3. ~(s.lastref[q] < seqid)
      BY <1>6 DEF Idle
    <2>4. s.lastref[q] = seqid
      BY <1>1, <2>1, <2>2, <2>3
    <2>5. PICK e \in Dags : s.regs[e][0] = q /\ s.last[e] = seqid
      BY <1>1, <2>1, <2>4, LastrefUsers
    <2> QED BY <1>4, <2>1, <2>5
  <1>10. {EAX, EBX, ECX} \subseteq available /\ EAX # EBX /\ EBX # ECX /\ EAX # ECX
    BY <1>3 DEF NormalAddrRegs, EAX, EBX, ECX, EDI
  <1> QED BY <1>9, <1>10

\* Freeing a register leaves who is in another one.
LEMMA FreeStays ==
  ASSUME Plain, NEW s, Good(s), NEW r \in Registers, NEW d \in s.inregister,
         s.regs[d][0] # r
  PROVE  d \in Free(s, r).inregister
  <1> DEFINE users == s.link[r]
  <1>1. s \in Contexts /\ d \in Dags /\ s.regs[d][1] = NIL /\ r # NIL
    BY HomeFact, RegisterFact DEF Good, Sound, Contexts, NIL
  <1>2. ToSet(users) = {w \in Words : s.regs[w[1]][w[2]] = r} /\ DOMAIN users = 1 .. Len(users)
    BY <1>1 DEF Good, Match, Contexts
  <1>3. /\ FreedUpTo(s, FreeUsers(s, r), users, Len(users))
        /\ FreeFields(s, r, Free(s, r))
    BY <1>1, FreeUsersFact, FreeFieldsFact
  <1> HIDE DEF users
  <1>4. Free(s, r).inregister = s.inregister \ UsersUpTo(users, Len(users))
    BY <1>3 DEF FreedUpTo, FreeFields
  <1>5. ASSUME NEW i \in 1 .. Len(users) PROVE users[i][1] # d
    <2>1. users[i] \in Words /\ s.regs[users[i][1]][users[i][2]] = r
      BY <1>2 DEF ToSet
    <2>2. users[i][2] = 0 \/ users[i][2] = 1
      BY <2>1 DEF Words
    <2> QED BY <1>1, <2>1, <2>2
  <1> QED BY <1>4, <1>5 DEF UsersUpTo

\* Loading the address of a store does not lose what is stored, even if this is
\* the last triple that wants it.
LEMMA StoreFinds ==
  ASSUME Tame, NEW s, NEW t, Begins(s, t), t.op = "MOV"
  PROVE  Simple => Present(GetBase(s, t).ctx, t.rhs)
  <1> DEFINE h == GetOne(s, t)
             u == h.ctx
             a == Alloc(u, NormalAddrRegs)
             b == Associate(a.ctx, a.reg, t.lhs, 0)
             g == GetBase(s, t)
  <1> SUFFICES ASSUME Simple PROVE Present(g.ctx, t.rhs)
    BY DEF g
  <1>1. t.op \in TwoOperands /\ t.lhs \in Loaded(t) /\ Inds = {} /\ t.rhs \in Dags
    BY TameFact DEF TwoOperands, Loaded, Begins, Ready
  <1>2. /\ Plain /\ Begun /\ Good(u) /\ u \in Contexts /\ Steady(u, seqid)
        /\ t.lhs \in Dags /\ h.op = GetLocation(u, t.lhs) /\ u.last = s.last
        /\ u.inregister = s.inregister /\ u.inmemory = s.inmemory /\ u.using = {}
    BY OneBegins
  <1>3. g = ToSIB(h, t.lhs)
    BY DEF GetBase, GetOne
  <1>4. Present(u, t.rhs)
    BY <1>1, <1>2 DEF Begins, Present
  <1>5. t.rhs \in u.inregister \cup u.inmemory \cup Imms \cup Addrs
    BY <1>1, <1>4 DEF Present
  <1> HIDE DEF h, u, g
  <1>6. CASE h.op.format # "InSIB"
    <2>1. g.ctx = u
      BY <1>3, <1>6 DEF ToSIB, Got, u
    <2> QED BY <1>4, <2>1
  <1>7. CASE h.op.format = "InSIB"
    <2>1. g.ctx = Load(b, Pair(a.reg, NIL), h.op, t.lhs)
      BY <1>3, <1>7 DEF ToSIB, LoadBase, Got, Take, Taken, u
    <2>2. /\ a.reg \in NormalAddrRegs /\ a.reg \in Registers /\ a.reg # NIL
          /\ Moves(u, a.ctx, {}) /\ Good(a.ctx) /\ a.ctx \in Contexts
      BY <1>2, AmpleFact, AllocFrees
    <2>3. t.lhs \notin u.inregister
      BY <1>2, <1>7, LocationFact
    <2>4. a.reg = Choice(u, NormalAddrRegs) /\ a.ctx = Free(u, a.reg)
      <3>1. a.reg = Choice(u, NormalAddrRegs)
        BY DEF Alloc, HandOut
      <3>2. a.ctx = Free(u, Choice(u, NormalAddrRegs))
        BY <2>2, <3>1 DEF Alloc, HandOut
      <3> QED BY <3>1, <3>2
    <2> HIDE DEF a
    <2>5. Associated(a.ctx, a.reg, t.lhs, 0, b)
      BY <1>2, <2>2, AssociateMachine
    <2>6. b \in Contexts /\ b.inregister = a.ctx.inregister \cup {t.lhs} /\ b.inmemory = a.ctx.inmemory
      BY <2>5 DEF Associated
    <2> HIDE DEF b
    <2>7. Emits(b, g.ctx)
      <3>1. Pair(a.reg, NIL)[0] \in RegIds /\ Pair(a.reg, NIL)[1] \in RegIds
        BY <2>2, RegIdsFact
      <3>2. Readable(h.op)
        BY <1>2, LocationFact
      <3> QED BY <1>2, <2>1, <2>6, <3>1, <3>2, LoadFact
    <2>8. /\ g.ctx.inregister = a.ctx.inregister \cup {t.lhs}
          /\ g.ctx.inmemory = a.ctx.inmemory /\ u.inmemory \subseteq g.ctx.inmemory
      BY <2>2, <2>6, <2>7 DEF Emits, Moves, Places
    <2>9. CASE t.rhs \notin u.inregister
      BY <1>1, <1>5, <2>8, <2>9 DEF Present
    <2>10. CASE t.rhs \in u.inregister /\ u.last[t.rhs] > seqid
      <3>1. t.rhs \in a.ctx.inregister \cup a.ctx.inmemory
        BY <2>2, <2>10 DEF Moves, Places
      <3> QED BY <1>1, <2>8, <3>1 DEF Present
    <2>11. CASE t.rhs \in u.inregister /\ ~(u.last[t.rhs] > seqid)
      <3>1. u.last[t.rhs] = seqid
        <4>1. u.last[t.rhs] >= seqid /\ u.last[t.rhs] \in Int /\ seqid \in Int
          BY <1>1, <1>2 DEF Begins, Contexts, Begun
        <4> QED BY <2>11, <4>1
      <3>2. Unconverted
        BY DEF Begins, Simple, Unconverted
      <3>3. AloneFrom(u, seqid)
        BY <1>2, <3>2 DEF Steady
      <3>4. \A e \in u.inregister : u.last[e] = seqid => e \in {t.rhs, t.result}
        <4>1. Uses(t) \subseteq {t.lhs, t.rhs, t.result}
          BY <1>1 DEF Uses
        <4> QED BY <1>2, <2>3, <4>1 DEF Begins, Contexts
      <3>5. Choice(u, NormalAddrRegs) # u.regs[t.rhs][0]
        BY <1>2, <2>11, <3>1, <3>3, <3>4, ChoiceSpares
      <3>6. t.rhs \in a.ctx.inregister
        BY <1>2, <2>2, <2>4, <2>11, <3>5, FreeStays
      <3> QED BY <1>1, <2>8, <3>6 DEF Present
    <2> QED BY <2>9, <2>10, <2>11
  <1> QED BY <1>6, <1>7

\* A store, once its source has its operand.
LEMMA StoreBegins ==
  ASSUME Tame, NEW s, NEW t, Begins(s, t), t.op = "MOV", NEW g, g = GetStore(s, t)
  PROVE  /\ Plain /\ Begun /\ Good(g.ctx) /\ g.ctx \in Contexts /\ Steady(g.ctx, seqid)
         /\ t.lhs \in Dags /\ t.rhs \in Dags
         /\ g.src = GetLocation(g.ctx, t.rhs) /\ g.ctx.last = s.last
         /\ OperandOf([ctx |-> g.ctx, op |-> g.src], t.rhs)
         /\ t.rhs \notin Dividends
  <1> DEFINE b == GetBase(s, t)
             r == Get(b.ctx, t.rhs)
  <1>1. t.op \in TwoOperands /\ Loaded(t) = {t.lhs, t.rhs}
    BY DEF TwoOperands, Loaded
  <1>2. /\ Plain /\ Begun /\ Good(b.ctx) /\ Steady(b.ctx, seqid)
        /\ t.lhs \in Dags /\ b.ctx.last = s.last
    BY <1>1, BaseBegins
  <1>3. t.rhs \in Dags
    BY <1>1 DEF Begins, Ready
  <1>4. g = [ctx |-> r.ctx, dst |-> b.op, src |-> r.op]
    BY DEF GetStore, AddSource, WithSource
  <1> HIDE DEF b
  <1>5. r.op = GetLocation(b.ctx, t.rhs) /\ Fetched(b.ctx, r.ctx)
    BY <1>2, <1>3, StoreFinds, FetchFact DEF b
  <1> HIDE DEF r
  <1>6. /\ Good(r.ctx) /\ r.ctx \in Contexts /\ Steady(r.ctx, seqid) /\ r.ctx.last = s.last
        /\ r.op = GetLocation(r.ctx, t.rhs)
    BY <1>2, <1>5, FetchedFact
  <1>7. StoreGot(s, g, t)
    BY GetStoreFact DEF Begins
  <1>8. t.rhs \notin Dividends
    BY <1>1, DividendsFact DEF Begins
  <1>9. g.ctx = r.ctx /\ g.src = r.op
    BY <1>4
  <1> QED BY <1>2, <1>3, <1>6, <1>7, <1>8, <1>9 DEF StoreGot

LEMMA AssignSteady ==
  ASSUME Tame, NEW s, NEW t, Begins(s, t), t.op = "MOV"
  PROVE  Steady(Assign(GetStore(s, t), t), seqid)
  <1> DEFINE g == GetStore(s, t)
             m == [ctx |-> g.ctx, op |-> g.src]
             h == IF g.src.format = "Imm" THEN m ELSE ToReg(m, t.rhs)
             l == Read(h.ctx, g.dst, t.lhs)
             a == Read(l, h.op, t.rhs)
  <1>1. /\ Plain /\ Begun /\ Good(g.ctx) /\ g.ctx \in Contexts /\ Steady(g.ctx, seqid)
        /\ t.lhs \in Dags /\ t.rhs \in Dags
        /\ g.src = GetLocation(g.ctx, t.rhs) /\ g.ctx.last = s.last
        /\ OperandOf(m, t.rhs) /\ t.rhs \notin Dividends
    BY StoreBegins
  <1>2. Assign(g, t) = a
    BY DEF Assign, StoreFrom, Got
  <1> HIDE DEF g
  <1>3. m.ctx = g.ctx /\ m.op = g.src
    OBVIOUS
  <1> HIDE DEF m
  <1>4. g.ctx.last[t.rhs] >= seqid
    BY <1>1 DEF Begins, TwoOperands
  <1>5. Steady(h.ctx, seqid) /\ Good(h.ctx) /\ h.ctx \in Contexts
    <2>1. CASE g.src.format = "Imm"
      BY <1>1, <1>3, <2>1
    <2>2. CASE g.src.format # "Imm"
      <3>1. h = ToReg(m, t.rhs)
        BY <2>2
      <3>2. Steady(h.ctx, seqid)
        BY <1>1, <1>3, <1>4, <3>1, ToRegSteady
      <3>3. Moves(m.ctx, h.ctx, {t.rhs})
        BY <1>1, <3>1, LoadableFact, ToRegFact
      <3> QED BY <3>2, <3>3 DEF Moves, Good, Sound
    <2> QED BY <2>1, <2>2
  <1> HIDE DEF h
  <1>6. Touches(h.ctx, l, {}) /\ l \in Contexts
    BY <1>1, <1>5, ReadTouches DEF Touches, Emits
  <1> HIDE DEF l
  <1>7. Touches(l, a, {})
    BY <1>1, <1>6, ReadTouches
  <1> HIDE DEF a
  <1>8. Touches(h.ctx, a, {})
    BY <1>6, <1>7, TouchesTwice
  <1>9. Steady(a, seqid)
    BY <1>1, <1>5, <1>8, TouchesSteady
  <1> QED BY <1>2, <1>9 DEF g

\* The registers that a block is copied with are freed.
LEMMA StringFrees ==
  ASSUME Plain, NEW s, Good(s), NEW name \in Assertions, NEW holds,
         Simple => holds, Steady(s, seqid)
  PROVE  LET f == FreeAll(Assertion(s, holds, name), StringRegs) IN
         Good(f) /\ Steady(f, seqid) /\ Frees(s, f, {EDI, ESI, ECX})
  <1> DEFINE a == Assertion(s, holds, name)
             f == FreeAll(a, StringRegs)
  <1>1. s \in Contexts
    BY DEF Good, Sound
  <1>2. Emits(s, a) /\ a.cell = s.cell /\ a.reg = s.reg /\ Passes(s, a)
    BY <1>1, AssertionFact, AssertionTouches DEF Touches
  <1> HIDE DEF a
  <1>3. Good(a)
    BY <1>2, EmitsMoves DEF Moves
  <1>4. Good(f) /\ Frees(a, f, {StringRegs[i] : i \in 1 .. Len(StringRegs)})
    BY <1>3, StringRegsFact, FreeAllFact, FreeAllFrees DEF Moves
  <1> HIDE DEF f
  <1>5. {StringRegs[i] : i \in 1 .. Len(StringRegs)} = {EDI, ESI, ECX}
    <2>1. Len(StringRegs) = 3 /\ StringRegs[1] = EDI /\ StringRegs[2] = ESI /\ StringRegs[3] = ECX
      BY DEF StringRegs
    <2>2. 1 .. 3 = {1, 2, 3}
      OBVIOUS
    <2> QED BY <2>1, <2>2
  <1>6. Frees(a, f, {EDI, ESI, ECX})
    BY <1>4, <1>5
  <1>7. Frees(s, f, {EDI, ESI, ECX})
    BY <1>2, <1>6 DEF Frees, Emits, Passes
  <1>8. Steady(f, seqid)
    BY <1>1, <1>4, <1>7, FreesSteady DEF Good, Sound
  <1> QED BY <1>4, <1>7, <1>8 DEF f, a

LEMMA CopyBlockSteady ==
  ASSUME Tame, NEW s, NEW t, Begins(s, t), t.op = "MOV", Ty[t.rhs] = "blk"
  PROVE  Steady(CopyBlock(GetStore(s, t), t), seqid)
  <1> DEFINE g == GetStore(s, t)
             f == FreeAll(Assertion(g.ctx, g.src.format = "InSIB", "FormatInSIB"), StringRegs)
             l == Read(f, g.dst, t.lhs)
             b == Clobber(l, {EDI})
             r == Read(b, g.src, t.rhs)
             c == Clobber(r, {EDI, ESI, ECX})
             R == {EDI, ESI, ECX}
  <1>1. /\ Plain /\ Good(g.ctx) /\ g.ctx \in Contexts /\ Steady(g.ctx, seqid)
        /\ t.lhs \in Dags /\ t.rhs \in Dags
    BY StoreBegins
  <1>2. CopyBlock(g, t) = c
    BY DEF CopyBlock
  <1> HIDE DEF g
  <1>3. Good(f) /\ Frees(g.ctx, f, R)
    BY <1>1, StringFrees DEF Assertions, Simple
  <1> HIDE DEF f
  <1>4. Touches(f, l, {}) /\ l \in Contexts
    BY <1>1, <1>3, ReadTouches DEF Touches, Emits, Good, Sound
  <1> HIDE DEF l
  <1>5. Touches(l, b, {EDI}) /\ b \in Contexts
    BY <1>4, ClobberTouches DEF Touches, Emits
  <1> HIDE DEF b
  <1>6. Touches(b, r, {}) /\ r \in Contexts
    BY <1>1, <1>5, ReadTouches DEF Touches, Emits
  <1> HIDE DEF r
  <1>7. Touches(r, c, R)
    BY <1>6, ClobberTouches
  <1> HIDE DEF c
  <1>8. Touches(f, b, R)
    BY <1>4, <1>5, TouchesTwice
  <1>9. Touches(f, r, R)
    BY <1>6, <1>8, TouchesTwice
  <1>10. Touches(f, c, R)
    BY <1>7, <1>9, TouchesTwice
  <1>11. Steady(c, seqid)
    BY <1>1, <1>3, <1>10, ClearedSteady
  <1> QED BY <1>2, <1>11 DEF g

LEMMA PushSteady ==
  ASSUME Tame, NEW s, NEW t, Begins(s, t), t.op = "PUSH"
  PROVE  Steady(Push(GetSource(s, t), t), seqid)
  <1> DEFINE g == GetSource(s, t)
             a == Read(g.ctx, g.op, t.lhs)
  <1>1. t.lhs \notin Dividends
    <2>1. Loaded(t) = {t.lhs}
      BY DEF Loaded
    <2> QED BY <2>1, DividendsFact DEF Begins
  <1>2. /\ Plain /\ Good(g.ctx) /\ g.ctx \in Contexts /\ Steady(g.ctx, seqid) /\ t.lhs \in Dags
    BY <1>1, SourceBegins
  <1>3. Push(g, t) = a
    BY DEF Push
  <1> HIDE DEF g
  <1>4. Touches(g.ctx, a, {})
    BY <1>2, ReadTouches
  <1> HIDE DEF a
  <1>5. Steady(a, seqid)
    BY <1>2, <1>4, TouchesSteady
  <1> QED BY <1>3, <1>5 DEF g

LEMMA PushBlockSteady ==
  ASSUME Tame, NEW s, NEW t, Begins(s, t), Ty[t.lhs] = "blk"
  PROVE  Steady(PushBlock(GetOne(s, t), t), seqid)
  <1> DEFINE g == GetOne(s, t)
             f == FreeAll(Assertion(g.ctx, g.op.format = "InSIB", "FormatInSIB"), StringRegs)
             R == {EDI, ESI, ECX}
             a == Clobber(f, R)
  <1>1. Plain /\ Good(g.ctx) /\ g.ctx \in Contexts /\ Steady(g.ctx, seqid) /\ t.lhs \in Dags
    BY OneBegins
  <1>2. PushBlock(g, t) = a
    BY DEF PushBlock
  <1> HIDE DEF g
  <1>3. Good(f) /\ Frees(g.ctx, f, R)
    BY <1>1, StringFrees DEF Assertions, Simple
  <1> HIDE DEF f
  <1>4. Touches(f, a, R)
    BY <1>3, ClobberTouches DEF Good, Sound
  <1> HIDE DEF a
  <1>5. Steady(a, seqid)
    BY <1>1, <1>3, <1>4, ClearedSteady
  <1> QED BY <1>2, <1>5 DEF g

LEMMA ZeroMemorySteady ==
  ASSUME Tame, NEW s, NEW t, Begins(s, t), t.op = "ZERO"
  PROVE  Steady(ZeroMemory(GetBase(s, t), t), seqid)
  <1> DEFINE g == GetBase(s, t)
             rs == <<EDI, EAX, ECX>>
             f == FreeAll(g.ctx, rs)
             R == {EDI, EAX, ECX}
             l == Read(f, g.op, t.lhs)
             a == Clobber(l, R)
  <1>1. /\ Plain /\ Good(g.ctx) /\ g.ctx \in Contexts /\ Steady(g.ctx, seqid) /\ t.lhs \in Dags
    <2>1. Loaded(t) = {t.lhs}
      BY DEF Loaded
    <2> QED BY <2>1, BaseBegins
  <1>2. ZeroMemory(g, t) = a
    BY DEF ZeroMemory
  <1> HIDE DEF g
  <1>3. Good(f) /\ Frees(g.ctx, f, {rs[i] : i \in 1 .. Len(rs)})
    BY <1>1, StringRegsFact, FreeAllFact, FreeAllFrees DEF Moves
  <1> HIDE DEF f
  <1>4. {rs[i] : i \in 1 .. Len(rs)} = R
    <2>1. Len(rs) = 3 /\ rs[1] = EDI /\ rs[2] = EAX /\ rs[3] = ECX
      OBVIOUS
    <2>2. 1 .. 3 = {1, 2, 3}
      OBVIOUS
    <2> QED BY <2>1, <2>2
  <1>5. Frees(g.ctx, f, R)
    BY <1>3, <1>4
  <1>6. Touches(f, l, {}) /\ l \in Contexts
    BY <1>1, <1>3, ReadTouches DEF Touches, Emits, Good, Sound
  <1> HIDE DEF l
  <1>7. Touches(l, a, R)
    BY <1>6, ClobberTouches
  <1> HIDE DEF a
  <1>8. Touches(f, a, R)
    BY <1>6, <1>7, TouchesTwice
  <1>9. Steady(a, seqid)
    BY <1>1, <1>3, <1>5, <1>8, ClearedSteady
  <1> QED BY <1>2, <1>9 DEF g

\* A call frees the registers that it may change, and its result is in EAX.
LEMMA CallSteady ==
  ASSUME Tame, NEW s, NEW t, Begins(s, t), t.op = "CALL"
  PROVE  Steady(Call(GetOne(s, t), t), seqid)
  <1> DEFINE g == GetOne(s, t)
             rs == <<EAX, ECX, EDX, ST0>>
             R == {EAX, ECX, EDX, ST0}
             f == FreeAll(g.ctx, rs)
             l == Read(f, g.op, t.lhs)
             a == Clobber(l, CallRegs \cup {ST0})
             regs == Pair(EAX, NIL)
             b == Associate(a, EAX, t.result, 0)
             c == Produce(b, regs, t.result)
  <1>1. /\ Plain /\ Good(g.ctx) /\ g.ctx \in Contexts /\ Steady(g.ctx, seqid) /\ t.lhs \in Dags
        /\ g.ctx.inregister = s.inregister
    BY OneBegins
  <1>2. /\ t.op \in Computing /\ t.result \in Dags /\ t.result \in Values
        /\ t.result \notin s.inregister
    BY <1>1, NodesFact DEF Begins, Ready, Computing
  <1>3. Ty[t.result] # "q" /\ Ty[t.result] # "f"
    BY <1>1, <1>2, PlainFact DEF Tame
  <1>4. R \subseteq Registers /\ EAX \in R /\ EAX \in Registers /\ CallRegs \cup {ST0} = R
    BY TopRegs DEF CallRegs
  <1>5. regs[0] = EAX /\ regs[1] = NIL
    BY <1>4, RegIdsFact
  <1>6. AssociatePair(a, regs, t.result) = b
    BY <1>5 DEF AssociatePair, Associate
  <1>7. Call(g, t) = c
    BY <1>3, <1>6 DEF Call
  <1> HIDE DEF g, regs
  <1>8. Good(f) /\ Frees(g.ctx, f, {rs[i] : i \in 1 .. Len(rs)})
    BY <1>1, StringRegsFact, FreeAllFact, FreeAllFrees DEF Moves
  <1> HIDE DEF f
  <1>9. {rs[i] : i \in 1 .. Len(rs)} = R
    <2>1. Len(rs) = 4 /\ rs[1] = EAX /\ rs[2] = ECX /\ rs[3] = EDX /\ rs[4] = ST0
      OBVIOUS
    <2>2. 1 .. 4 = {1, 2, 3, 4}
      OBVIOUS
    <2> QED BY <2>1, <2>2
  <1>10. Frees(g.ctx, f, R)
    BY <1>8, <1>9
  <1>11. Touches(f, l, {}) /\ l \in Contexts
    BY <1>1, <1>8, ReadTouches DEF Touches, Emits, Good, Sound
  <1> HIDE DEF l
  <1>12. Touches(l, a, R) /\ a \in Contexts
    BY <1>4, <1>11, ClobberTouches DEF Touches, Emits
  <1>a. b = Associate(a, EAX, t.result, 0)
    OBVIOUS
  <1> HIDE DEF a
  <1>13. Touches(f, a, R)
    BY <1>11, <1>12, TouchesTwice
  <1>14. Associated(a, EAX, t.result, 0, b)
    BY <1>2, <1>4, <1>12, AssociateMachine
  <1> HIDE DEF b
  <1>15. b \in Contexts
    BY <1>14 DEF Associated
  <1>16. Touches(b, c, {EAX}) /\ <<t.result, 0>> \in c.reg[EAX]
    BY <1>2, <1>4, <1>5, <1>15, ProduceTouches
  <1> HIDE DEF c
  <1>17. Touches(b, c, R)
    <2>1. {} \subseteq R /\ {EAX} \subseteq R /\ Touches(b, b, {})
      BY <1>15, TouchesNothing
    <2> QED BY <1>16, <2>1, TouchesTwice
  <1>18. t.result \notin Dividends
    BY <1>2, DividendsFact DEF Begins
  <1>19. Steady(c, seqid)
    BY <1>1, <1>2, <1>4, <1>8, <1>10, <1>a, <1>13, <1>16, <1>17, <1>18, FreedSettled
  <1> QED BY <1>7, <1>19 DEF g

-----------------------------------------------------------------------------
(* X86_DIV and MOD, which replace a dividend in EAX.                       *)

LEMMA SameSteady ==
  ASSUME NEW s, NEW a, NEW n, Steady(s, n),
         a.last = s.last, a.inregister = s.inregister, a.inmemory = s.inmemory,
         a.regs = s.regs, a.reg = s.reg, a.cell = s.cell, a.failed = s.failed
  PROVE  Steady(a, n)
  BY DEF Steady, KeptBy, AloneFrom, Away

LEMMA LaterSteady ==
  ASSUME NEW s \in Contexts, NEW n \in Int, Steady(s, n)
  PROVE  Steady(s, n + 1)
  <1>1. \A d \in Dags : s.last[d] \in Int /\ (s.last[d] >= n + 1 => s.last[d] >= n)
    <2>1. \A d \in Dags : s.last[d] \in 0 .. MaxSeq
      BY DEF Contexts
    <2> QED BY <2>1
  <1>2. s.inregister \subseteq Dags
    BY DEF Contexts
  <1> QED BY <1>1, <1>2 DEF Steady, AloneFrom

LEMMA MarkSteady ==
  ASSUME NEW s \in Contexts, NEW n, NEW rs, Steady(s, n), NEW a,
         a = MarkUsed(s, rs) \/ a = UnmarkUsed(s, rs)
  PROVE  /\ Steady(a, n) /\ a.last = s.last /\ a.inregister = s.inregister
         /\ a.regs = s.regs /\ a.inmemory = s.inmemory
  <1>1. ASSUME NEW used, a = [s EXCEPT !.using = used]
        PROVE  /\ a.last = s.last /\ a.inregister = s.inregister /\ a.inmemory = s.inmemory
               /\ a.regs = s.regs /\ a.reg = s.reg /\ a.cell = s.cell /\ a.failed = s.failed
    BY <1>1 DEF Contexts
  <1>2. /\ a.last = s.last /\ a.inregister = s.inregister /\ a.inmemory = s.inmemory
        /\ a.regs = s.regs /\ a.reg = s.reg /\ a.cell = s.cell /\ a.failed = s.failed
    BY <1>1 DEF MarkUsed, UnmarkUsed
  <1> QED BY <1>2, SameSteady

\* A division when nobody who is wanted is in EAX.
LEMMA QuotientSteady ==
  ASSUME Plain, NEW s, Good(s), NEW n, Steady(s, n), NEW t, t.lhs \in Dags, t.rhs \in Dags,
         t.result \in Dags, t.result \notin s.inregister, t.result \notin Dividends,
         \A e \in s.inregister : s.last[e] >= n => s.regs[e][0] # EAX,
         NEW dst, NEW src
  PROVE  Steady(Quotient(s, dst, src, t), n)
  <1> DEFINE home == IF t.op = "DIV" THEN EAX ELSE EDX
             f == Free(s, EDX)
             u == UnmarkUsed(f, {EAX, EDX})
             a == Associate(u, home, t.result, 0)
             b == Read(a, dst, t.lhs)
             c == Clobber(b, {EDX})
             d == Read(c, src, t.rhs)
             e == Clobber(d, {EAX, EDX})
             h == Produce(e, Pair(home, NIL), t.result)
             R == {EAX, EDX}
  <1>1. Quotient(s, dst, src, t) = h
    BY DEF Quotient
  <1>2. home \in R /\ R \subseteq Registers /\ home \in Registers /\ home \in RegIds
    BY TopRegs, RegIdsFact
  <1> HIDE DEF home
  <1>3. Frees(s, f, {EDX}) /\ Good(f) /\ f \in Contexts /\ Steady(f, n)
    <2>1. Frees(s, f, {EDX}) /\ f \in Contexts /\ Good(f)
      BY TopRegs, FreeFrees DEF Moves
    <2> HIDE DEF f
    <2>2. s \in Contexts
      BY DEF Good, Sound
    <2> QED BY <2>1, <2>2, FreesSteady
  <1>4. ASSUME NEW w \in f.inregister, f.last[w] >= n PROVE f.regs[w][0] \notin R
    BY <1>3, <1>4 DEF Frees
  <1>5. t.result \notin f.inregister
    BY <1>3 DEF Frees
  <1> HIDE DEF f
  <1>6. /\ Steady(u, n) /\ u.last = f.last /\ u.inregister = f.inregister /\ u.regs = f.regs
    BY <1>3, MarkSteady
  <1>7. Good(u) /\ u \in Contexts
    <2>1. Good(u)
      BY <1>3, MarkFact
    <2> HIDE DEF u
    <2> QED BY <2>1 DEF Good, Sound
  <1> HIDE DEF u
  <1>8. a \in Contexts
    BY <1>2, <1>7, AssociateMachine DEF Associated
  <1> HIDE DEF a
  <1>9. Touches(a, b, {}) /\ b \in Contexts
    <2>1. Touches(a, b, {})
      BY <1>8, ReadTouches
    <2> HIDE DEF b
    <2> QED BY <2>1 DEF Touches, Emits
  <1> HIDE DEF b
  <1>10. Touches(b, c, {EDX}) /\ c \in Contexts
    <2>1. Touches(b, c, {EDX})
      BY <1>9, ClobberTouches
    <2> HIDE DEF c
    <2> QED BY <2>1 DEF Touches, Emits
  <1> HIDE DEF c
  <1>11. Touches(c, d, {}) /\ d \in Contexts
    <2>1. Touches(c, d, {})
      BY <1>10, ReadTouches
    <2> HIDE DEF d
    <2> QED BY <2>1 DEF Touches, Emits
  <1> HIDE DEF d
  <1>12. Touches(d, e, R) /\ e \in Contexts
    <2>1. Touches(d, e, R)
      BY <1>11, ClobberTouches
    <2> HIDE DEF e
    <2> QED BY <2>1 DEF Touches, Emits
  <1> HIDE DEF e
  <1>13. Pair(home, NIL)[0] = home /\ Pair(home, NIL)[1] = NIL
    BY <1>2, RegIdsFact
  <1>14. Touches(e, h, {home}) /\ <<t.result, 0>> \in h.reg[home]
    BY <1>2, <1>12, <1>13, ProduceTouches
  <1> HIDE DEF h
  <1>15. Touches(a, h, R)
    <2>1. Touches(a, c, R)
      BY <1>9, <1>10, TouchesTwice
    <2>2. Touches(c, e, R)
      BY <1>11, <1>12, TouchesTwice
    <2>3. Touches(a, e, R)
      BY <2>1, <2>2, TouchesTwice
    <2> QED BY <1>2, <1>14, <2>3, TouchesTwice
  <1>16. Touches(u, u, R)
    BY <1>7, TouchesNothing
  <1>17. \A w \in u.inregister : u.last[w] >= n => u.regs[w][0] \notin R
    BY <1>4, <1>6
  <1> HIDE DEF R
  <1>18. Steady(h, n)
    BY <1>2, <1>5, <1>6, <1>7, <1>14, <1>15, <1>16, <1>17, Settled DEF a
  <1> QED BY <1>1, <1>18

LEMMA DivideByTwo ==
  ASSUME Tame, function \in Functions, NEW r, Good(r.ctx), Begun, Steady(r.ctx, seqid),
         NEW t \in Triples[function], t.op \in Divisions, t.lhs \in Dags, t.rhs \in Dags,
         t.result \in Dags, t.result \notin r.ctx.inregister, t.result \notin Dividends,
         r.ctx.last[t.lhs] >= seqid, t.lhs \in t.dies => r.ctx.last[t.lhs] = seqid,
         NEW dst, Readable(dst)
  PROVE  Steady(DivideBy(r, dst, t), seqid + 1)
  <1> DEFINE stays == t.lhs \in r.ctx.inregister /\ r.ctx.regs[t.lhs][0] = EAX
             f == Free(r.ctx, EAX)
             b == Load(f, Pair(EAX, NIL), dst, t.lhs)
             c == Quotient(b, Reg(Pair(EAX, NIL)), r.op, t)
  <1>1. Plain /\ r.ctx \in Contexts /\ seqid \in Int
    BY TameFact DEF Good, Sound, Begun
  <1>2. CASE stays
    <2>1. DivideBy(r, dst, t) = Quotient(r.ctx, dst, r.op, t)
      BY <1>2 DEF DivideBy
    <2>2. AloneFrom(r.ctx, seqid) /\ Away(r.ctx)
      BY DEF Steady, Unconverted, Tame
    <2>3. t.lhs \in t.dies
      <3>1. t.lhs \notin Dividends
        BY <1>2, <2>2 DEF Away
      <3> QED BY <3>1 DEF Dividends
    <2>4. r.ctx.inregister \subseteq Dags /\ \A e \in Dags : r.ctx.last[e] \in Int
      <3>1. \A e \in Dags : r.ctx.last[e] \in 0 .. MaxSeq
        BY <1>1 DEF Contexts
      <3> QED BY <1>1, <3>1 DEF Contexts
    <2>5. ASSUME NEW e \in r.ctx.inregister, r.ctx.last[e] >= seqid + 1
          PROVE  r.ctx.regs[e][0] # EAX
      <3> SUFFICES ASSUME r.ctx.regs[e][0] = EAX PROVE FALSE
        OBVIOUS
      <3>1. r.ctx.last[e] >= seqid /\ r.ctx.last[e] # seqid
        BY <1>1, <2>4, <2>5
      <3>2. e = t.lhs
        BY <1>2, <2>2, <3>1 DEF AloneFrom
      <3> QED BY <2>3, <3>1, <3>2
    <2>6. Steady(r.ctx, seqid + 1)
      BY <1>1, LaterSteady
    <2> QED BY <1>1, <2>1, <2>5, <2>6, QuotientSteady
  <1>3. CASE ~stays
    <2>1. DivideBy(r, dst, t) = c
      BY <1>3 DEF DivideBy
    <2>2. Frees(r.ctx, f, {EAX}) /\ f \in Contexts /\ Good(f)
      BY <1>1, TopRegs, FreeFrees DEF Moves
    <2> HIDE DEF f
    <2>3. Pair(EAX, NIL)[0] = EAX /\ Pair(EAX, NIL)[1] = NIL
      BY TopRegs, RegIdsFact
    <2>4. Touches(f, b, {EAX})
      BY <2>2, <2>3, TopRegs, LoadTouches
    <2> HIDE DEF b
    <2>5. Good(b) /\ b \in Contexts
      BY <2>2, <2>4, EmitsMoves DEF Touches, Emits, Moves
    <2>6. Steady(b, seqid)
      BY <1>1, <2>2, <2>4, ClearedSteady
    <2>7. Steady(b, seqid + 1)
      BY <1>1, <2>5, <2>6, LaterSteady
    <2>8. \A e \in b.inregister : b.regs[e][0] # EAX
      BY <2>2, <2>4 DEF Frees, Touches, Emits
    <2>9. t.result \notin b.inregister
      BY <2>2, <2>4 DEF Frees, Touches, Emits
    <2>10. Steady(c, seqid + 1)
      BY <1>1, <2>5, <2>7, <2>8, <2>9, QuotientSteady
    <2> QED BY <2>1, <2>10
  <1> QED BY <1>2, <1>3

LEMMA DivideWordSteady ==
  ASSUME Tame, NEW s, NEW t, Begins(s, t), t.op \in Divisions
  PROVE  Steady(DivideWord(GetBoth(s, t), t), seqid + 1)
  <1> DEFINE g == GetBoth(s, t)
             marked == MarkUsed(g.ctx, {EAX, EDX})
             m == [ctx |-> marked, op |-> g.src]
             r == ToReg(m, t.rhs)
             a == DivideBy(r, g.dst, t)
  <1>1. t.op \in SameTyped \cap TwoOperands
    BY DEF Divisions, SameTyped, TwoOperands
  <1>2. /\ Plain /\ Begun /\ Good(g.ctx) /\ g.ctx \in Contexts /\ Steady(g.ctx, seqid)
        /\ t.lhs \in Dags /\ t.rhs \in Dags /\ t.result \in Dags
        /\ t.result \notin g.ctx.inregister /\ t.result \notin Dividends
        /\ g.src = GetLocation(g.ctx, t.rhs) /\ Readable(g.dst) /\ g.ctx.last = s.last
    BY <1>1, BinaryBegins
  <1>3. BothGot(s, g, t)
    BY <1>1, GetBothFact DEF Begins
  <1>4. DivideWord(g, t) = a
    BY DEF DivideWord, Got
  <1> HIDE DEF g
  <1>5. OperandOf([ctx |-> g.ctx, op |-> g.src], t.rhs)
    BY <1>3 DEF BothGot
  <1>6. /\ Steady(marked, seqid) /\ marked.last = s.last
        /\ marked.inregister = g.ctx.inregister /\ marked.regs = g.ctx.regs
        /\ marked.inmemory = g.ctx.inmemory
    BY <1>2, MarkSteady
  <1>7. Good(marked) /\ EAX \in marked.using
    BY <1>2, MarkFact
  <1> HIDE DEF marked
  <1>8. /\ m.ctx = marked /\ m.op = g.src /\ OperandOf(m, t.rhs)
        /\ m.op = GetLocation(marked, t.rhs)
    <2>1. m.ctx = marked /\ m.op = g.src
      OBVIOUS
    <2> HIDE DEF m
    <2>2. GetLocation(marked, t.rhs) = GetLocation(g.ctx, t.rhs)
      BY <1>6 DEF GetLocation
    <2> QED BY <1>2, <1>5, <1>6, <1>7, <2>1, <2>2 DEF OperandOf
  <1> HIDE DEF m
  <1>9. s.last[t.rhs] >= seqid /\ s.last[t.lhs] >= seqid
    BY <1>1 DEF Begins
  <1>10. /\ Good(r.ctx) /\ Steady(r.ctx, seqid) /\ r.ctx.last = s.last
         /\ Moves(marked, r.ctx, {t.rhs})
    <2>1. Steady(r.ctx, seqid)
      BY <1>2, <1>6, <1>7, <1>8, <1>9, ToRegSteady
    <2>2. Loadable(m, t.rhs)
      BY <1>8 DEF Loadable, OperandOf
    <2>3. Moves(marked, r.ctx, {t.rhs})
      BY <1>2, <1>8, <2>2, ToRegFact
    <2> QED BY <1>6, <2>1, <2>3 DEF Moves, Places
  <1> HIDE DEF r
  <1>11. t.result \notin r.ctx.inregister
    <2>1. t.op \in Computing
      BY <1>1 DEF Computing
    <2>2. t.result # t.rhs
      BY <1>2, <2>1 DEF Begins, Ready
    <2> QED BY <1>2, <1>6, <1>10, <2>2 DEF Moves, Places
  <1>12. Steady(a, seqid + 1)
    BY <1>2, <1>9, <1>10, <1>11, DivideByTwo DEF Begins
  <1> QED BY <1>4, <1>12 DEF g

-----------------------------------------------------------------------------
(* The translation of a function.                                          *)

\* After the last triple that uses anything nothing is left to keep.
LEMMA MoveReturnSteady ==
  ASSUME Tame, NEW s, NEW t, Begins(s, t), \A d \in Dags : s.last[d] <= seqid
  PROVE  Steady(MoveReturn(GetOne(s, t), t), seqid + 1)
  <1> DEFINE g == GetOne(s, t)
             regs == CASE Ty[t.lhs] = "f" -> Top
                       [] Ty[t.lhs] = "q" -> Pair(EAX, EDX)
                       [] OTHER -> Pair(EAX, NIL)
             a == IF g.op.format = "Reg" /\ g.op.regs = regs THEN Read(g.ctx, g.op, t.lhs)
                  ELSE Load(g.ctx, regs, g.op, t.lhs)
  <1>1. /\ Good(g.ctx) /\ g.ctx \in Contexts /\ Steady(g.ctx, seqid) /\ t.lhs \in Dags
        /\ g.ctx.last = s.last /\ OperandOf(g, t.lhs) /\ Begun
    BY OneBegins
  <1>2. MoveReturn(g, t) = a
    BY DEF MoveReturn
  <1> HIDE DEF g
  <1>3. regs[0] = EAX /\ regs[1] = NIL
    BY <1>1, TypesFact, TopRegs, RegIdsFact
  <1> HIDE DEF regs
  <1>4. Emits(g.ctx, a) /\ Passes(g.ctx, a)
    BY <1>1, <1>3, TopRegs, ReadTouches, LoadTouches DEF OperandOf, Touches
  <1> HIDE DEF a
  <1>5. /\ a \in Contexts /\ a.last = s.last /\ a.inregister = g.ctx.inregister
        /\ a.regs = g.ctx.regs
    BY <1>1, <1>4 DEF Emits
  <1>6. a.inregister \subseteq Dags /\ \A d \in Dags : a.last[d] \in Int
    <2>1. \A d \in Dags : a.last[d] \in 0 .. MaxSeq
      BY <1>5 DEF Contexts
    <2> QED BY <1>5, <2>1 DEF Contexts
  <1>7. \A d \in Dags : ~(a.last[d] >= seqid + 1)
    BY <1>1, <1>5, <1>6 DEF Begun
  <1>8. Unconverted => Away(a)
    BY <1>1, <1>5 DEF Steady, Away
  <1>9. Steady(a, seqid + 1)
    BY <1>1, <1>4, <1>6, <1>7, <1>8 DEF Steady, AloneFrom, Passes
  <1> QED BY <1>2, <1>9 DEF g

\* A triple that may come next finds its operands where their nodes say.
LEMMA BeginsFact ==
  ASSUME IInv, Tame, Steady(gen, seqid), NEW t, NEW s, Translates(t, s)
  PROVE  Begins(s, t)
  <1>1. Ready(s, t) /\ t \in Triples[function] /\ function \in Functions
    BY ReadyFact DEF Translates, IInv
  <1>2. /\ s.inregister = gen.inregister /\ s.inmemory = gen.inmemory
        /\ \A d \in Dags : d # t.result => s.last[d] = gen.last[d]
        /\ t.result \notin Values => s = gen
    BY StartFact
  <1>3. gen \in Contexts /\ Plain
    BY TameFact DEF IInv, Good, Sound
  <1>4. s.regs = gen.regs /\ s.reg = gen.reg /\ s.cell = gen.cell /\ s.failed = gen.failed
    <2>1. CASE t.result \in Values
      <3>1. PICK n \in seqid .. Length[function] : s = [gen EXCEPT !.last[t.result] = n]
        BY <2>1 DEF Translates, Starts
      <3> QED BY <1>3, <3>1 DEF Contexts
    <2> QED BY <1>2, <2>1
  <1>5. t.result \in Values =>
          t.result \notin gen.inregister \cup gen.inmemory /\ t.result \notin emitted
    BY <1>3 DEF IInv, Fresh, Translates, UsesNow
  <1>6. Steady(s, seqid)
    <2>1. ASSUME NEW d \in Dags, s.last[d] >= seqid PROVE KeptBy(s, d)
      <3>1. CASE d = t.result /\ d \in Values
        BY <1>2, <1>5, <3>1 DEF KeptBy
      <3>2. CASE ~(d = t.result /\ d \in Values)
        BY <1>2, <1>4, <2>1, <3>2 DEF Steady, KeptBy
      <3> QED BY <3>1, <3>2
    <2>2. ASSUME Unconverted PROVE AloneFrom(s, seqid) /\ Away(s)
      <3>1. AloneFrom(gen, seqid) /\ Away(gen)
        BY <2>2 DEF Steady
      <3>2. gen.inregister \subseteq Dags
        BY <1>3 DEF Contexts
      <3>3. \A d \in gen.inregister : s.last[d] = gen.last[d]
        BY <1>2, <1>5, <3>2
      <3> QED BY <1>2, <1>4, <3>1, <3>3 DEF AloneFrom, Away
    <2> QED BY <1>4, <2>1, <2>2 DEF Steady
  <1>7. ASSUME NEW d \in {t.lhs, t.rhs} \cap Dags
        PROVE  s.last[d] >= seqid /\ s.last[d] = gen.last[d]
    <2>1. gen.last[d] >= seqid
      BY NodesFact DEF Translates, UsesNow, AtHand
    <2>2. d \in Values => d \in emitted
      BY AtHandFact
    <2>3. s.last[d] = gen.last[d]
      BY <1>2, <1>5, <2>2
    <2> QED BY <2>1, <2>3
  <1>8. t.lhs \in Dags /\ (t.op \in TwoOperands => t.rhs \in Dags)
    BY <1>1 DEF Ready
  <1>9. t.lhs \in t.dies => gen.last[t.lhs] = seqid
    BY DEF Translates, UsesNow
  <1>10. t.op \in TwoOperands => Present(s, t.rhs)
    BY <1>2, <1>8, AtHandFact DEF Present
  <1>11. \A d \in Dags : s.last[d] = seqid => d \in Uses(t)
    <2>1. \A d \in Dags : gen.last[d] = seqid => d \in Uses(t)
      BY DEF Translates, UsesNow
    <2> QED BY <1>2, <2>1 DEF Uses
  <1> QED BY <1>1, <1>6, <1>7, <1>8, <1>9, <1>10, <1>11 DEF Begins

\* The function is steady before a triple, and the context after it is one.
Midway == IInv /\ Tame /\ Steady(gen, seqid) /\ gen' \in Contexts

LEMMA LaterFact ==
  ASSUME Midway, Steady(gen', seqid)
  PROVE  Steady(gen', seqid + 1)
  BY LaterSteady DEF Midway, IInv

LEMMA LogicSteady ==
  ASSUME Midway, Logic
  PROVE  Steady(gen', seqid + 1)
  <1>1. PICK t \in Triples[function] : t.op \in {"OR", "XOR", "AND"} /\ Translate(t, GetBoth, IntegerBinary)
    BY DEF Logic
  <1>2. PICK s \in Starts(t) : gen' = IntegerBinary(GetBoth(s, t), t)
    BY <1>1 DEF Translate
  <1>3. Translates(t, s)
    BY <1>1, <1>2 DEF Translate, Translates
  <1>4. Begins(s, t)
    BY <1>3, BeginsFact DEF Midway
  <1>5. Steady(gen', seqid)
    BY <1>1, <1>2, <1>4, IntegerBinarySteady DEF Midway, SameTyped, TwoOperands
  <1> QED BY <1>5, LaterFact

LEMMA AddSubSteady ==
  ASSUME Midway, AddSub
  PROVE  Steady(gen', seqid + 1)
  <1>1. PICK t \in Triples[function] : t.op \in {"ADD", "SUB"} /\
          \/ Integer(t.lhs) /\ Translate(t, GetBoth, IntegerBinary)
          \/ Ty[t.lhs] = "f" /\ Translate(t, GetBoth, FloatBinary)
    BY DEF AddSub
  <1>2. t.lhs \in Dags /\ Ty[t.lhs] # "f" /\ Ty[t.lhs] # "q"
    BY TripleFact, TypesFact DEF Midway
  <1>3. CASE Integer(t.lhs) /\ Translate(t, GetBoth, IntegerBinary)
    <2>1. PICK s \in Starts(t) : gen' = IntegerBinary(GetBoth(s, t), t)
      BY <1>3 DEF Translate
    <2>2. Translates(t, s)
      BY <1>3, <2>1 DEF Translate, Translates
    <2>3. Begins(s, t)
      BY <2>2, BeginsFact DEF Midway
    <2>4. Steady(gen', seqid)
      BY <1>1, <1>3, <2>1, <2>3, IntegerBinarySteady DEF Midway, SameTyped, TwoOperands
    <2> QED BY <2>4, LaterFact
  <1> QED BY <1>1, <1>2, <1>3

LEMMA MulSteady ==
  ASSUME Midway, Mul
  PROVE  Steady(gen', seqid + 1)
  <1>1. PICK t \in Triples[function] : t.op = "MUL" /\
          \/ Ty[t.lhs] = "w" /\ Translate(t, GetBoth, IntegerBinary)
          \/ Ty[t.lhs] = "q" /\ Translate(t, GetBoth, LongBinary)
          \/ Ty[t.lhs] = "f" /\ Translate(t, GetBoth, FloatBinary)
    BY DEF Mul
  <1>2. t.lhs \in Dags /\ Ty[t.lhs] # "f" /\ Ty[t.lhs] # "q"
    BY TripleFact, TypesFact DEF Midway
  <1>3. CASE Ty[t.lhs] = "w" /\ Translate(t, GetBoth, IntegerBinary)
    <2>1. PICK s \in Starts(t) : gen' = IntegerBinary(GetBoth(s, t), t)
      BY <1>3 DEF Translate
    <2>2. Translates(t, s)
      BY <1>3, <2>1 DEF Translate, Translates
    <2>3. Begins(s, t)
      BY <2>2, BeginsFact DEF Midway
    <2>4. Steady(gen', seqid)
      BY <1>1, <1>3, <2>1, <2>3, IntegerBinarySteady DEF Midway, SameTyped, TwoOperands
    <2> QED BY <2>4, LaterFact
  <1> QED BY <1>1, <1>2, <1>3

LEMMA ShiftSteady ==
  ASSUME Midway, Shift
  PROVE  Steady(gen', seqid + 1)
  <1>1. PICK t \in Triples[function] : t.op \in {"LSH", "RSH"} /\
          \/ Ty[t.lhs] = "w" /\ Translate(t, GetBoth, ShiftWord)
          \/ Ty[t.lhs] = "q" /\ Translate(t, GetBoth, ShiftLong)
    BY DEF Shift
  <1>2. t.lhs \in Dags /\ Ty[t.lhs] # "f" /\ Ty[t.lhs] # "q"
    BY TripleFact, TypesFact DEF Midway
  <1>3. CASE Ty[t.lhs] = "w" /\ Translate(t, GetBoth, ShiftWord)
    <2>1. PICK s \in Starts(t) : gen' = ShiftWord(GetBoth(s, t), t)
      BY <1>3 DEF Translate
    <2>2. Translates(t, s)
      BY <1>3, <2>1 DEF Translate, Translates
    <2>3. Begins(s, t)
      BY <2>2, BeginsFact DEF Midway
    <2>4. Steady(gen', seqid)
      BY <1>1, <1>3, <2>1, <2>3, ShiftWordSteady DEF Midway
    <2> QED BY <2>4, LaterFact
  <1> QED BY <1>1, <1>2, <1>3

LEMMA DivModSteady ==
  ASSUME Midway, DivMod
  PROVE  Steady(gen', seqid + 1)
  <1>1. PICK t \in Triples[function] : t.op \in {"DIV", "MOD"} /\
          \/ Ty[t.lhs] = "w" /\ Translate(t, GetBoth, DivideWord)
          \/ Ty[t.lhs] = "q" /\ Translate(t, GetBoth, LongBinary)
          \/ Ty[t.lhs] = "f" /\ Translate(t, GetBoth, FloatBinary)
    BY DEF DivMod
  <1>2. t.lhs \in Dags /\ Ty[t.lhs] # "f" /\ Ty[t.lhs] # "q"
    BY TripleFact, TypesFact DEF Midway
  <1>3. CASE Ty[t.lhs] = "w" /\ Translate(t, GetBoth, DivideWord)
    <2>1. PICK s \in Starts(t) : gen' = DivideWord(GetBoth(s, t), t)
      BY <1>3 DEF Translate
    <2>2. Translates(t, s)
      BY <1>3, <2>1 DEF Translate, Translates
    <2>3. Begins(s, t)
      BY <2>2, BeginsFact DEF Midway
    <2> QED BY <1>1, <1>3, <2>1, <2>3, DivideWordSteady DEF Midway, Divisions
  <1> QED BY <1>1, <1>2, <1>3

LEMMA NegNotSteady ==
  ASSUME Midway, NegNot
  PROVE  Steady(gen', seqid + 1)
  <1>1. PICK t \in Triples[function] : t.op \in {"NEG", "NOT"} /\
          \/ Integer(t.lhs) /\ Translate(t, GetOne, IntegerUnary)
          \/ Ty[t.lhs] = "f" /\ Translate(t, GetOne, FloatNegate)
    BY DEF NegNot
  <1>2. t.lhs \in Dags /\ Ty[t.lhs] # "f" /\ Ty[t.lhs] # "q"
    BY TripleFact, TypesFact DEF Midway
  <1>3. CASE Integer(t.lhs) /\ Translate(t, GetOne, IntegerUnary)
    <2>1. PICK s \in Starts(t) : gen' = IntegerUnary(GetOne(s, t), t)
      BY <1>3 DEF Translate
    <2>2. Translates(t, s)
      BY <1>3, <2>1 DEF Translate, Translates
    <2>3. Begins(s, t)
      BY <2>2, BeginsFact DEF Midway
    <2>4. Steady(gen', seqid)
      BY <1>1, <1>3, <2>1, <2>3, IntegerUnarySteady DEF Midway
    <2> QED BY <2>4, LaterFact
  <1> QED BY <1>1, <1>2, <1>3

LEMMA JumpSteady ==
  ASSUME Midway, Jump
  PROVE  Steady(gen', seqid + 1)
  <1>1. PICK t \in Triples[function] : t.op = "J" /\
          \/ Integer(t.lhs) /\ Translate(t, GetBoth, IntegerJump)
          \/ Ty[t.lhs] = "f" /\ Translate(t, GetBoth, FloatJump)
    BY DEF Jump
  <1>2. t.lhs \in Dags /\ Ty[t.lhs] # "f" /\ Ty[t.lhs] # "q"
    BY TripleFact, TypesFact DEF Midway
  <1>3. CASE Integer(t.lhs) /\ Translate(t, GetBoth, IntegerJump)
    <2>1. PICK s \in Starts(t) : gen' = IntegerJump(GetBoth(s, t), t)
      BY <1>3 DEF Translate
    <2>2. Translates(t, s)
      BY <1>3, <2>1 DEF Translate, Translates
    <2>3. Begins(s, t)
      BY <2>2, BeginsFact DEF Midway
    <2>4. Steady(gen', seqid)
      BY <1>1, <1>3, <2>1, <2>3, IntegerJumpSteady DEF Midway
    <2> QED BY <2>4, LaterFact
  <1> QED BY <1>1, <1>2, <1>3

LEMMA MovSteady ==
  ASSUME Midway, Mov
  PROVE  Steady(gen', seqid + 1)
  <1>1. PICK t \in Triples[function] : t.op = "MOV" /\
          \/ Ty[t.rhs] # "blk" /\ Translate(t, GetStore, Assign)
          \/ Ty[t.rhs] = "blk" /\ Translate(t, GetStore, CopyBlock)
    BY DEF Mov
  <1>2. CASE Ty[t.rhs] # "blk" /\ Translate(t, GetStore, Assign)
    <2>1. PICK s \in Starts(t) : gen' = Assign(GetStore(s, t), t)
      BY <1>2 DEF Translate
    <2>2. Translates(t, s)
      BY <1>2, <2>1 DEF Translate, Translates
    <2>3. Begins(s, t)
      BY <2>2, BeginsFact DEF Midway
    <2>4. Steady(gen', seqid)
      BY <1>1, <1>2, <2>1, <2>3, AssignSteady DEF Midway
    <2> QED BY <2>4, LaterFact
  <1>3. CASE Ty[t.rhs] = "blk" /\ Translate(t, GetStore, CopyBlock)
    <2>1. PICK s \in Starts(t) : gen' = CopyBlock(GetStore(s, t), t)
      BY <1>3 DEF Translate
    <2>2. Translates(t, s)
      BY <1>3, <2>1 DEF Translate, Translates
    <2>3. Begins(s, t)
      BY <2>2, BeginsFact DEF Midway
    <2>4. Steady(gen', seqid)
      BY <1>1, <1>3, <2>1, <2>3, CopyBlockSteady DEF Midway
    <2> QED BY <2>4, LaterFact
  <1> QED BY <1>1, <1>2, <1>3

LEMMA PushArgSteady ==
  ASSUME Midway, PushArg
  PROVE  Steady(gen', seqid + 1)
  <1>1. PICK t \in Triples[function] : t.op = "PUSH" /\
          \/ Ty[t.lhs] # "blk" /\ Translate(t, GetSource, Push)
          \/ Ty[t.lhs] = "blk" /\ Translate(t, GetOne, PushBlock)
    BY DEF PushArg
  <1>2. CASE Ty[t.lhs] # "blk" /\ Translate(t, GetSource, Push)
    <2>1. PICK s \in Starts(t) : gen' = Push(GetSource(s, t), t)
      BY <1>2 DEF Translate
    <2>2. Translates(t, s)
      BY <1>2, <2>1 DEF Translate, Translates
    <2>3. Begins(s, t)
      BY <2>2, BeginsFact DEF Midway
    <2>4. Steady(gen', seqid)
      BY <1>1, <1>2, <2>1, <2>3, PushSteady DEF Midway
    <2> QED BY <2>4, LaterFact
  <1>3. CASE Ty[t.lhs] = "blk" /\ Translate(t, GetOne, PushBlock)
    <2>1. PICK s \in Starts(t) : gen' = PushBlock(GetOne(s, t), t)
      BY <1>3 DEF Translate
    <2>2. Translates(t, s)
      BY <1>3, <2>1 DEF Translate, Translates
    <2>3. Begins(s, t)
      BY <2>2, BeginsFact DEF Midway
    <2>4. Steady(gen', seqid)
      BY <1>1, <1>3, <2>1, <2>3, PushBlockSteady DEF Midway
    <2> QED BY <2>4, LaterFact
  <1> QED BY <1>1, <1>2, <1>3

LEMMA CallFunctionSteady ==
  ASSUME Midway, CallFunction
  PROVE  Steady(gen', seqid + 1)
  <1>1. PICK t \in Triples[function] : t.op = "CALL" /\ Translate(t, GetOne, Call)
    BY DEF CallFunction
  <1>2. PICK s \in Starts(t) : gen' = Call(GetOne(s, t), t)
    BY <1>1 DEF Translate
  <1>3. Translates(t, s)
    BY <1>1, <1>2 DEF Translate, Translates
  <1>4. Begins(s, t)
    BY <1>3, BeginsFact DEF Midway
  <1>5. Steady(gen', seqid)
    BY <1>1, <1>2, <1>4, CallSteady DEF Midway
  <1> QED BY <1>5, LaterFact

LEMMA ZeroMemSteady ==
  ASSUME Midway, ZeroMem
  PROVE  Steady(gen', seqid + 1)
  <1>1. PICK t \in Triples[function] : t.op = "ZERO" /\ Translate(t, GetBase, ZeroMemory)
    BY DEF ZeroMem
  <1>2. PICK s \in Starts(t) : gen' = ZeroMemory(GetBase(s, t), t)
    BY <1>1 DEF Translate
  <1>3. Translates(t, s)
    BY <1>1, <1>2 DEF Translate, Translates
  <1>4. Begins(s, t)
    BY <1>3, BeginsFact DEF Midway
  <1>5. Steady(gen', seqid)
    BY <1>1, <1>2, <1>4, ZeroMemorySteady DEF Midway
  <1> QED BY <1>5, LaterFact

LEMMA CvtSteady ==
  ASSUME Midway, Cvt
  PROVE  Steady(gen', seqid + 1)
  <1>1. PICK t \in Triples[function] : t.op = "CVT" /\
          \/ /\ Integer(t.result) /\ Ty[t.result] = Ty[t.lhs]
             /\ Translate(t, GetSource, SameSize)
          \/ /\ Ty[t.result] \in {"b", "w"} /\ Integer(t.lhs) /\ Ty[t.result] # Ty[t.lhs]
             /\ Translate(t, GetSource, ToNarrow)
          \/ /\ Ty[t.result] = "q" /\ Ty[t.lhs] \in {"b", "w"}
             /\ Translate(t, GetSource, ToLong)
          \/ Integer(t.result) /\ Ty[t.lhs] = "f" /\ Translate(t, GetSource, FloatToInteger)
          \/ Ty[t.result] = "f" /\ Integer(t.lhs) /\ Translate(t, GetSource, IntegerToFloat)
          \/ Ty[t.result] = "f" /\ Ty[t.lhs] = "f" /\ Translate(t, GetSource, FloatToFloat)
    BY DEF Cvt
  <1>2. Ty[t.lhs] # "f" /\ Ty[t.result] # "f" /\ Ty[t.result] # "q"
    <2>1. t.lhs \in Dags /\ t.result \in Dags
      BY <1>1, TripleFact, NodesFact DEF Midway, Computing
    <2> QED BY <2>1, TypesFact DEF Midway
  <1>3. CASE Translate(t, GetSource, SameSize)
    <2>1. PICK s \in Starts(t) : gen' = SameSize(GetSource(s, t), t)
      BY <1>3 DEF Translate
    <2>2. Translates(t, s)
      BY <1>3, <2>1 DEF Translate, Translates
    <2>3. Begins(s, t)
      BY <2>2, BeginsFact DEF Midway
    <2>4. Steady(gen', seqid)
      BY <1>1, <2>1, <2>3, SameSizeSteady DEF Midway
    <2> QED BY <2>4, LaterFact
  <1>4. CASE Translate(t, GetSource, ToNarrow)
    <2>1. PICK s \in Starts(t) : gen' = ToNarrow(GetSource(s, t), t)
      BY <1>4 DEF Translate
    <2>2. Translates(t, s)
      BY <1>4, <2>1 DEF Translate, Translates
    <2>3. Begins(s, t)
      BY <2>2, BeginsFact DEF Midway
    <2>4. Steady(gen', seqid)
      BY <1>1, <2>1, <2>3, ToNarrowSteady DEF Midway
    <2> QED BY <2>4, LaterFact
  <1> QED BY <1>1, <1>2, <1>3, <1>4

LEMMA MovRetSteady ==
  ASSUME Midway, MovRet
  PROVE  Steady(gen', seqid + 1)
  <1>1. PICK t \in Triples[function] :
          t.op = "MOVERET" /\ EndsBlock /\ Translate(t, GetOne, MoveReturn)
    BY DEF MovRet
  <1>2. PICK s \in Starts(t) : gen' = MoveReturn(GetOne(s, t), t)
    BY <1>1 DEF Translate
  <1>3. Translates(t, s)
    BY <1>1, <1>2 DEF Translate, Translates
  <1>4. Begins(s, t)
    BY <1>3, BeginsFact DEF Midway
  <1>5. s = gen
    <2>1. t.result \notin Values
      BY <1>1, TripleFact, NodesFact DEF Midway, Computing, SameTyped
    <2> QED BY <1>3, <2>1, StartFact DEF Midway
  <1> QED BY <1>1, <1>2, <1>4, <1>5, MoveReturnSteady DEF Midway, EndsBlock

LEMMA LoadPtrSteady ==
  ASSUME Midway
  PROVE  ~LoadPtr
  BY TameFact DEF Midway, LoadPtr

LEMMA NextSteady ==
  ASSUME Midway, Next
  PROVE  Steady(gen', seqid + 1)
  <1>1. CASE NoOperand
    <2>1. gen' = gen
      BY <1>1 DEF NoOperand
    <2> QED BY <2>1, LaterFact DEF Midway
  <1> QED BY <1>1, LogicSteady, AddSubSteady, MulSteady, ShiftSteady, DivModSteady,
             NegNotSteady, JumpSteady, CvtSteady, MovSteady, PushArgSteady,
             CallFunctionSteady, MovRetSteady, LoadPtrSteady, ZeroMemSteady DEF Next

\* Nothing is in a register, and what is in memory is the variables.
LEMMA InitSteady ==
  ASSUME Init, Plain
  PROVE  Steady(gen, seqid)
  <1> DEFINE cell == [d \in Dags |-> [p \in 0 .. 1 |->
                       IF d \in Vars /\ p \in PartsOf(d) THEN {<<d, p>>} ELSE {}]]
             link == [r \in Registers |-> <<>>]
             lastref == [r \in Registers |-> 0]
             regs == [d \in Dags |-> NoRegs]
             reg == [r \in Registers |-> {}]
  <1>1. /\ gen.inregister = {} /\ gen.inmemory = Vars
        /\ gen.cell = cell /\ gen.regs = regs /\ gen.failed = {}
    <2>1. PICK last \in LastUses(function) :
            gen = [link |-> link, lastref |-> lastref, using |-> {}, last |-> last,
                   inregister |-> {}, regs |-> regs, inmemory |-> Vars, reg |-> reg,
                   cell |-> cell, depth |-> 0, misread |-> {}, failed |-> {}]
      BY DEF Init
    <2> QED BY <2>1
  <1>2. \A d \in Dags : regs[d][0] = NIL
    BY DEF NoRegs
  <1>3. \A d \in Vars : <<d, 0>> \in cell[d][0]
    BY NodesFact, PlainFact
  <1> HIDE DEF cell, regs
  <1>4. Away(gen)
    BY <1>1, <1>2 DEF Away, NIL, EAX
  <1> QED BY <1>1, <1>3, <1>4 DEF Steady, KeptBy, AloneFrom

LEMMA StaysSteady == Spec => [](Tame => Steady(gen, seqid))
  <1> DEFINE KInv == Tame => Steady(gen, seqid)
  <1>1. Init => KInv
    BY InitSteady, TameFact
  <1>2. IInv /\ IInv' /\ KInv /\ [Next]_vars => KInv'
    <2> SUFFICES ASSUME IInv, IInv', KInv, [Next]_vars, Tame' PROVE Steady(gen, seqid)'
      OBVIOUS
    <2>1. Tame /\ Steady(gen, seqid)
      BY DEF Tame, Plain, Loaded
    <2>2. CASE Next
      <3>1. gen' \in Contexts
        BY DEF IInv, Good, Sound
      <3>2. Steady(gen', seqid + 1)
        BY <2>1, <2>2, <3>1, NextSteady DEF Midway
      <3>3. seqid' = seqid + 1 /\ function' = function
        BY <2>2 DEF Next, Logic, AddSub, Mul, Shift, DivMod, NegNot, Jump, Cvt, Mov, PushArg,
                    CallFunction, MovRet, LoadPtr, ZeroMem, NoOperand, Translate
      <3> QED BY <3>2, <3>3 DEF Steady, Unconverted, Dividends, KeptBy, AloneFrom, Away
    <2>3. CASE UNCHANGED vars
      BY <2>1, <2>3 DEF vars, Steady, Unconverted, Dividends, KeptBy, AloneFrom, Away
    <2> QED BY <2>2, <2>3
  <1> QED BY <1>1, <1>2, Invariant, PTL DEF Spec

\* In functions of integers that read nothing through a pointer, a value that is
\* still wanted is where its node says, whatever was spilled, loaded, given to a
\* result or emitted since it was computed (reg_x86.c with the handlers of
\* gencode_x86.c); where they divide, no dividend in EAX is used again.
THEOREM WantedStays == Spec => [](Tame => ValuesKept)
  <1>1. IInv /\ (Tame => Steady(gen, seqid)) => (Tame => ValuesKept)
    <2> SUFFICES ASSUME IInv, Tame, Steady(gen, seqid), NEW d \in Dags, gen.last[d] >= seqid
                 PROVE  /\ d \in gen.inregister =>
                             \A p \in PartsOf(d) : <<d, p>> \in Content(gen, gen.regs[d][p])
                        /\ d \in gen.inmemory =>
                             \A p \in PartsOf(d) : <<d, p>> \in gen.cell[d][p]
      BY DEF ValuesKept
    <2>1. PartsOf(d) = {0} /\ (d \in gen.inregister => gen.regs[d][0] # NIL)
      BY TameFact, PlainFact, HomeFact DEF IInv
    <2>2. KeptBy(gen, d)
      BY DEF Steady
    <2> QED BY <2>1, <2>2 DEF KeptBy, Content
  <1> QED BY <1>1, Invariant, StaysSteady, PTL

\* In those of them that handle no structures, and convert nothing where they
\* store, no assertion of the register file or of a handler stops the compiler:
\* each operand of a store is still somewhere once the other's address is
\* loaded, a register always is to be had, and nothing is spilled that is not in
\* a register, has a copy already or is not wanted later (reg_x86.c,
\* gencode_x86.c).
THEOREM NothingStops == Spec => [](Simple => NoAssertionFails)
  <1>1. (Tame => Steady(gen, seqid)) => (Simple => NoAssertionFails)
    BY DEF Simple, Steady, NoAssertionFails
  <1> QED BY <1>1, StaysSteady, PTL

=============================================================================
