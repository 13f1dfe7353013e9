---------------------------- MODULE LinkageProofs ----------------------------
(***************************************************************************)
(* Proofs about Linkage: no look-up comes to freed memory, and the chain   *)
(* of tables implements the scopes of Scopes, for every program.           *)
(***************************************************************************)
EXTENDS Linkage, SequenceTheorems, WellFoundedInduction, TLAPS

-----------------------------------------------------------------------------
(* The inductive invariant.  Everything is said of the tables by level: a  *)
(* level that has no table in the chain has an empty one.                  *)

Names == UNION {[S -> Nat \ {0}] : S \in SUBSET Ids}
Tables == [level : Nat, names : Names]
NoNames == [i \in {} |-> 0]

Classes == {"External", "Static", "Auto", "Unknown", "Typedef"}
Symbols ==
  [id : Ids \cup {Generated}, type : Types \cup {Fun}, sclass : Classes, scope : Nat,
   area : {"perm", "temp", "freed"}, alias : Nat, used : BOOLEAN, defined : BOOLEAN,
   value : BOOLEAN, hidden : BOOLEAN]

\* The chain c when the current level is l: the file's table, and then deeper
\* ones up to that level.
Chained(c, l) ==
  /\ c \in Seq(Tables)
  /\ Len(c) >= 1
  /\ c[1].level = SCOPE_GLOBAL
  /\ \A m \in 1 .. Len(c) : \A n \in 1 .. Len(c) : m < n => c[m].level < c[n].level
  /\ \A n \in 1 .. Len(c) : c[n].level <= l

HasTable(c, l) == \E n \in 1 .. Len(c) : c[n].level = l
TableOf(c, l) ==
  IF HasTable(c, l) THEN c[CHOOSE n \in 1 .. Len(c) : c[n].level = l].names ELSE NoNames

\* A name in the table of a level was declared in that level, and its symbol
\* is allocated as that level's symbols are.
Listed(c, syms) ==
  \A l \in Nat : \A i \in DOMAIN TableOf(c, l) :
    LET p == TableOf(c, l)[i] IN
    /\ p \in 1 .. Len(syms)
    /\ syms[p].id = i
    /\ syms[p].scope = l
    /\ syms[p].area = (IF l = SCOPE_GLOBAL THEN "perm" ELSE "temp")
    /\ l = SCOPE_PARAM => syms[p].sclass = "Auto"

\* A symbol of the file that other symbols or the externals lead to.
Lasting(syms, n) ==
  /\ n \in 1 .. Len(syms)
  /\ syms[n].scope = SCOPE_GLOBAL
  /\ syms[n].area = "perm"
  /\ syms[n].sclass # "Typedef"

\* A block's extern leads to the symbol of its name, a static object to one
\* that the compiler made.
Aliased(syms) ==
  \A n \in 1 .. Len(syms) :
    /\ syms[n].alias # 0 => Lasting(syms, syms[n].alias)
    /\ syms[n].scope > SCOPE_PARAM /\ syms[n].sclass = "External" =>
         syms[n].alias # 0 /\ syms[syms[n].alias].id = syms[n].id
    /\ syms[n].scope > SCOPE_PARAM /\ syms[n].sclass = "Static" =>
         syms[n].alias # 0 /\ syms[syms[n].alias].id = Generated

Imported(exts, syms) ==
  /\ exts \in Names
  /\ \A i \in DOMAIN exts : Lasting(syms, exts[i]) /\ syms[exts[i]].id = i

Staged ==
  /\ level \in Nat
  /\ function \in {"none", "head", "body", "omitted", "end"}
  /\ function = "none" => level = SCOPE_GLOBAL
  /\ function \in {"head", "end"} => level = SCOPE_PARAM
  /\ function \in {"body", "omitted"} => level >= SCOPE_PARAM

LInv ==
  /\ declared \in Programs
  /\ Staged
  /\ symbols \in Seq(Symbols)
  /\ Chained(chain, level)
  /\ Listed(chain, symbols)
  /\ Aliased(symbols)
  /\ Imported(externals, symbols)
  /\ \A n \in all : n \in 1 .. Len(symbols) /\ symbols[n].area = "perm"

-----------------------------------------------------------------------------
(* Lemmas about names, sequences and the greatest of a set of places.      *)

\* A function from identifiers to symbols, seen from outside.
LEMMA NamesFact ==
  ASSUME NEW f \in Names
  PROVE  DOMAIN f \subseteq Ids /\ f \in [DOMAIN f -> Nat \ {0}]
  BY DEF Names

\* One more name, which hides what it was before.
LEMMA PutFact ==
  ASSUME NEW f \in Names, NEW i \in Ids, NEW p \in Nat \ {0}
  PROVE  /\ Put(f, i, p) \in Names
         /\ DOMAIN Put(f, i, p) = DOMAIN f \cup {i}
         /\ Put(f, i, p)[i] = p
         /\ \A j \in DOMAIN f \ {i} : Put(f, i, p)[j] = f[j]
  <1>1. DOMAIN f \subseteq Ids /\ f \in [DOMAIN f -> Nat \ {0}]
    BY NamesFact
  <1>2. DOMAIN f \cup {i} \in SUBSET Ids /\ Put(f, i, p) \in [DOMAIN f \cup {i} -> Nat \ {0}]
    BY <1>1 DEF Put
  <1> QED BY <1>2 DEF Names, Put

\* The table of a level that declares nothing yet.
LEMMA NoNamesFact ==
  /\ NoNames \in Names /\ DOMAIN NoNames = {}
  /\ \A i \in Ids, p \in Nat \ {0} :
       [j \in {i} |-> p] \in Names /\ [j \in {i} |-> p] = Put(NoNames, i, p)
  <1>1. NoNames \in [{} -> Nat \ {0}]
    BY DEF NoNames
  <1>2. NoNames \in Names /\ DOMAIN NoNames = {}
    BY <1>1 DEF Names, NoNames
  <1>3. ASSUME NEW i \in Ids, NEW p \in Nat \ {0}
        PROVE  [j \in {i} |-> p] \in Names /\ [j \in {i} |-> p] = Put(NoNames, i, p)
    <2>1. [j \in {i} |-> p] = Put(NoNames, i, p)
      BY <1>2 DEF Put
    <2>2. Put(NoNames, i, p) \in Names
      BY <1>2, PutFact
    <2> QED BY <2>1, <2>2
  <1> QED BY <1>2, <1>3

\* All but the last element.
LEMMA FrontFact ==
  ASSUME NEW S, NEW s \in Seq(S), s # <<>>
  PROVE  /\ Front(s) \in Seq(S)
         /\ Len(s) \in Nat \ {0} /\ Len(Front(s)) = Len(s) - 1
         /\ \A n \in 1 .. Len(s) - 1 : Front(s)[n] = s[n]
  <1>1. Len(s) \in Nat /\ Len(s) >= 1
    BY EmptySeq
  <1> DEFINE k == Len(s) - 1
  <1>2. k \in Int /\ 1 \in Int /\ \A n \in 1 .. k : s[n] \in S
    BY <1>1, ElementOfSeq
  <1>3. /\ SubSeq(s, 1, k) \in Seq(S)
        /\ Len(SubSeq(s, 1, k)) = IF 1 <= k THEN k - 1 + 1 ELSE 0
        /\ \A n \in 1 .. k - 1 + 1 : SubSeq(s, 1, k)[n] = s[1 + n - 1]
    <2> HIDE DEF k
    <2> QED BY <1>2, SubSeqProperties
  <1>4. k \in Nat
    BY <1>1
  <1>5. \A n \in 1 .. k : n \in 1 .. k - 1 + 1 /\ 1 + n - 1 = n
    <2> HIDE DEF k
    <2> QED BY <1>2, SMT
  <1>6. \A n \in 1 .. k : SubSeq(s, 1, k)[n] = s[n]
    BY <1>3, <1>5
  <1>7. Len(SubSeq(s, 1, k)) = k
    <2> HIDE DEF k
    <2> QED BY <1>3, <1>4
  <1> QED BY <1>1, <1>3, <1>6, <1>7 DEF Front

\* A set of naturals with a bound has a greatest element.
LEMMA MaxFact ==
  ASSUME NEW k \in Nat, NEW S \in SUBSET (0 .. k), S # {}
  PROVE  Max(S) \in S /\ \A n \in S : n <= Max(S)
  <1> DEFINE T == {k - n : n \in S}
  <1>0. S # {} /\ \A n \in S : n \in Nat /\ n <= k /\ k - n \in Nat
    BY SMT
  <1>1. T \subseteq Nat /\ T # {}
    BY <1>0
  <1>2. PICK t \in T : \A u \in T : ~(<<u, t>> \in OpToRel(<, Nat))
    BY <1>1, NatLessThanWellFounded, WFMin
  <1>3. PICK m \in S : t = k - m
    OBVIOUS
  <1>4. \A n \in S : ~(k - n < k - m)
    BY <1>0, <1>1, <1>2, <1>3 DEF OpToRel
  <1>5. \A n \in S : m >= n
    BY <1>0, <1>4
  <1>6. Max(S) \in S /\ \A n \in S : Max(S) >= n
    BY <1>5 DEF Max
  <1> QED BY <1>0, <1>6

-----------------------------------------------------------------------------
(* What the operations do to the tables, level by level.                   *)

\* The elements of a chain.
LEMMA ChainFact ==
  ASSUME NEW l \in Nat, NEW c, Chained(c, l)
  PROVE  /\ c \in Seq(Tables) /\ Len(c) \in Nat /\ Len(c) >= 1 /\ DOMAIN c = 1 .. Len(c)
         /\ c # <<>>
         /\ \A n \in 1 .. Len(c) : /\ c[n] \in Tables
                                   /\ c[n].level \in Nat /\ c[n].names \in Names
                                   /\ SCOPE_GLOBAL <= c[n].level /\ c[n].level <= l
                                   /\ (c[n].level = SCOPE_GLOBAL => n = 1)
  <1>1. c \in Seq(Tables) /\ Len(c) \in Nat /\ Len(c) >= 1 /\ DOMAIN c = 1 .. Len(c)
    BY DEF Chained
  <1>2. c # <<>>
    BY <1>1, EmptySeq
  <1>3. ASSUME NEW n \in 1 .. Len(c)
        PROVE  c[n] \in Tables /\ c[n].level \in Nat /\ c[n].names \in Names
    <2>1. c[n] \in Tables
      BY <1>1, ElementOfSeq
    <2> QED BY <2>1 DEF Tables
  <1>4. ASSUME NEW n \in 1 .. Len(c)
        PROVE  /\ SCOPE_GLOBAL <= c[n].level /\ c[n].level <= l
               /\ (c[n].level = SCOPE_GLOBAL => n = 1)
    <2>1. 1 \in 1 .. Len(c) /\ (n = 1 \/ 1 < n)
      BY <1>1
    <2>2. n # 1 => c[1].level < c[n].level
      BY <2>1 DEF Chained
    <2> QED BY <1>3, <2>1, <2>2 DEF Chained, SCOPE_GLOBAL
  <1> QED BY <1>1, <1>2, <1>3, <1>4

\* The table of a level is the one that has it, or none.
LEMMA TableFact ==
  ASSUME NEW l \in Nat, NEW c, Chained(c, l)
  PROVE  /\ \A n \in 1 .. Len(c) : TableOf(c, c[n].level) = c[n].names
         /\ \A k : ~HasTable(c, k) => TableOf(c, k) = NoNames
         /\ \A k : TableOf(c, k) \in Names
         /\ \A k \in Nat : k > l => ~HasTable(c, k)
  <1>1. /\ Len(c) \in Nat
        /\ \A n \in 1 .. Len(c) : c[n].level \in Nat /\ c[n].names \in Names /\ c[n].level <= l
    BY ChainFact
  <1>2. ASSUME NEW n \in 1 .. Len(c) PROVE TableOf(c, c[n].level) = c[n].names
    <2> DEFINE m == CHOOSE m \in 1 .. Len(c) : c[m].level = c[n].level
    <2>1. m \in 1 .. Len(c) /\ c[m].level = c[n].level
      OBVIOUS
    <2>2. ~(m < n) /\ ~(n < m)
      BY <1>1, <2>1 DEF Chained
    <2>3. m = n
      BY <2>1, <2>2, <1>1
    <2>4. HasTable(c, c[n].level)
      BY DEF HasTable
    <2> QED BY <2>3, <2>4 DEF TableOf
  <1>3. ASSUME NEW k, ~HasTable(c, k) PROVE TableOf(c, k) = NoNames
    BY <1>3 DEF TableOf
  <1>4. ASSUME NEW k PROVE TableOf(c, k) \in Names
    <2>1. CASE HasTable(c, k)
      <3>1. PICK n \in 1 .. Len(c) : c[n].level = k
        BY <2>1 DEF HasTable
      <3> QED BY <1>1, <1>2, <3>1
    <2> QED BY <1>3, <2>1, NoNamesFact
  <1>5. ASSUME NEW k \in Nat, k > l PROVE ~HasTable(c, k)
    BY <1>1, <1>5 DEF HasTable
  <1> QED BY <1>2, <1>3, <1>4, <1>5

\* cc_symbol_install
LEMMA InstallFact ==
  ASSUME NEW l \in Nat, Chained(chain, l), SCOPE_GLOBAL <= l,
         NEW i \in Ids, NEW p \in Nat \ {0}
  PROVE  /\ Chained(Install(i, p, l), l)
         /\ TableOf(Install(i, p, l), l) = Put(TableOf(chain, l), i, p)
         /\ \A k : k # l => TableOf(Install(i, p, l), k) = TableOf(chain, k)
  <1> DEFINE c == Install(i, p, l)
             n == Len(chain)
  <1>1. /\ chain \in Seq(Tables) /\ n \in Nat /\ n >= 1 /\ n \in 1 .. n /\ DOMAIN chain = 1 .. n
        /\ \A m \in 1 .. n : /\ chain[m].level \in Nat /\ chain[m].names \in Names
                             /\ chain[m].level <= l
    BY ChainFact
  <1>2. Last(chain) = chain[n] /\ n = Len(chain)
    BY DEF Last
  <1> HIDE DEF n
  <1>3. \A m \in 1 .. n : m < n => chain[m].level < chain[n].level
    BY <1>1, <1>2 DEF Chained
  <1>4. ASSUME NEW d, Chained(d, l), n <= Len(d),
               \A m \in 1 .. n : d[m].level = chain[m].level,
               \A m \in 1 .. n : m = n \/ d[m] = chain[m],
               \A m \in n + 1 .. Len(d) : d[m].level = l,
               d[n] = chain[n] \/ chain[n].level = l,
               HasTable(d, l)
        PROVE  \A k : k # l => TableOf(d, k) = TableOf(chain, k)
    <2> SUFFICES ASSUME NEW k, k # l PROVE TableOf(d, k) = TableOf(chain, k)
      OBVIOUS
    <2>a. Len(d) \in Nat
      BY <1>4, ChainFact
    <2>0. /\ \A m \in 1 .. Len(d) : m \in 1 .. n \/ m \in n + 1 .. Len(d)
          /\ \A m \in 1 .. n : m \in 1 .. Len(d)
      BY <1>1, <1>4, <2>a
    <2>1. CASE \E m \in 1 .. n : chain[m].level = k
      <3>1. PICK m \in 1 .. n : chain[m].level = k
        BY <2>1
      <3>2. m \in 1 .. Len(d) /\ d[m].level = k /\ d[m] = chain[m]
        BY <1>2, <1>4, <2>0, <3>1
      <3>3. TableOf(d, k) = d[m].names
        BY <1>4, <3>2, TableFact
      <3>4. TableOf(chain, k) = chain[m].names
        BY <1>2, <3>1, TableFact
      <3> QED BY <3>2, <3>3, <3>4
    <2>2. CASE ~\E m \in 1 .. n : chain[m].level = k
      <3>1. ~HasTable(chain, k)
        BY <1>2, <2>2 DEF HasTable
      <3>2. ~HasTable(d, k)
        BY <1>4, <2>0, <2>2 DEF HasTable
      <3> QED BY <1>4, <3>1, <3>2, TableFact
    <2> QED BY <2>1, <2>2
  <1>5. CASE chain[n].level < l
    <2> DEFINE t == [level |-> l, names |-> [j \in {i} |-> p]]
    <2>1. t \in Tables
      BY NoNamesFact DEF Tables
    <2>2. c = Append(chain, t)
      BY <1>2, <1>5 DEF Install
    <2>3. /\ c \in Seq(Tables) /\ Len(c) = n + 1
          /\ \A m \in 1 .. n : c[m] = chain[m]
          /\ c[n + 1] = t
      <3> HIDE DEF t, c
      <3> QED BY <1>1, <2>1, <2>2, AppendProperties
    <2> HIDE DEF c
    <2>4. Chained(c, l)
      <3>1. ASSUME NEW m \in 1 .. n + 1, NEW k \in 1 .. n + 1, m < k
            PROVE  c[m].level < c[k].level
        <4>1. m \in 1 .. n /\ c[m] = chain[m]
          BY <1>1, <2>3, <3>1
        <4>2. CASE k = n + 1
          <5>1. m = n \/ m < n
            BY <1>1, <4>1
          <5>2. chain[m].level <= chain[n].level
            BY <1>1, <1>3, <4>1, <5>1
          <5> QED BY <1>1, <1>5, <2>3, <4>1, <4>2, <5>2
        <4>3. CASE k # n + 1
          <5>1. k \in 1 .. n
            BY <1>1, <4>3
          <5> QED BY <1>2, <2>3, <3>1, <4>1, <5>1 DEF Chained
        <4> QED BY <4>2, <4>3
      <3>2. ASSUME NEW m \in 1 .. n + 1 PROVE c[m].level <= l
        <4>1. m \in 1 .. n \/ m = n + 1
          BY <1>1
        <4> QED BY <1>1, <2>3, <4>1
      <3>3. 1 \in 1 .. n /\ n + 1 >= 1
        BY <1>1
      <3> QED BY <1>1, <1>2, <2>3, <3>1, <3>2, <3>3 DEF Chained
    <2>5. n + 1 \in 1 .. Len(c) /\ c[n + 1].level = l
      BY <1>1, <2>3
    <2>6. TableOf(c, l) = [j \in {i} |-> p]
      <3>1. TableOf(c, l) = c[n + 1].names
        BY <2>4, <2>5, TableFact
      <3> QED BY <2>3, <3>1
    <2>7. ~HasTable(chain, l)
      <3> SUFFICES ASSUME NEW m \in 1 .. n, chain[m].level = l PROVE FALSE
        BY <1>2 DEF HasTable
      <3>1. m = n \/ m < n
        BY <1>1
      <3> QED BY <1>1, <1>5, <1>3, <3>1
    <2>8. TableOf(c, l) = Put(TableOf(chain, l), i, p)
      <3>1. TableOf(chain, l) = NoNames
        BY <2>7, TableFact
      <3> QED BY <2>6, <3>1, NoNamesFact
    <2>9. \A m \in n + 1 .. Len(c) : c[m].level = l
      BY <1>1, <2>3
    <2>10. HasTable(c, l)
      BY <2>5 DEF HasTable
    <2>11. \A k : k # l => TableOf(c, k) = TableOf(chain, k)
      <3>1. /\ n <= Len(c)
            /\ \A m \in 1 .. n : c[m].level = chain[m].level
            /\ \A m \in 1 .. n : m = n \/ c[m] = chain[m]
            /\ c[n] = chain[n]
        BY <1>1, <2>3
      <3> QED BY <1>4, <2>4, <2>9, <2>10, <3>1
    <2> QED BY <2>4, <2>8, <2>11 DEF c
  <1>6. CASE ~(chain[n].level < l)
    <2> DEFINE t == [chain[n] EXCEPT !.names = Put(@, i, p)]
    <2>0. chain[n].level = l
      BY <1>1, <1>6
    <2>1. /\ t \in Tables /\ t.level = l /\ t.names = Put(chain[n].names, i, p)
      <3>1. Put(chain[n].names, i, p) \in Names
        BY <1>1, PutFact
      <3>2. chain[n] \in Tables
        BY <1>1, ElementOfSeq
      <3> QED BY <2>0, <3>1, <3>2 DEF Tables
    <2>2. c = [chain EXCEPT ![n] = t]
      BY <1>2, <1>6 DEF Install
    <2>3. /\ c \in Seq(Tables) /\ Len(c) = n
          /\ \A m \in 1 .. n : c[m] = IF m = n THEN t ELSE chain[m]
      <3> HIDE DEF t, c
      <3> QED BY <1>1, <2>1, <2>2, ExceptSeq
    <2> HIDE DEF c, t
    <2>4. \A m \in 1 .. n : c[m].level = chain[m].level
      BY <2>0, <2>1, <2>3
    <2>5. Chained(c, l)
      <3>1. 1 \in 1 .. n
        BY <1>1
      <3>2. c[1].level = SCOPE_GLOBAL
        BY <1>2, <2>4, <3>1 DEF Chained
      <3>3. \A m \in 1 .. n : \A k \in 1 .. n : m < k => c[m].level < c[k].level
        BY <1>2, <2>4 DEF Chained
      <3> QED BY <1>1, <2>3, <2>4, <3>2, <3>3 DEF Chained
    <2>6. TableOf(chain, l) = chain[n].names
      BY <1>1, <1>2, <2>0, TableFact
    <2>7. TableOf(c, l) = c[n].names
      <3>1. n \in 1 .. Len(c) /\ c[n].level = l
        BY <1>1, <2>0, <2>3, <2>4
      <3> QED BY <2>5, <3>1, TableFact
    <2>8. TableOf(c, l) = Put(TableOf(chain, l), i, p)
      BY <1>1, <2>1, <2>3, <2>6, <2>7
    <2>9. HasTable(c, l)
      BY <1>1, <2>0, <2>3, <2>4 DEF HasTable
    <2>10. \A k : k # l => TableOf(c, k) = TableOf(chain, k)
      <3>1. /\ n <= Len(c)
            /\ \A m \in 1 .. n : m = n \/ c[m] = chain[m]
            /\ \A m \in n + 1 .. Len(c) : c[m].level = l
        BY <1>1, <2>3
      <3> QED BY <1>4, <2>0, <2>4, <2>5, <2>9, <3>1
    <2> QED BY <2>5, <2>8, <2>10 DEF c
  <1> QED BY <1>5, <1>6

\* A name of the file, whatever scope the parser is in.
LEMMA InstallGlobalFact ==
  ASSUME NEW l \in Nat, Chained(chain, l), NEW i \in Ids, NEW p \in Nat \ {0}
  PROVE  /\ Chained(InstallGlobal(i, p), l)
         /\ TableOf(InstallGlobal(i, p), SCOPE_GLOBAL) = Put(TableOf(chain, SCOPE_GLOBAL), i, p)
         /\ \A k : k # SCOPE_GLOBAL => TableOf(InstallGlobal(i, p), k) = TableOf(chain, k)
  <1> DEFINE c == InstallGlobal(i, p)
             n == Len(chain)
             t == [chain[1] EXCEPT !.names = Put(@, i, p)]
  <1>1. /\ chain \in Seq(Tables) /\ n \in Nat /\ n >= 1 /\ 1 \in 1 .. n /\ n = Len(chain)
        /\ \A m \in 1 .. n : chain[m] \in Tables /\ chain[m].names \in Names
        /\ chain[1].level = SCOPE_GLOBAL
        /\ DOMAIN chain = 1 .. n
    <2>1. chain[1].level = SCOPE_GLOBAL
      BY DEF Chained
    <2> QED BY <2>1, ChainFact
  <1>2. t \in Tables /\ t.level = SCOPE_GLOBAL /\ t.names = Put(chain[1].names, i, p)
    <2>1. Put(chain[1].names, i, p) \in Names
      BY <1>1, PutFact
    <2>2. chain[1] \in Tables
      BY <1>1
    <2> QED BY <1>1, <2>1, <2>2 DEF Tables
  <1>3. c = [chain EXCEPT ![1] = t]
    BY DEF InstallGlobal
  <1> HIDE DEF c, n, t
  <1>4. /\ c \in Seq(Tables) /\ Len(c) = n
        /\ \A m \in 1 .. n : c[m] = IF m = 1 THEN t ELSE chain[m]
    BY <1>1, <1>2, <1>3, ExceptSeq
  <1>5. \A m \in 1 .. n : c[m].level = chain[m].level
    BY <1>1, <1>2, <1>4
  <1>6. Chained(c, l)
    <2>1. c[1].level = SCOPE_GLOBAL
      BY <1>1, <1>5
    <2>2. \A m \in 1 .. n : \A k \in 1 .. n : m < k => c[m].level < c[k].level
      BY <1>1, <1>5 DEF Chained
    <2>3. \A m \in 1 .. n : c[m].level <= l
      BY <1>1, <1>5 DEF Chained
    <2> QED BY <1>1, <1>4, <2>1, <2>2, <2>3 DEF Chained
  <1>7. TableOf(c, SCOPE_GLOBAL) = c[1].names /\ TableOf(chain, SCOPE_GLOBAL) = chain[1].names
    <2>1. 1 \in 1 .. Len(c) /\ c[1].level = SCOPE_GLOBAL /\ 1 \in 1 .. Len(chain)
      BY <1>1, <1>4, <1>5
    <2> QED BY <1>1, <1>6, <2>1, TableFact
  <1>8. ASSUME NEW k, k # SCOPE_GLOBAL PROVE TableOf(c, k) = TableOf(chain, k)
    <2>1. CASE \E m \in 1 .. n : chain[m].level = k
      <3>1. PICK m \in 1 .. n : chain[m].level = k
        BY <2>1
      <3>2. c[m] = chain[m]
        BY <1>1, <1>4, <1>8, <3>1
      <3>3. m \in 1 .. Len(c) /\ c[m].level = k /\ m \in 1 .. Len(chain)
        BY <1>1, <1>4, <3>1, <3>2
      <3>4. TableOf(c, k) = c[m].names
        BY <1>6, <3>3, TableFact
      <3>5. TableOf(chain, k) = chain[m].names
        BY <3>1, <3>3, TableFact
      <3> QED BY <3>2, <3>4, <3>5
    <2>2. CASE ~\E m \in 1 .. n : chain[m].level = k
      <3>1. ~HasTable(chain, k)
        BY <1>1, <2>2 DEF HasTable
      <3>2. ~HasTable(c, k)
        BY <1>4, <1>5, <2>2 DEF HasTable
      <3> QED BY <1>6, <3>1, <3>2, TableFact
    <2> QED BY <2>1, <2>2
  <1>9. TableOf(c, SCOPE_GLOBAL) = Put(TableOf(chain, SCOPE_GLOBAL), i, p)
    BY <1>1, <1>2, <1>4, <1>7
  <1> QED BY <1>6, <1>8, <1>9 DEF c

\* cc_symbol_exitscope: the tables of the outer levels stay.
LEMMA ExitScopeFact ==
  ASSUME level \in Nat, Chained(chain, level), SCOPE_GLOBAL < level
  PROVE  /\ Chained(ExitScope, level - 1)
         /\ \A k \in Nat : k # level => TableOf(ExitScope, k) = TableOf(chain, k)
         /\ \A k \in Nat : k >= level => TableOf(ExitScope, k) = NoNames
  <1> DEFINE n == Len(chain)
             l == level - 1
  <1>1. /\ chain \in Seq(Tables) /\ n \in Nat /\ n >= 1 /\ n \in 1 .. n /\ 1 \in 1 .. n
        /\ n = Len(chain) /\ DOMAIN chain = 1 .. n /\ chain # <<>>
        /\ \A m \in 1 .. n : chain[m] \in Tables /\ chain[m].level \in Nat /\ chain[m].level <= level
        /\ \A m \in 1 .. n : \A k \in 1 .. n : m < k => chain[m].level < chain[k].level
        /\ chain[1].level = SCOPE_GLOBAL
    BY ChainFact DEF Chained
  <1>2. l \in Nat /\ l = level - 1 /\ SCOPE_GLOBAL <= l
    BY DEF SCOPE_GLOBAL
  <1>3. Last(chain) = chain[n]
    BY DEF Last
  <1> HIDE DEF n, l
  <1>4. CASE chain[n].level = level
    <2> DEFINE c == Front(chain)
    <2>1. ExitScope = c
      BY <1>3, <1>4 DEF ExitScope
    <2>2. /\ c \in Seq(Tables) /\ Len(c) = n - 1
          /\ \A m \in 1 .. n - 1 : c[m] = chain[m]
      BY <1>1, FrontFact
    <2> HIDE DEF c
    <2>3. n # 1
      BY <1>1, <1>4
    <2>4. \A m \in 1 .. n - 1 : m \in 1 .. n /\ m < n
      BY <1>1
    <2>5. \A m \in 1 .. n - 1 : chain[m].level < level
      BY <1>1, <1>4, <2>4
    <2>6. Chained(c, l)
      <3>1. Len(c) >= 1 /\ 1 \in 1 .. n - 1
        BY <1>1, <2>2, <2>3
      <3>2. c[1].level = SCOPE_GLOBAL
        BY <1>1, <2>2, <3>1
      <3>3. \A m \in 1 .. n - 1 : \A k \in 1 .. n - 1 : m < k => c[m].level < c[k].level
        BY <1>1, <2>2, <2>4
      <3>4. \A m \in 1 .. n - 1 : c[m].level <= l
        BY <1>1, <1>2, <2>2, <2>4, <2>5
      <3> QED BY <2>2, <3>1, <3>2, <3>3, <3>4 DEF Chained
    <2>7. ASSUME NEW k \in Nat, k # level PROVE TableOf(c, k) = TableOf(chain, k)
      <3>1. CASE \E m \in 1 .. n : chain[m].level = k
        <4>1. PICK m \in 1 .. n : chain[m].level = k
          BY <3>1
        <4>2. m \in 1 .. n - 1
          BY <1>1, <1>4, <2>7, <4>1
        <4>3. m \in 1 .. Len(c) /\ c[m] = chain[m] /\ m \in 1 .. Len(chain)
          BY <1>1, <2>2, <4>1, <4>2
        <4>4. TableOf(c, k) = c[m].names
          BY <1>2, <2>6, <4>1, <4>3, TableFact
        <4>5. TableOf(chain, k) = chain[m].names
          BY <4>1, <4>3, TableFact
        <4> QED BY <4>3, <4>4, <4>5
      <3>2. CASE ~\E m \in 1 .. n : chain[m].level = k
        <4>1. ~HasTable(chain, k)
          BY <1>1, <3>2 DEF HasTable
        <4>2. ~HasTable(c, k)
          BY <2>2, <2>4, <3>2 DEF HasTable
        <4> QED BY <1>2, <2>6, <4>1, <4>2, TableFact
      <3> QED BY <3>1, <3>2
    <2>8. ASSUME NEW k \in Nat, k >= level PROVE TableOf(c, k) = NoNames
      <3>1. k > l
        BY <1>2, <2>8
      <3> QED BY <1>2, <2>6, <3>1, TableFact
    <2> QED BY <1>2, <2>1, <2>6, <2>7, <2>8
  <1>5. CASE chain[n].level # level
    <2>1. ExitScope = chain
      BY <1>3, <1>5 DEF ExitScope
    <2>2. ASSUME NEW m \in 1 .. n PROVE chain[m].level <= l
      <3>1. m = n \/ m < n
        BY <1>1
      <3>2. chain[m].level < level
        BY <1>1, <1>5, <3>1
      <3> QED BY <1>1, <1>2, <3>2
    <2>3. Chained(chain, l)
      BY <1>1, <2>2 DEF Chained
    <2>4. ASSUME NEW k \in Nat, k >= level PROVE TableOf(chain, k) = NoNames
      <3>1. k > l
        BY <1>2, <2>4
      <3> QED BY <1>2, <2>3, <3>1, TableFact
    <2> QED BY <1>2, <2>1, <2>3, <2>4
  <1> QED BY <1>4, <1>5

\* cc_symbol_lookup: the innermost level that has the name, if there is one.
LEMMA LookupFact ==
  ASSUME NEW l \in Nat, NEW c, Chained(c, l), NEW i
  PROVE  \/ /\ Lookup(i, c) = 0
            /\ \A k \in Nat : i \notin DOMAIN TableOf(c, k)
         \/ /\ Lookup(i, c) # 0
            /\ \E k \in SCOPE_GLOBAL .. l :
                 /\ i \in DOMAIN TableOf(c, k)
                 /\ Lookup(i, c) = TableOf(c, k)[i]
                 /\ \A j \in Nat : j > k => i \notin DOMAIN TableOf(c, j)
  <1> DEFINE n == Len(c)
             found == {m \in DOMAIN c : i \in DOMAIN c[m].names}
  <1>1. /\ n \in Nat /\ n = Len(c) /\ DOMAIN c = 1 .. n
        /\ \A m \in 1 .. n : /\ c[m].level \in Nat /\ c[m].names \in Names
                             /\ SCOPE_GLOBAL <= c[m].level /\ c[m].level <= l
        /\ \A m \in 1 .. n : \A k \in 1 .. n : m < k => c[m].level < c[k].level
    BY ChainFact DEF Chained
  <1>2. ASSUME NEW k, i \in DOMAIN TableOf(c, k)
        PROVE  \E m \in found : c[m].level = k
    <2>1. HasTable(c, k)
      BY <1>2, TableFact, NoNamesFact
    <2>2. PICK m \in 1 .. n : c[m].level = k
      BY <1>1, <2>1 DEF HasTable
    <2>3. i \in DOMAIN c[m].names
      BY <1>1, <1>2, <2>2, TableFact
    <2> QED BY <1>1, <2>2, <2>3
  <1>3. Lookup(i, c) = IF found = {} THEN 0 ELSE c[Max(found)].names[i]
    BY DEF Lookup
  <1>4. CASE found = {}
    BY <1>2, <1>3, <1>4
  <1>5. CASE found # {}
    <2>1. found \in SUBSET (0 .. n)
      BY <1>1
    <2> HIDE DEF n
    <2>2. Max(found) \in found /\ \A m \in found : m <= Max(found)
      <3> HIDE DEF found
      <3> QED BY <1>1, <1>5, <2>1, MaxFact
    <2>3. PICK m \in 1 .. n : m = Max(found) /\ i \in DOMAIN c[m].names
      BY <1>1, <2>2
    <2>4. m \in 1 .. Len(c) /\ TableOf(c, c[m].level) = c[m].names
      BY <1>1, <2>3, TableFact
    <2>5. Lookup(i, c) = c[m].names[i]
      BY <1>3, <1>5, <2>3
    <2>6. c[m].names[i] \in Nat \ {0}
      BY <1>1, <2>3, NamesFact
    <2>7. ASSUME NEW j \in Nat, j > c[m].level, i \in DOMAIN TableOf(c, j) PROVE FALSE
      <3>1. PICK h \in found : c[h].level = j
        BY <1>2, <2>7
      <3>2. h \in 1 .. n /\ h <= m
        BY <1>1, <2>2, <2>3, <3>1
      <3>3. h = m \/ h < m
        BY <1>1, <2>3, <3>2
      <3> QED BY <1>1, <2>3, <2>7, <3>1, <3>2, <3>3
    <2>8. c[m].level \in SCOPE_GLOBAL .. l
      BY <1>1, <2>3 DEF SCOPE_GLOBAL
    <2> QED BY <2>3, <2>4, <2>5, <2>6, <2>7, <2>8
  <1> QED BY <1>4, <1>5

\* Only the file's table.
LEMMA GlobalOfFact ==
  ASSUME NEW l \in Nat, Chained(chain, l), NEW i
  PROVE  GlobalOf(i) = IF i \in DOMAIN TableOf(chain, SCOPE_GLOBAL)
                       THEN TableOf(chain, SCOPE_GLOBAL)[i] ELSE 0
  <1> DEFINE c == SubSeq(chain, 1, 1)
  <1>1. /\ chain \in Seq(Tables) /\ Len(chain) \in Nat /\ Len(chain) >= 1
        /\ 1 \in 1 .. Len(chain) /\ chain[1].level = SCOPE_GLOBAL /\ chain[1] \in Tables
    BY ChainFact DEF Chained
  <1>2. /\ c \in Seq(Tables) /\ Len(c) = 1 /\ c[1] = chain[1]
    <2>1. 1 \in Int /\ \A n \in 1 .. 1 : chain[n] \in Tables
      BY <1>1
    <2>2. /\ c \in Seq(Tables) /\ Len(c) = IF 1 <= 1 THEN 1 - 1 + 1 ELSE 0
          /\ \A n \in 1 .. 1 - 1 + 1 : c[n] = chain[1 + n - 1]
      BY <2>1, SubSeqProperties
    <2> QED BY <2>2
  <1> HIDE DEF c
  <1>3. DOMAIN c = 1 .. 1
    BY <1>2
  <1>4. TableOf(chain, SCOPE_GLOBAL) = chain[1].names
    BY <1>1, TableFact
  <1> DEFINE found == {m \in DOMAIN c : i \in DOMAIN c[m].names}
  <1>5. GlobalOf(i) = IF found = {} THEN 0 ELSE c[Max(found)].names[i]
    BY DEF GlobalOf, Lookup, c
  <1>6. CASE i \in DOMAIN chain[1].names
    <2>1. found = {1}
      BY <1>2, <1>3, <1>6
    <2>2. Max({1}) = 1
      BY DEF Max
    <2> QED BY <1>2, <1>4, <1>5, <1>6, <2>1, <2>2
  <1>7. CASE i \notin DOMAIN chain[1].names
    <2>1. found = {}
      BY <1>2, <1>3, <1>7
    <2> QED BY <1>4, <1>5, <1>7, <2>1
  <1> QED BY <1>6, <1>7

-----------------------------------------------------------------------------
(* What the operations do to the symbols.  None moves a symbol to another  *)
(* name, scope or area, and only a symbol of the file changes its class.   *)

SameSymbol(old, new) ==
  /\ new.id = old.id
  /\ new.scope = old.scope
  /\ new.alias = old.alias
  /\ new.area = old.area
  /\ old.sclass # "Typedef" => new.sclass # "Typedef"
  /\ old.scope # SCOPE_GLOBAL => new.sclass = old.sclass

Keeps(old, new) ==
  /\ new \in Seq(Symbols)
  /\ Len(new) \in Nat /\ Len(old) <= Len(new)
  /\ \A n \in 1 .. Len(old) : SameSymbol(old[n], new[n])

LEMMA KeepsListed ==
  ASSUME NEW c, NEW old \in Seq(Symbols), NEW new, Listed(c, old), Keeps(old, new)
  PROVE  Listed(c, new)
  <1> SUFFICES ASSUME NEW l \in Nat, NEW i \in DOMAIN TableOf(c, l), NEW p, p = TableOf(c, l)[i]
               PROVE  /\ p \in 1 .. Len(new)
                      /\ new[p].id = i
                      /\ new[p].scope = l
                      /\ new[p].area = (IF l = SCOPE_GLOBAL THEN "perm" ELSE "temp")
                      /\ l = SCOPE_PARAM => new[p].sclass = "Auto"
    BY DEF Listed
  <1>1. /\ p \in 1 .. Len(old) /\ old[p].id = i /\ old[p].scope = l
        /\ old[p].area = (IF l = SCOPE_GLOBAL THEN "perm" ELSE "temp")
        /\ l = SCOPE_PARAM => old[p].sclass = "Auto"
    BY DEF Listed
  <1>2. SameSymbol(old[p], new[p]) /\ Len(old) \in Nat /\ Len(new) \in Nat /\ Len(old) <= Len(new)
    BY <1>1 DEF Keeps
  <1>3. p \in 1 .. Len(new)
    BY <1>1, <1>2
  <1> QED BY <1>1, <1>2, <1>3 DEF SameSymbol, SCOPE_PARAM, SCOPE_GLOBAL

LEMMA KeepsLasting ==
  ASSUME NEW old \in Seq(Symbols), NEW new, Keeps(old, new), NEW n, Lasting(old, n)
  PROVE  Lasting(new, n) /\ new[n].id = old[n].id
  <1>1. n \in 1 .. Len(old) /\ Len(old) \in Nat /\ Len(new) \in Nat /\ Len(old) <= Len(new)
    BY DEF Lasting, Keeps
  <1>2. n \in 1 .. Len(new)
    BY <1>1
  <1>3. SameSymbol(old[n], new[n])
    BY <1>1 DEF Keeps
  <1> QED BY <1>2, <1>3 DEF Lasting, SameSymbol

LEMMA KeepsImported ==
  ASSUME NEW exts, NEW old \in Seq(Symbols), NEW new, Imported(exts, old), Keeps(old, new)
  PROVE  Imported(exts, new)
  BY KeepsLasting DEF Imported

AliasedAt(syms, n) ==
  /\ syms[n].alias # 0 => Lasting(syms, syms[n].alias)
  /\ syms[n].scope > SCOPE_PARAM /\ syms[n].sclass = "External" =>
       syms[n].alias # 0 /\ syms[syms[n].alias].id = syms[n].id
  /\ syms[n].scope > SCOPE_PARAM /\ syms[n].sclass = "Static" =>
       syms[n].alias # 0 /\ syms[syms[n].alias].id = Generated

LEMMA KeepsAliased ==
  ASSUME NEW old \in Seq(Symbols), NEW new, Aliased(old), Keeps(old, new),
         \A n \in Len(old) + 1 .. Len(new) : AliasedAt(new, n)
  PROVE  Aliased(new)
  <1>1. Len(old) \in Nat /\ Len(new) \in Nat /\ Len(old) <= Len(new) /\ new \in Seq(Symbols)
    BY DEF Keeps
  <1>2. ASSUME NEW n \in 1 .. Len(old) PROVE AliasedAt(new, n)
    <2>1. SameSymbol(old[n], new[n]) /\ AliasedAt(old, n)
      BY DEF Keeps, Aliased, AliasedAt
    <2>2. new[n].alias # 0 =>
            Lasting(new, new[n].alias) /\ new[new[n].alias].id = old[old[n].alias].id
      BY <2>1, KeepsLasting DEF SameSymbol, AliasedAt
    <2>3. new[n].scope > SCOPE_PARAM => new[n].sclass = old[n].sclass
      <3>1. old[n].scope \in Nat
        <4>1. old[n] \in Symbols
          BY ElementOfSeq
        <4> QED BY <4>1 DEF Symbols
      <3> QED BY <2>1, <3>1 DEF SameSymbol, SCOPE_PARAM, SCOPE_GLOBAL
    <2> QED BY <2>1, <2>2, <2>3 DEF SameSymbol, AliasedAt
  <1>3. \A n \in 1 .. Len(new) : n \in 1 .. Len(old) \/ n \in Len(old) + 1 .. Len(new)
    BY <1>1
  <1> QED BY <1>2, <1>3 DEF Aliased, AliasedAt

\* A symbol that is changed in place.
LEMMA ExceptKeeps ==
  ASSUME NEW syms \in Seq(Symbols), NEW p \in 1 .. Len(syms), NEW r \in Symbols,
         SameSymbol(syms[p], r)
  PROVE  /\ Keeps(syms, [syms EXCEPT ![p] = r])
         /\ Len([syms EXCEPT ![p] = r]) = Len(syms)
         /\ \A n \in 1 .. Len(syms) : [syms EXCEPT ![p] = r][n] = IF n = p THEN r ELSE syms[n]
  <1> DEFINE new == [syms EXCEPT ![p] = r]
  <1>1. /\ new \in Seq(Symbols) /\ Len(new) = Len(syms) /\ Len(syms) \in Nat
        /\ \A n \in 1 .. Len(syms) : new[n] = IF n = p THEN r ELSE syms[n]
    BY ExceptSeq
  <1> HIDE DEF new
  <1>2. \A n \in 1 .. Len(syms) : SameSymbol(syms[n], new[n])
    BY <1>1 DEF SameSymbol
  <1>3. Keeps(syms, new)
    BY <1>1, <1>2 DEF Keeps
  <1> QED BY <1>1, <1>3 DEF new

\* Symbols that are added.
LEMMA AppendKeeps ==
  ASSUME NEW syms \in Seq(Symbols), NEW r \in Symbols
  PROVE  /\ Keeps(syms, Append(syms, r))
         /\ Len(syms) \in Nat /\ Len(Append(syms, r)) = Len(syms) + 1
         /\ \A n \in 1 .. Len(syms) : Append(syms, r)[n] = syms[n]
         /\ Append(syms, r)[Len(syms) + 1] = r
  <1> DEFINE new == Append(syms, r)
  <1>1. /\ new \in Seq(Symbols) /\ Len(syms) \in Nat /\ Len(new) = Len(syms) + 1
        /\ \A n \in 1 .. Len(syms) : new[n] = syms[n]
        /\ new[Len(syms) + 1] = r
    BY AppendProperties
  <1> HIDE DEF new
  <1>2. \A n \in 1 .. Len(syms) : SameSymbol(syms[n], new[n])
    BY <1>1 DEF SameSymbol
  <1>3. Keeps(syms, new)
    BY <1>1, <1>2 DEF Keeps
  <1> QED BY <1>1, <1>3 DEF new

LEMMA PairKeeps ==
  ASSUME NEW syms \in Seq(Symbols), NEW r \in Symbols, NEW q \in Symbols
  PROVE  /\ Keeps(syms, syms \o <<r, q>>)
         /\ Len(syms) \in Nat /\ Len(syms \o <<r, q>>) = Len(syms) + 2
         /\ \A n \in 1 .. Len(syms) : (syms \o <<r, q>>)[n] = syms[n]
         /\ (syms \o <<r, q>>)[Len(syms) + 1] = r
         /\ (syms \o <<r, q>>)[Len(syms) + 2] = q
  <1> DEFINE one == Append(syms, r)
             two == Append(one, q)
  <1>1. /\ one \in Seq(Symbols) /\ Len(syms) \in Nat /\ Len(one) = Len(syms) + 1
        /\ \A n \in 1 .. Len(syms) : one[n] = syms[n]
        /\ one[Len(syms) + 1] = r
    BY AppendProperties
  <1>2. /\ two \in Seq(Symbols) /\ Len(two) = Len(one) + 1
        /\ \A n \in 1 .. Len(one) : two[n] = one[n]
        /\ two[Len(one) + 1] = q
    <2> HIDE DEF one
    <2> QED BY <1>1, AppendProperties
  <1>3. syms \o <<r, q>> = two
    OBVIOUS
  <1> HIDE DEF one, two
  <1>4. /\ Len(two) = Len(syms) + 2
        /\ \A n \in 1 .. Len(syms) : n \in 1 .. Len(one)
        /\ Len(syms) + 1 \in 1 .. Len(one)
    BY <1>1, <1>2
  <1>5. /\ \A n \in 1 .. Len(syms) : two[n] = syms[n]
        /\ two[Len(syms) + 1] = r
        /\ two[Len(syms) + 2] = q
    BY <1>1, <1>2, <1>4
  <1>6. \A n \in 1 .. Len(syms) : SameSymbol(syms[n], two[n])
    BY <1>5 DEF SameSymbol
  <1>7. Keeps(syms, two)
    BY <1>1, <1>2, <1>4, <1>6 DEF Keeps
  <1> QED BY <1>1, <1>3, <1>4, <1>5, <1>7

-----------------------------------------------------------------------------
(* Every step keeps the invariant.                                         *)

\* What LInv says of the parts of a state, in the form the steps need.
LEMMA StateFact ==
  ASSUME LInv
  PROVE  /\ level \in Nat /\ SCOPE_GLOBAL <= level
         /\ symbols \in Seq(Symbols) /\ Len(symbols) \in Nat /\ New = Len(symbols) + 1
         /\ New \in Nat \ {0}
         /\ \A n \in 1 .. Len(symbols) : symbols[n] \in Symbols
         /\ \A d \in declared : /\ d.id \in Ids /\ d.type \in Types \cup {Fun}
                                /\ d.storage \in Storages /\ d.init \in BOOLEAN
  <1>1. level \in Nat /\ symbols \in Seq(Symbols) /\ Len(symbols) \in Nat
    BY DEF LInv, Staged
  <1>2. SCOPE_GLOBAL <= level
    BY <1>1 DEF LInv, Staged, SCOPE_GLOBAL, SCOPE_PARAM
  <1>3. \A n \in 1 .. Len(symbols) : symbols[n] \in Symbols
    BY <1>1, ElementOfSeq
  <1>4. \A d \in declared : d \in Declarations
    BY LinkageAssumption DEF LInv
  <1>5. \A d \in declared : /\ d.id \in Ids /\ d.type \in Types \cup {Fun}
                            /\ d.storage \in Storages /\ d.init \in BOOLEAN
    BY <1>4 DEF Declarations
  <1> QED BY <1>1, <1>2, <1>3, <1>5 DEF New

\* What a look-up in the chain finds.
LEMMA FoundFact ==
  ASSUME LInv, NEW i, NEW p, p = Lookup(i, chain), p # 0
  PROVE  \E k \in SCOPE_GLOBAL .. level :
           /\ p \in 1 .. Len(symbols) /\ symbols[p].id = i /\ symbols[p].scope = k
           /\ symbols[p].area = (IF k = SCOPE_GLOBAL THEN "perm" ELSE "temp")
           /\ k = SCOPE_PARAM => symbols[p].sclass = "Auto"
           /\ i \in DOMAIN TableOf(chain, k) /\ TableOf(chain, k)[i] = p
           /\ \A j \in Nat : j > k => i \notin DOMAIN TableOf(chain, j)
  <1>1. level \in Nat /\ Chained(chain, level) /\ Listed(chain, symbols)
    BY StateFact DEF LInv
  <1>2. PICK k \in SCOPE_GLOBAL .. level :
          /\ i \in DOMAIN TableOf(chain, k) /\ p = TableOf(chain, k)[i]
          /\ \A j \in Nat : j > k => i \notin DOMAIN TableOf(chain, j)
    BY <1>1, LookupFact
  <1>3. k \in Nat
    BY DEF SCOPE_GLOBAL
  <1> QED BY <1>1, <1>2, <1>3 DEF Listed

\* A file symbol that GlobalOf finds.
LEMMA GlobalFound ==
  ASSUME LInv, NEW i, NEW p, p = GlobalOf(i), p # 0
  PROVE  /\ p \in 1 .. Len(symbols) /\ symbols[p].id = i
         /\ symbols[p].scope = SCOPE_GLOBAL /\ symbols[p].area = "perm"
         /\ i \in DOMAIN TableOf(chain, SCOPE_GLOBAL) /\ TableOf(chain, SCOPE_GLOBAL)[i] = p
  <1>1. level \in Nat /\ Chained(chain, level) /\ Listed(chain, symbols)
    BY StateFact DEF LInv
  <1>2. i \in DOMAIN TableOf(chain, SCOPE_GLOBAL) /\ p = TableOf(chain, SCOPE_GLOBAL)[i]
    BY <1>1, GlobalOfFact
  <1>3. SCOPE_GLOBAL \in Nat
    BY DEF SCOPE_GLOBAL
  <1> QED BY <1>1, <1>2, <1>3 DEF Listed

\* A name that is added to one table.
LEMMA PutListed ==
  ASSUME NEW c, NEW d, NEW syms, NEW l \in Nat, NEW i \in Ids, NEW p \in 1 .. Len(syms),
         Listed(c, syms), TableOf(c, l) \in Names,
         TableOf(d, l) = Put(TableOf(c, l), i, p),
         \A k : k # l => TableOf(d, k) = TableOf(c, k),
         syms[p].id = i, syms[p].scope = l,
         syms[p].area = (IF l = SCOPE_GLOBAL THEN "perm" ELSE "temp"),
         l = SCOPE_PARAM => syms[p].sclass = "Auto"
  PROVE  Listed(d, syms)
  <1> SUFFICES ASSUME NEW k \in Nat, NEW j \in DOMAIN TableOf(d, k), NEW q, q = TableOf(d, k)[j]
               PROVE  /\ q \in 1 .. Len(syms)
                      /\ syms[q].id = j
                      /\ syms[q].scope = k
                      /\ syms[q].area = (IF k = SCOPE_GLOBAL THEN "perm" ELSE "temp")
                      /\ k = SCOPE_PARAM => syms[q].sclass = "Auto"
    BY DEF Listed
  <1>1. CASE k = l /\ j = i
    <2>1. q = p
      BY <1>1 DEF Put
    <2> QED BY <1>1, <2>1
  <1>2. CASE ~(k = l /\ j = i)
    <2>1. j \in DOMAIN TableOf(c, k) /\ q = TableOf(c, k)[j]
      BY <1>2 DEF Put
    <2> QED BY <2>1 DEF Listed
  <1> QED BY <1>1, <1>2

\* A step that leaves the tables alone.
LEMMA SameTables ==
  ASSUME LInv, Keeps(symbols, symbols'), Len(symbols') = Len(symbols), Staged',
         UNCHANGED <<level, chain, externals, all, declared>>
  PROVE  LInv'
  <1>1. symbols \in Seq(Symbols) /\ symbols' \in Seq(Symbols) /\ Len(symbols) \in Nat
    BY StateFact DEF Keeps
  <1>2. Listed(chain, symbols') /\ Imported(externals, symbols')
    BY <1>1, KeepsListed, KeepsImported DEF LInv
  <1>3. Aliased(symbols')
    <2>1. \A n \in Len(symbols) + 1 .. Len(symbols') : AliasedAt(symbols', n)
      BY <1>1
    <2> QED BY <1>1, <2>1, KeepsAliased DEF LInv
  <1>4. \A n \in all : n \in 1 .. Len(symbols') /\ symbols'[n].area = "perm"
    BY DEF LInv, Keeps, SameSymbol
  <1> QED BY <1>1, <1>2, <1>3, <1>4 DEF LInv

\* A step that declares a name in the table of a level.
LEMMA DeclareLInv ==
  ASSUME LInv, Keeps(symbols, symbols'),
         \A n \in Len(symbols) + 1 .. Len(symbols') : AliasedAt(symbols', n),
         NEW l \in Nat, NEW i \in Ids, NEW p \in 1 .. Len(symbols'),
         Chained(chain', level),
         TableOf(chain', l) = Put(TableOf(chain, l), i, p),
         \A k : k # l => TableOf(chain', k) = TableOf(chain, k),
         symbols'[p].id = i, symbols'[p].scope = l,
         symbols'[p].area = (IF l = SCOPE_GLOBAL THEN "perm" ELSE "temp"),
         l = SCOPE_PARAM => symbols'[p].sclass = "Auto",
         Imported(externals', symbols'),
         \A n \in all' : n \in all \/ (n \in 1 .. Len(symbols') /\ symbols'[n].area = "perm"),
         Staged', UNCHANGED <<level, declared>>
  PROVE  LInv'
  <1>1. /\ symbols \in Seq(Symbols) /\ symbols' \in Seq(Symbols) /\ Len(symbols) \in Nat
        /\ Len(symbols') \in Nat /\ Len(symbols) <= Len(symbols')
    BY StateFact DEF Keeps
  <1>2. Aliased(symbols')
    BY <1>1, KeepsAliased DEF LInv
  <1>3. Listed(chain, symbols')
    BY <1>1, KeepsListed DEF LInv
  <1>4. TableOf(chain, l) \in Names
    BY StateFact, TableFact DEF LInv
  <1>5. Listed(chain', symbols')
    BY <1>3, <1>4, PutListed
  <1>6. \A n \in all : n \in 1 .. Len(symbols') /\ symbols'[n].area = "perm"
    <2>1. \A n \in all : n \in 1 .. Len(symbols) /\ symbols[n].area = "perm"
      BY DEF LInv
    <2>2. \A n \in 1 .. Len(symbols) : n \in 1 .. Len(symbols')
      BY <1>1
    <2> QED BY <2>1, <2>2 DEF Keeps, SameSymbol
  <1>7. Chained(chain', level') /\ declared' \in Programs
    BY DEF LInv
  <1> QED BY <1>1, <1>2, <1>5, <1>6, <1>7 DEF LInv

\* A typedef, in the file or in a block.
LEMMA TypedefLInv ==
  ASSUME LInv, NEW d \in declared, Typedef(d), level # SCOPE_PARAM
  PROVE  LInv'
  <1>1. CASE Refuse
    BY <1>1 DEF Refuse, tables, LInv, Staged
  <1> DEFINE where == IF level <= SCOPE_GLOBAL THEN Permanent ELSE "temp"
             symbol == Symbol(d.id, d.type, "Typedef", level, where)
  <1>2. CASE /\ symbols' = Append(symbols, symbol)
             /\ chain' = Install(d.id, New, level)
             /\ all' = IF level = SCOPE_GLOBAL THEN all \cup {New} ELSE all
             /\ UNCHANGED <<level, externals, function, code, linkage, status, declared>>
    <2>1. /\ level \in Nat /\ SCOPE_GLOBAL <= level /\ symbols \in Seq(Symbols)
          /\ New = Len(symbols) + 1 /\ New \in Nat \ {0} /\ Len(symbols) \in Nat
          /\ d.id \in Ids /\ d.type \in Types \cup {Fun}
      BY StateFact
    <2>2. /\ symbol \in Symbols /\ symbol.id = d.id /\ symbol.scope = level
          /\ symbol.area = (IF level = SCOPE_GLOBAL THEN "perm" ELSE "temp")
          /\ symbol.alias = 0 /\ symbol.sclass = "Typedef"
      <3>1. where \in {"perm", "temp"} /\ where = IF level = SCOPE_GLOBAL THEN "perm" ELSE "temp"
        BY <2>1 DEF Permanent, SCOPE_GLOBAL
      <3>2. "Typedef" \in Classes /\ d.id \in Ids \cup {Generated}
        BY <2>1 DEF Classes
      <3> HIDE DEF where
      <3>3. /\ symbol \in Symbols /\ symbol.id = d.id /\ symbol.sclass = "Typedef"
            /\ symbol.scope = level /\ symbol.area = where /\ symbol.alias = 0
        BY <2>1, <3>1, <3>2 DEF Symbol, Symbols
      <3> HIDE DEF symbol
      <3> QED BY <3>1, <3>3
    <2> HIDE DEF symbol
    <2>3. /\ Keeps(symbols, symbols') /\ Len(symbols') = New /\ symbols'[New] = symbol
      BY <1>2, <2>1, <2>2, AppendKeeps
    <2>4. \A n \in Len(symbols) + 1 .. Len(symbols') : AliasedAt(symbols', n)
      <3>1. \A n \in Len(symbols) + 1 .. Len(symbols') : n = New
        BY <2>1, <2>3
      <3> QED BY <2>2, <2>3, <3>1 DEF AliasedAt
    <2>5. /\ Chained(chain', level) /\ TableOf(chain', level) = Put(TableOf(chain, level), d.id, New)
          /\ \A k : k # level => TableOf(chain', k) = TableOf(chain, k)
      BY <1>2, <2>1, InstallFact DEF LInv
    <2>6. Imported(externals', symbols')
      BY <1>2, <2>1, <2>3, KeepsImported DEF LInv
    <2>7. New \in 1 .. Len(symbols')
      BY <2>1, <2>3
    <2>8. \A n \in all' : n \in all \/ (n \in 1 .. Len(symbols') /\ symbols'[n].area = "perm")
      BY <1>2, <2>2, <2>3, <2>7
    <2>9. Staged'
      BY <1>2 DEF LInv, Staged
    <2> QED BY <1>2, <2>1, <2>2, <2>3, <2>4, <2>5, <2>6, <2>7, <2>8, <2>9, DeclareLInv
  <1> QED BY <1>1, <1>2 DEF Typedef

\* Storage classes become classes of symbols; an initializer keeps the rest.
LEMMA ClassFact ==
  ASSUME NEW d, d.storage \in Storages, d.init \in BOOLEAN, NEW r \in Symbols
  PROVE  /\ SClass(d) \in Classes /\ SClass(d) # "Typedef"
         /\ WithValue(r, d) \in Symbols
         /\ WithValue(r, d).id = r.id /\ WithValue(r, d).scope = r.scope
         /\ WithValue(r, d).alias = r.alias /\ WithValue(r, d).area = r.area
         /\ WithValue(r, d).type = r.type
         /\ r.sclass # "Typedef" => WithValue(r, d).sclass # "Typedef"
  <1>1. SClass(d) \in Classes /\ SClass(d) # "Typedef"
    BY DEF SClass, Classes
  <1>2. CASE d.init
    BY <1>1, <1>2 DEF WithValue, Symbols, Classes
  <1>3. CASE ~d.init
    BY <1>1, <1>3 DEF WithValue
  <1> QED BY <1>1, <1>2, <1>3

\* A symbol of the file for the declaration d, that DeclNew and FuncDefinition add.
LEMMA NewGlobalLInv ==
  ASSUME LInv, NEW d \in declared, NEW r \in Symbols,
         r.id = d.id, r.scope = SCOPE_GLOBAL, r.area = "perm", r.alias = 0,
         symbols' = Append(symbols, r), chain' = InstallGlobal(d.id, New),
         all' = all \cup {New}, UNCHANGED <<level, externals, declared>>, Staged'
  PROVE  LInv'
  <1>1. /\ level \in Nat /\ symbols \in Seq(Symbols) /\ New = Len(symbols) + 1
        /\ New \in Nat \ {0} /\ Len(symbols) \in Nat /\ d.id \in Ids /\ SCOPE_GLOBAL \in Nat
    BY StateFact DEF SCOPE_GLOBAL
  <1>2. Keeps(symbols, symbols') /\ Len(symbols') = New /\ symbols'[New] = r
    BY <1>1, AppendKeeps
  <1>3. \A n \in Len(symbols) + 1 .. Len(symbols') : AliasedAt(symbols', n)
    <2>1. \A n \in Len(symbols) + 1 .. Len(symbols') : n = New
      BY <1>1, <1>2
    <2> QED BY <1>2, <2>1 DEF AliasedAt, SCOPE_GLOBAL, SCOPE_PARAM
  <1>4. /\ Chained(chain', level)
        /\ TableOf(chain', SCOPE_GLOBAL) = Put(TableOf(chain, SCOPE_GLOBAL), d.id, New)
        /\ \A k : k # SCOPE_GLOBAL => TableOf(chain', k) = TableOf(chain, k)
    BY <1>1, InstallGlobalFact DEF LInv
  <1>5. Imported(externals', symbols')
    BY <1>1, <1>2, KeepsImported DEF LInv
  <1>6. New \in 1 .. Len(symbols')
    BY <1>1, <1>2
  <1>7. \A n \in all' : n \in all \/ (n \in 1 .. Len(symbols') /\ symbols'[n].area = "perm")
    BY <1>2, <1>6
  <1>8. SCOPE_GLOBAL = SCOPE_PARAM => symbols'[New].sclass = "Auto"
    BY DEF SCOPE_GLOBAL, SCOPE_PARAM
  <1> QED BY <1>1, <1>2, <1>3, <1>4, <1>5, <1>6, <1>7, <1>8, DeclareLInv

\* A symbol that a step changes in place, at most in its class.
LEMMA ChangeLInv ==
  ASSUME LInv, NEW p \in 1 .. Len(symbols), NEW r \in Symbols,
         SameSymbol(symbols[p], r), symbols' = [symbols EXCEPT ![p] = r],
         UNCHANGED <<level, chain, externals, all, declared>>, Staged'
  PROVE  LInv'
  BY StateFact, ExceptKeeps, SameTables

\* cc_parser_declglobal finds the name in the file.
LEMMA DeclKnownFact ==
  ASSUME LInv, NEW d \in declared, NEW p \in 1 .. Len(symbols), DeclKnown(d, p)
  PROVE  \E r \in Symbols :
           /\ symbols' = [symbols EXCEPT ![p] = r]
           /\ r.id = symbols[p].id /\ r.scope = symbols[p].scope /\ r.alias = symbols[p].alias
           /\ r.area = symbols[p].area
           /\ symbols[p].sclass # "Typedef" => r.sclass # "Typedef"
  <1> DEFINE s == symbols[p]
             sclass == IF s.sclass = "External" THEN SClass(d) ELSE s.sclass
             q == [s EXCEPT !.sclass = sclass]
             r == WithValue(q, d)
  <1>1. s \in Symbols /\ d.storage \in Storages /\ d.init \in BOOLEAN
    BY StateFact
  <1>2. SClass(d) \in Classes /\ SClass(d) # "Typedef"
    BY <1>1, ClassFact
  <1>3. /\ q \in Symbols /\ q.id = s.id /\ q.scope = s.scope /\ q.alias = s.alias
        /\ q.area = s.area /\ (s.sclass # "Typedef" => q.sclass # "Typedef")
    <2>1. sclass \in Classes /\ (s.sclass # "Typedef" => sclass # "Typedef")
      BY <1>1, <1>2 DEF Symbols
    <2> HIDE DEF sclass
    <2> QED BY <1>1, <2>1 DEF Symbols
  <1>4. /\ r \in Symbols /\ r.id = q.id /\ r.scope = q.scope /\ r.alias = q.alias
        /\ r.area = q.area /\ (q.sclass # "Typedef" => r.sclass # "Typedef")
    <2> HIDE DEF q
    <2> QED BY <1>1, <1>3, ClassFact
  <1>5. symbols' = [symbols EXCEPT ![p] = r]
    BY DEF DeclKnown
  <1> HIDE DEF q, r
  <1> QED BY <1>3, <1>4, <1>5

LEMMA DeclKnownLInv ==
  ASSUME LInv, NEW d \in declared, NEW p \in 1 .. Len(symbols),
         symbols[p].scope = SCOPE_GLOBAL, DeclKnown(d, p),
         UNCHANGED <<level, function, declared>>
  PROVE  LInv'
  <1>1. PICK r \in Symbols :
          /\ symbols' = [symbols EXCEPT ![p] = r]
          /\ r.id = symbols[p].id /\ r.scope = symbols[p].scope /\ r.alias = symbols[p].alias
          /\ r.area = symbols[p].area
          /\ symbols[p].sclass # "Typedef" => r.sclass # "Typedef"
    BY DeclKnownFact
  <1>2. SameSymbol(symbols[p], r)
    BY <1>1 DEF SameSymbol
  <1>3. Staged'
    BY DEF LInv, Staged
  <1> QED BY <1>1, <1>2, <1>3, ChangeLInv DEF DeclKnown

\* A block declared it before: the symbol leaves the externals for the file.
LEMMA RelocateFact ==
  ASSUME LInv, NEW d \in declared, NEW p, p = ExternalOf(d.id), p # 0, Relocate(d, p),
         level' = level
  PROVE  /\ p \in 1 .. Len(symbols) /\ Lasting(symbols, p) /\ symbols[p].id = d.id
         /\ \E r \in Symbols :
              /\ symbols' = [symbols EXCEPT ![p] = r]
              /\ r.id = d.id /\ r.scope = SCOPE_GLOBAL /\ r.area = "perm"
              /\ r.alias = symbols[p].alias /\ r.sclass # "Typedef"
         /\ Chained(chain', level)
         /\ TableOf(chain', SCOPE_GLOBAL) = Put(TableOf(chain, SCOPE_GLOBAL), d.id, p)
         /\ \A k : k # SCOPE_GLOBAL => TableOf(chain', k) = TableOf(chain, k)
  <1> DEFINE s == symbols[p]
             q == [s EXCEPT !.sclass = SClass(d), !.type = d.type]
             r == WithValue(q, d)
  <1>1. /\ d.storage \in Storages /\ d.init \in BOOLEAN /\ d.type \in Types \cup {Fun}
        /\ level \in Nat /\ d.id \in Ids
    BY StateFact
  <1>2. d.id \in DOMAIN externals /\ Lasting(symbols, p) /\ s.id = d.id
    BY DEF ExternalOf, LInv, Imported
  <1>3. p \in 1 .. Len(symbols) /\ s \in Symbols /\ s.scope = SCOPE_GLOBAL /\ s.area = "perm"
    BY <1>2, StateFact DEF Lasting
  <1>4. SClass(d) \in Classes /\ SClass(d) # "Typedef"
    BY <1>1, <1>3, ClassFact
  <1>5. /\ q \in Symbols /\ q.id = s.id /\ q.scope = s.scope /\ q.alias = s.alias
        /\ q.area = s.area /\ q.sclass # "Typedef"
    BY <1>1, <1>3, <1>4 DEF Symbols
  <1>6. /\ r \in Symbols /\ r.id = q.id /\ r.scope = q.scope /\ r.alias = q.alias
        /\ r.area = q.area /\ r.sclass # "Typedef"
    <2> HIDE DEF q
    <2> QED BY <1>1, <1>5, ClassFact
  <1>7. symbols' = [symbols EXCEPT ![p] = r]
    BY DEF Relocate
  <1> HIDE DEF q, r
  <1>8. /\ Chained(chain', level)
        /\ TableOf(chain', SCOPE_GLOBAL) = Put(TableOf(chain, SCOPE_GLOBAL), d.id, p)
        /\ \A k : k # SCOPE_GLOBAL => TableOf(chain', k) = TableOf(chain, k)
    <2>1. p \in Nat \ {0}
      BY <1>3
    <2> QED BY <1>1, <2>1, InstallGlobalFact DEF LInv, Relocate
  <1> QED BY <1>2, <1>3, <1>5, <1>6, <1>7, <1>8

LEMMA RelocateLInv ==
  ASSUME LInv, NEW d \in declared, NEW p, p = ExternalOf(d.id), p # 0, Relocate(d, p),
         UNCHANGED <<level, function, declared>>
  PROVE  LInv'
  <1>1. /\ symbols \in Seq(Symbols) /\ Len(symbols) \in Nat /\ d.id \in Ids
        /\ SCOPE_GLOBAL \in Nat
    BY StateFact DEF SCOPE_GLOBAL
  <1>2. /\ p \in 1 .. Len(symbols) /\ symbols[p].id = d.id
        /\ symbols[p].scope = SCOPE_GLOBAL /\ symbols[p].area = "perm"
        /\ Chained(chain', level)
        /\ TableOf(chain', SCOPE_GLOBAL) = Put(TableOf(chain, SCOPE_GLOBAL), d.id, p)
        /\ \A k : k # SCOPE_GLOBAL => TableOf(chain', k) = TableOf(chain, k)
    BY RelocateFact DEF Lasting
  <1>3. PICK r \in Symbols :
          /\ symbols' = [symbols EXCEPT ![p] = r]
          /\ r.id = d.id /\ r.scope = SCOPE_GLOBAL /\ r.area = "perm"
          /\ r.alias = symbols[p].alias /\ r.sclass # "Typedef"
    BY RelocateFact
  <1>4. SameSymbol(symbols[p], r)
    BY <1>2, <1>3 DEF SameSymbol
  <1>5. /\ Keeps(symbols, symbols') /\ Len(symbols') = Len(symbols) /\ symbols'[p] = r
    <2>1. /\ Keeps(symbols, [symbols EXCEPT ![p] = r])
          /\ Len([symbols EXCEPT ![p] = r]) = Len(symbols)
          /\ [symbols EXCEPT ![p] = r][p] = r
      BY <1>1, <1>2, <1>4, ExceptKeeps
    <2> QED BY <1>3, <2>1
  <1>6. Imported(externals', symbols')
    <2>1. Imported(externals, symbols')
      BY <1>1, <1>5, KeepsImported DEF LInv
    <2>2. externals' = [i \in DOMAIN externals \ {d.id} |-> externals[i]]
      BY DEF Relocate, Restrict
    <2>3. externals' \in Names
      <3>1. DOMAIN externals \subseteq Ids /\ externals \in [DOMAIN externals -> Nat \ {0}]
        BY NamesFact DEF LInv, Imported
      <3>2. externals' \in [DOMAIN externals \ {d.id} -> Nat \ {0}]
        BY <2>2, <3>1
      <3> QED BY <3>1, <3>2 DEF Names
    <2> QED BY <2>1, <2>2, <2>3 DEF Imported
  <1>7. p \in 1 .. Len(symbols')
    BY <1>2, <1>5
  <1>8. \A n \in all' : n \in all \/ (n \in 1 .. Len(symbols') /\ symbols'[n].area = "perm")
    BY <1>3, <1>5, <1>7 DEF Relocate
  <1>9. \A n \in Len(symbols) + 1 .. Len(symbols') : AliasedAt(symbols', n)
    BY <1>1, <1>5
  <1>10. Staged'
    BY DEF LInv, Staged
  <1>11. /\ symbols'[p].id = d.id /\ symbols'[p].scope = SCOPE_GLOBAL
         /\ symbols'[p].area = "perm"
         /\ SCOPE_GLOBAL = SCOPE_PARAM => symbols'[p].sclass = "Auto"
    BY <1>3, <1>5 DEF SCOPE_GLOBAL, SCOPE_PARAM
  <1> QED BY <1>1, <1>2, <1>5, <1>6, <1>7, <1>8, <1>9, <1>10, <1>11, DeclareLInv

\* Steps that touch neither tables nor symbols.
LEMMA SameLInv ==
  ASSUME LInv, UNCHANGED <<tables, function, declared>>
  PROVE  LInv'
  BY DEF tables, LInv, Staged

\* The file's first declaration of a name.
LEMMA DeclNewFact ==
  ASSUME LInv, NEW d \in declared, DeclNew(d)
  PROVE  \E r \in Symbols :
           /\ symbols' = Append(symbols, r) /\ r.id = d.id /\ r.scope = SCOPE_GLOBAL
           /\ r.area = "perm" /\ r.alias = 0 /\ r.sclass # "Typedef"
  <1> DEFINE s == Symbol(d.id, d.type, SClass(d), SCOPE_GLOBAL, Permanent)
             r == WithValue(s, d)
  <1>1. /\ d.storage \in Storages /\ d.init \in BOOLEAN /\ d.type \in Types \cup {Fun}
        /\ d.id \in Ids /\ SCOPE_GLOBAL \in Nat
    BY StateFact DEF SCOPE_GLOBAL
  <1>2. SClass(d) \in Classes /\ SClass(d) # "Typedef"
    BY <1>1 DEF SClass, Classes
  <1>3. /\ s \in Symbols /\ s.id = d.id /\ s.scope = SCOPE_GLOBAL /\ s.area = "perm"
        /\ s.alias = 0 /\ s.sclass # "Typedef"
    BY <1>1, <1>2 DEF Symbol, Symbols, Permanent
  <1>4. /\ r \in Symbols /\ r.id = d.id /\ r.scope = SCOPE_GLOBAL /\ r.area = "perm"
        /\ r.alias = 0 /\ r.sclass # "Typedef"
    <2> HIDE DEF s
    <2> QED BY <1>1, <1>3, ClassFact
  <1>5. symbols' = Append(symbols, r)
    BY DEF DeclNew
  <1> HIDE DEF s, r
  <1> QED BY <1>4, <1>5

\* cc_parser_declglobal
LEMMA DeclGlobalLInv ==
  ASSUME LInv, NEW d \in declared, function = "none", DeclGlobal(d)
  PROVE  LInv'
  <1> DEFINE p == Lookup(d.id, chain)
             known == p # 0 /\ symbols[p].scope = SCOPE_GLOBAL
             e == ExternalOf(d.id)
  <1>1. /\ d.storage \in Storages /\ d.init \in BOOLEAN /\ d.type \in Types \cup {Fun}
        /\ d.id \in Ids /\ SCOPE_GLOBAL \in Nat
    BY StateFact DEF SCOPE_GLOBAL
  <1>2. CASE Refuse
    BY <1>2, SameLInv DEF Refuse
  <1>3. CASE /\ known /\ DeclKnown(d, p)
             /\ UNCHANGED <<level, function, code, status, declared>>
    <2>1. p \in 1 .. Len(symbols)
      BY <1>3, FoundFact
    <2> HIDE DEF p
    <2> QED BY <1>3, <2>1, DeclKnownLInv
  <1>4. CASE /\ e # 0 /\ Relocate(d, e)
             /\ UNCHANGED <<level, function, code, status, declared>>
    BY <1>4, RelocateLInv
  <1>5. CASE /\ DeclNew(d)
             /\ UNCHANGED <<level, function, code, status, declared>>
    <2>1. PICK r \in Symbols :
            /\ symbols' = Append(symbols, r) /\ r.id = d.id /\ r.scope = SCOPE_GLOBAL
            /\ r.area = "perm" /\ r.alias = 0 /\ r.sclass # "Typedef"
      BY <1>5, DeclNewFact
    <2>2. /\ chain' = InstallGlobal(d.id, New) /\ all' = all \cup {New}
          /\ UNCHANGED <<level, externals, declared>>
      BY <1>5 DEF DeclNew
    <2>3. Staged'
      BY <1>5 DEF LInv, Staged
    <2> QED BY <2>1, <2>2, <2>3, NewGlobalLInv
  <1> QED BY <1>2, <1>3, <1>4, <1>5 DEF DeclGlobal

LEMMA FileDeclarationLInv ==
  ASSUME LInv, FileDeclaration
  PROVE  LInv'
  <1>1. PICK d \in declared : function = "none" /\ (DeclGlobal(d) \/ Typedef(d))
    BY DEF FileDeclaration
  <1>2. level # SCOPE_PARAM
    BY <1>1 DEF LInv, Staged, SCOPE_GLOBAL, SCOPE_PARAM
  <1> QED BY <1>1, <1>2, DeclGlobalLInv, TypedefLInv

\* An object of a scope, which its symbol stands for.
LEMMA ObjectLInv ==
  ASSUME LInv, NEW d \in declared, NEW r \in Symbols, SCOPE_GLOBAL < level,
         r.id = d.id, r.scope = level, r.area = "temp", r.alias = 0, r.sclass = "Auto",
         symbols' = Append(symbols, r), chain' = Install(d.id, New, level),
         UNCHANGED <<level, externals, all, function, declared>>
  PROVE  LInv'
  <1>1. /\ level \in Nat /\ symbols \in Seq(Symbols) /\ New = Len(symbols) + 1
        /\ New \in Nat \ {0} /\ Len(symbols) \in Nat /\ d.id \in Ids
        /\ SCOPE_GLOBAL <= level
    BY StateFact
  <1>2. Keeps(symbols, symbols') /\ Len(symbols') = New /\ symbols'[New] = r
    BY <1>1, AppendKeeps
  <1>3. \A n \in Len(symbols) + 1 .. Len(symbols') : AliasedAt(symbols', n)
    <2>1. \A n \in Len(symbols) + 1 .. Len(symbols') : n = New
      BY <1>1, <1>2
    <2> QED BY <1>2, <2>1 DEF AliasedAt
  <1>4. /\ Chained(chain', level) /\ TableOf(chain', level) = Put(TableOf(chain, level), d.id, New)
        /\ \A k : k # level => TableOf(chain', k) = TableOf(chain, k)
    BY <1>1, InstallFact DEF LInv
  <1>5. Imported(externals', symbols')
    BY <1>1, <1>2, KeepsImported DEF LInv
  <1>6. New \in 1 .. Len(symbols') /\ level # SCOPE_GLOBAL
    BY <1>1, <1>2 DEF SCOPE_GLOBAL
  <1>7. Staged'
    BY DEF LInv, Staged
  <1>8. \A n \in all' : n \in all
    OBVIOUS
  <1> QED BY <1>1, <1>2, <1>3, <1>4, <1>5, <1>6, <1>7, <1>8, DeclareLInv

LEMMA DeclParamLInv ==
  ASSUME LInv, DeclParam
  PROVE  LInv'
  <1>1. CASE Refuse
    BY <1>1, SameLInv DEF Refuse
  <1>2. ASSUME NEW d \in declared, function = "head",
               symbols' = Append(symbols,
                 [Symbol(d.id, d.type, "Auto", level, "temp") EXCEPT !.defined = TRUE]),
               chain' = Install(d.id, New, level),
               UNCHANGED <<level, externals, all, function, declared>>
        PROVE  LInv'
    <2> DEFINE r == [Symbol(d.id, d.type, "Auto", level, "temp") EXCEPT !.defined = TRUE]
    <2>1. level \in Nat /\ d.id \in Ids /\ d.type \in Types \cup {Fun}
      BY StateFact
    <2>2. /\ r \in Symbols /\ r.id = d.id /\ r.scope = level /\ r.area = "temp" /\ r.alias = 0
          /\ r.sclass = "Auto"
      BY <2>1 DEF Symbol, Symbols, Classes
    <2>3. SCOPE_GLOBAL < level
      BY <1>2 DEF LInv, Staged, SCOPE_GLOBAL, SCOPE_PARAM
    <2>4. symbols' = Append(symbols, r)
      BY <1>2
    <2> HIDE DEF r
    <2> QED BY <1>2, <2>2, <2>3, <2>4, ObjectLInv
  <1> QED BY <1>1, <1>2 DEF DeclParam

\* The function's symbol when its definition begins.
LEMMA AsFunctionFact ==
  ASSUME NEW d, d.storage \in Storages \ {"typedef"}, NEW s \in Symbols
  PROVE  /\ AsFunction(s, d) \in Symbols
         /\ AsFunction(s, d).id = s.id /\ AsFunction(s, d).scope = s.scope
         /\ AsFunction(s, d).alias = s.alias /\ AsFunction(s, d).area = s.area
         /\ AsFunction(s, d).type = s.type /\ AsFunction(s, d).sclass # "Typedef"
  <1> DEFINE sclass == CASE d.storage = "inline" -> "Static" [] d.storage = "none" -> "Unknown"
                         [] OTHER -> SClass(d)
             hidden == OmitInline /\ d.storage = "inline"
  <1>1. sclass \in Classes \ {"Typedef"}
    <2>1. SClass(d) \in {"External", "Static", "Auto"}
      BY DEF SClass
    <2> QED BY <2>1 DEF Classes, Storages
  <1>2. hidden \in BOOLEAN
    BY LinkageAssumption
  <1>3. AsFunction(s, d) = [s EXCEPT !.sclass = sclass, !.defined = TRUE, !.hidden = hidden]
    BY DEF AsFunction
  <1> HIDE DEF sclass, hidden
  <1> QED BY <1>1, <1>2, <1>3 DEF Symbols

LEMMA FuncDefinitionLInv ==
  ASSUME LInv, FuncDefinition
  PROVE  LInv'
  <1>1. CASE Refuse
    BY <1>1, SameLInv DEF Refuse
  <1>2. ASSUME NEW d \in declared, NEW p, p = GlobalOf(d.id), function = "head",
               d.storage # "typedef",
               IF p # 0
               THEN /\ symbols' = [symbols EXCEPT ![p] = AsFunction(@, d)]
                    /\ UNCHANGED <<chain, all>>
               ELSE /\ symbols' = Append(symbols,
                         AsFunction(Symbol(d.id, Fun, "Unknown", SCOPE_GLOBAL, Permanent), d))
                    /\ chain' = InstallGlobal(d.id, New)
                    /\ all' = all \cup {New},
               function' \in {"omitted", "body"},
               UNCHANGED <<level, externals, declared>>
        PROVE  LInv'
    <2>1. /\ d.storage \in Storages \ {"typedef"} /\ d.id \in Ids /\ SCOPE_GLOBAL \in Nat
      BY <1>2, StateFact DEF SCOPE_GLOBAL
    <2>2. Staged'
      BY <1>2 DEF LInv, Staged, SCOPE_PARAM
    <2>3. CASE p # 0
      <3> DEFINE r == AsFunction(symbols[p], d)
      <3>1. p \in 1 .. Len(symbols) /\ symbols[p].scope = SCOPE_GLOBAL
        BY <1>2, <2>3, GlobalFound
      <3>2. symbols[p] \in Symbols
        BY <3>1, StateFact
      <3>3. r \in Symbols /\ SameSymbol(symbols[p], r)
        <4>1. /\ r \in Symbols /\ r.id = symbols[p].id /\ r.scope = symbols[p].scope
              /\ r.alias = symbols[p].alias /\ r.area = symbols[p].area /\ r.sclass # "Typedef"
          BY <2>1, <3>2, AsFunctionFact
        <4> HIDE DEF r
        <4> QED BY <3>1, <4>1 DEF SameSymbol
      <3>4. symbols' = [symbols EXCEPT ![p] = r]
        BY <1>2, <2>3
      <3> HIDE DEF r
      <3>5. UNCHANGED <<level, chain, externals, all, declared>>
        BY <1>2, <2>3
      <3> QED BY <2>2, <3>1, <3>3, <3>4, <3>5, ChangeLInv
    <2>4. CASE p = 0
      <3> DEFINE s == Symbol(d.id, Fun, "Unknown", SCOPE_GLOBAL, Permanent)
                 r == AsFunction(s, d)
      <3>1. s \in Symbols /\ s.id = d.id /\ s.scope = SCOPE_GLOBAL /\ s.area = "perm" /\ s.alias = 0
        BY <2>1 DEF Symbol, Symbols, Classes, Permanent
      <3>2. symbols' = Append(symbols, r)
        BY <1>2, <2>4
      <3> HIDE DEF s
      <3>3. r \in Symbols /\ r.id = d.id /\ r.scope = SCOPE_GLOBAL /\ r.area = "perm" /\ r.alias = 0
        BY <2>1, <3>1, AsFunctionFact
      <3> HIDE DEF r
      <3> QED BY <1>2, <2>2, <2>4, <3>2, <3>3, NewGlobalLInv
    <2> QED BY <2>3, <2>4
  <1> QED BY <1>1, <1>2 DEF FuncDefinition

\* Scopes that are entered and left.
LEMMA EnterLInv ==
  ASSUME LInv, FunctionDeclarator \/ EnterBlock
  PROVE  LInv'
  <1>1. /\ level' = level + 1 /\ level \in Nat
        /\ UNCHANGED <<chain, externals, all, symbols, declared>>
    BY StateFact DEF FunctionDeclarator, EnterBlock
  <1>2. Staged'
    BY <1>1 DEF LInv, Staged, FunctionDeclarator, EnterBlock, InBody, SCOPE_GLOBAL, SCOPE_PARAM
  <1>3. Chained(chain', level')
    <2>1. \A n \in 1 .. Len(chain) : chain[n].level \in Nat /\ chain[n].level <= level
      BY <1>1, ChainFact DEF LInv
    <2>2. \A n \in 1 .. Len(chain) : chain[n].level <= level + 1
      BY <1>1, <2>1
    <2> QED BY <1>1, <2>2 DEF LInv, Chained
  <1> QED BY <1>1, <1>2, <1>3 DEF LInv

\* The tables that are left are those the outer levels had.
LEMMA LeaveListed ==
  ASSUME LInv, SCOPE_GLOBAL < level, chain' = ExitScope, level' = level - 1
  PROVE  /\ Chained(chain', level') /\ Listed(chain', symbols)
         /\ \A l \in Nat : l >= level => DOMAIN TableOf(chain', l) = {}
  <1>1. level \in Nat /\ Chained(chain, level) /\ Listed(chain, symbols)
    BY StateFact DEF LInv
  <1>2. /\ Chained(ExitScope, level - 1)
        /\ \A k \in Nat : k # level => TableOf(ExitScope, k) = TableOf(chain, k)
        /\ \A k \in Nat : k >= level => TableOf(ExitScope, k) = NoNames
    BY <1>1, ExitScopeFact
  <1>3. \A k \in Nat : k >= level => DOMAIN TableOf(ExitScope, k) = {}
    BY <1>2, NoNamesFact
  <1>4. \A k \in Nat : k = level => k >= level
    BY <1>1
  <1>5. Listed(ExitScope, symbols)
    BY <1>1, <1>2, <1>3, <1>4 DEF Listed
  <1> QED BY <1>2, <1>3, <1>5

LEMMA LeaveLInv ==
  ASSUME LInv, Prototype \/ LeaveBlock \/ LeaveBody
  PROVE  LInv'
  <1>1. /\ level' = level - 1 /\ chain' = ExitScope /\ level \in Nat /\ SCOPE_GLOBAL < level
        /\ UNCHANGED <<externals, all, symbols, declared>>
    BY StateFact DEF Prototype, LeaveBlock, LeaveBody, LInv, Staged, SCOPE_GLOBAL, SCOPE_PARAM,
                     SCOPE_LOCAL
  <1>2. Staged'
    BY <1>1 DEF LInv, Staged, Prototype, LeaveBlock, LeaveBody, InBody, SCOPE_GLOBAL, SCOPE_PARAM,
                SCOPE_LOCAL
  <1> QED BY <1>1, <1>2, LeaveListed DEF LInv

\* The end of a function frees the temporary area: the tables that held its
\* symbols are gone, and nothing else leads to them.
LEMMA EndFunctionLInv ==
  ASSUME LInv, EndFunction
  PROVE  LInv'
  <1>1. /\ level' = level - 1 /\ chain' = ExitScope /\ level \in Nat /\ SCOPE_GLOBAL < level
        /\ level = SCOPE_GLOBAL + 1 /\ symbols' = FreeTemporary
        /\ UNCHANGED <<externals, all, declared>>
        /\ symbols \in Seq(Symbols) /\ Len(symbols) \in Nat
    BY StateFact DEF EndFunction, LInv, Staged, SCOPE_GLOBAL, SCOPE_PARAM
  <1>2. Staged'
    BY <1>1 DEF LInv, Staged, EndFunction, SCOPE_GLOBAL, SCOPE_PARAM
  <1>3. /\ symbols' \in Seq(Symbols) /\ Len(symbols') = Len(symbols)
        /\ \A n \in 1 .. Len(symbols) :
             /\ symbols'[n].id = symbols[n].id /\ symbols'[n].scope = symbols[n].scope
             /\ symbols'[n].sclass = symbols[n].sclass /\ symbols'[n].alias = symbols[n].alias
             /\ symbols[n].area = "perm" => symbols'[n].area = "perm"
    <2> DEFINE s(n) == [symbols[n] EXCEPT !.area = IF @ = "temp" THEN "freed" ELSE @]
    <2>1. symbols' = [n \in 1 .. Len(symbols) |-> s(n)]
      BY <1>1 DEF FreeTemporary
    <2>2. ASSUME NEW n \in 1 .. Len(symbols)
          PROVE  /\ s(n) \in Symbols
                 /\ s(n).id = symbols[n].id /\ s(n).scope = symbols[n].scope
                 /\ s(n).sclass = symbols[n].sclass /\ s(n).alias = symbols[n].alias
                 /\ symbols[n].area = "perm" => s(n).area = "perm"
      <3>1. symbols[n] \in Symbols
        BY StateFact
      <3> QED BY <3>1 DEF Symbols
    <2> HIDE DEF s
    <2>3. symbols' \in [1 .. Len(symbols) -> Symbols]
      BY <2>1, <2>2
    <2>4. symbols' \in Seq(Symbols) /\ Len(symbols') = Len(symbols)
      BY <1>1, <2>3, SeqDef, LenProperties
    <2> QED BY <2>1, <2>2, <2>4
  <1>4. \A n : Lasting(symbols, n) => Lasting(symbols', n) /\ symbols'[n].id = symbols[n].id
    BY <1>3 DEF Lasting
  <1>5. /\ Chained(chain', level') /\ Listed(chain', symbols)
        /\ \A l \in Nat : l >= level => DOMAIN TableOf(chain', l) = {}
    BY <1>1, LeaveListed
  <1>6. Listed(chain', symbols')
    <2> SUFFICES ASSUME NEW l \in Nat, NEW i \in DOMAIN TableOf(chain', l),
                        NEW p, p = TableOf(chain', l)[i]
                 PROVE  /\ p \in 1 .. Len(symbols')
                        /\ symbols'[p].id = i
                        /\ symbols'[p].scope = l
                        /\ symbols'[p].area = (IF l = SCOPE_GLOBAL THEN "perm" ELSE "temp")
                        /\ l = SCOPE_PARAM => symbols'[p].sclass = "Auto"
      BY DEF Listed
    <2>1. ~(l >= level)
      BY <1>5
    <2>2. l <= SCOPE_GLOBAL
      BY <1>1, <2>1 DEF SCOPE_GLOBAL
    <2>3. /\ p \in 1 .. Len(symbols) /\ symbols[p].id = i /\ symbols[p].scope = l
          /\ symbols[p].area = (IF l = SCOPE_GLOBAL THEN "perm" ELSE "temp")
      BY <1>5 DEF Listed
    <2>4. l = SCOPE_GLOBAL
      <3>1. HasTable(chain', l)
        BY <1>1, <1>5, TableFact, NoNamesFact
      <3>2. PICK n \in 1 .. Len(chain') : chain'[n].level = l
        BY <3>1 DEF HasTable
      <3>3. level' \in Nat
        BY <1>2 DEF Staged
      <3>4. SCOPE_GLOBAL <= l
        BY <1>5, <3>2, <3>3, ChainFact
      <3> QED BY <2>2, <3>4 DEF SCOPE_GLOBAL
    <2> QED BY <1>3, <2>3, <2>4 DEF SCOPE_GLOBAL, SCOPE_PARAM
  <1>7. Aliased(symbols')
    <2> SUFFICES ASSUME NEW n \in 1 .. Len(symbols) PROVE AliasedAt(symbols', n)
      BY <1>3 DEF Aliased, AliasedAt
    <2>1. AliasedAt(symbols, n)
      BY DEF LInv, Aliased, AliasedAt
    <2> QED BY <1>3, <1>4, <2>1 DEF AliasedAt
  <1>8. Imported(externals', symbols')
    BY <1>1, <1>4 DEF LInv, Imported
  <1>9. \A n \in all' : n \in 1 .. Len(symbols') /\ symbols'[n].area = "perm"
    BY <1>1, <1>3 DEF LInv
  <1> QED BY <1>1, <1>2, <1>3, <1>5, <1>6, <1>7, <1>8, <1>9 DEF LInv

\* The symbol of the file that a block's extern stands for.
LEMMA FileSymbolFact ==
  ASSUME LInv, NEW i, NEW q, q = FileSymbol(i), q # 0
  PROVE  Lasting(symbols, q) /\ symbols[q].id = i
  <1>1. CASE q = GlobalOf(i) /\ symbols[q].sclass # "Typedef"
    BY <1>1, GlobalFound DEF Lasting
  <1>2. CASE q = ExternalOf(i)
    BY <1>2 DEF ExternalOf, LInv, Imported
  <1> QED BY <1>1, <1>2 DEF FileSymbol

\* A declaration of a block whose symbol leads to one of the file.
LEMMA LinkedLInv ==
  ASSUME LInv, NEW d \in declared, SCOPE_PARAM < level, Keeps(symbols, symbols'),
         \A n \in Len(symbols) + 1 .. Len(symbols') : AliasedAt(symbols', n),
         New \in 1 .. Len(symbols'),
         symbols'[New].id = d.id, symbols'[New].scope = level, symbols'[New].area = "temp",
         chain' = Install(d.id, New, level), Imported(externals', symbols'),
         \A n \in all' : n \in all \/ (n \in 1 .. Len(symbols') /\ symbols'[n].area = "perm"),
         UNCHANGED <<level, function, declared>>
  PROVE  LInv'
  <1>1. /\ level \in Nat /\ New \in Nat \ {0} /\ d.id \in Ids /\ SCOPE_GLOBAL <= level
        /\ level # SCOPE_GLOBAL /\ level # SCOPE_PARAM
    BY StateFact DEF SCOPE_GLOBAL, SCOPE_PARAM
  <1>2. /\ Chained(chain', level) /\ TableOf(chain', level) = Put(TableOf(chain, level), d.id, New)
        /\ \A k : k # level => TableOf(chain', k) = TableOf(chain, k)
    BY <1>1, InstallFact DEF LInv
  <1>3. Staged'
    BY DEF LInv, Staged
  <1> QED BY <1>1, <1>2, <1>3, DeclareLInv

\* extern in a block
LEMMA DeclExternLInv ==
  ASSUME LInv, NEW d \in declared, SCOPE_PARAM < level, DeclExtern(d)
  PROVE  LInv'
  <1> DEFINE q == FileSymbol(d.id)
             alias == IF q # 0 THEN q ELSE New + 1
             symbol == [LocalSymbol(d, "External") EXCEPT !.alias = alias]
             external == Symbol(d.id, d.type, "External", SCOPE_GLOBAL, Permanent)
  <1>1. CASE Refuse
    BY <1>1, SameLInv DEF Refuse
  <1>2. ASSUME symbols' = symbols \o (IF q # 0 THEN <<symbol>> ELSE <<symbol, external>>),
               externals' = IF q # 0 THEN externals ELSE Put(externals, d.id, alias),
               chain' = Install(d.id, New, level),
               UNCHANGED <<level, all, function, declared>>
        PROVE  LInv'
    <2>1. /\ level \in Nat /\ symbols \in Seq(Symbols) /\ New = Len(symbols) + 1
          /\ New \in Nat \ {0} /\ Len(symbols) \in Nat /\ d.id \in Ids
          /\ d.type \in Types \cup {Fun} /\ SCOPE_GLOBAL \in Nat
      BY StateFact DEF SCOPE_GLOBAL
    <2>2. q # 0 => Lasting(symbols, q) /\ symbols[q].id = d.id
      BY FileSymbolFact
    <2>3. alias \in Nat \ {0}
      BY <2>1, <2>2 DEF Lasting
    <2>4. (q # 0 => alias = q) /\ (q = 0 => alias = New + 1)
      OBVIOUS
    <2> HIDE DEF q, alias
    <2>5. /\ symbol \in Symbols /\ symbol.id = d.id /\ symbol.scope = level
          /\ symbol.area = "temp" /\ symbol.alias = alias /\ symbol.sclass = "External"
      BY <2>1, <2>3 DEF LocalSymbol, Symbol, Symbols, Classes
    <2>6. /\ external \in Symbols /\ external.id = d.id /\ external.scope = SCOPE_GLOBAL
          /\ external.area = "perm" /\ external.alias = 0 /\ external.sclass = "External"
      BY <2>1 DEF Symbol, Symbols, Classes, Permanent
    <2> HIDE DEF symbol, external
    <2>7. CASE q # 0
      <3>1. symbols' = Append(symbols, symbol)
        BY <1>2, <2>7
      <3>2. Keeps(symbols, symbols') /\ Len(symbols') = New /\ symbols'[New] = symbol
        BY <2>1, <2>5, <3>1, AppendKeeps
      <3>3. Lasting(symbols', alias) /\ symbols'[alias].id = d.id
        BY <2>1, <2>2, <2>4, <2>7, <3>2, KeepsLasting
      <3>4. \A n \in Len(symbols) + 1 .. Len(symbols') : AliasedAt(symbols', n)
        <4>1. \A n \in Len(symbols) + 1 .. Len(symbols') : n = New
          BY <2>1, <3>2
        <4>2. AliasedAt(symbols', New)
          BY <2>3, <2>5, <3>2, <3>3 DEF AliasedAt
        <4> QED BY <4>1, <4>2
      <3>5. Imported(externals', symbols')
        BY <1>2, <2>1, <2>7, <3>2, KeepsImported DEF LInv
      <3>6. New \in 1 .. Len(symbols')
        BY <2>1, <3>2
      <3> QED BY <1>2, <2>5, <3>2, <3>4, <3>5, <3>6, LinkedLInv
    <2>8. CASE q = 0
      <3>1. symbols' = symbols \o <<symbol, external>>
        BY <1>2, <2>8
      <3>2. /\ Keeps(symbols, symbols') /\ Len(symbols') = Len(symbols) + 2
            /\ symbols'[Len(symbols) + 1] = symbol /\ symbols'[Len(symbols) + 2] = external
        BY <2>1, <2>5, <2>6, <3>1, PairKeeps
      <3>3. /\ Len(symbols') = New + 1 /\ symbols'[New] = symbol /\ symbols'[New + 1] = external
            /\ New \in 1 .. Len(symbols') /\ New + 1 \in 1 .. Len(symbols')
            /\ \A n \in Len(symbols) + 1 .. Len(symbols') : n = New \/ n = New + 1
        <4>1. New + 1 = Len(symbols) + 2
          BY <2>1
        <4> QED BY <2>1, <3>2, <4>1
      <3>4. Lasting(symbols', alias) /\ symbols'[alias].id = d.id
        BY <2>4, <2>6, <2>8, <3>3 DEF Lasting
      <3>5. \A n \in Len(symbols) + 1 .. Len(symbols') : AliasedAt(symbols', n)
        <4>1. AliasedAt(symbols', New)
          BY <2>3, <2>5, <3>3, <3>4 DEF AliasedAt
        <4>2. AliasedAt(symbols', New + 1)
          BY <2>6, <3>3 DEF AliasedAt, SCOPE_GLOBAL, SCOPE_PARAM
        <4> QED BY <3>3, <4>1, <4>2
      <3>6. Imported(externals', symbols')
        <4>1. externals \in Names /\ Imported(externals, symbols')
          BY <2>1, <3>2, KeepsImported DEF LInv, Imported
        <4>2. /\ externals' \in Names /\ DOMAIN externals' = DOMAIN externals \cup {d.id}
              /\ externals'[d.id] = alias
              /\ \A j \in DOMAIN externals \ {d.id} : externals'[j] = externals[j]
          <5>1. externals' = Put(externals, d.id, alias)
            BY <1>2, <2>8
          <5>2. externals \in Names /\ d.id \in Ids /\ alias \in Nat \ {0}
            BY <2>1, <2>3, <4>1
          <5>3. /\ Put(externals, d.id, alias) \in Names
                /\ DOMAIN Put(externals, d.id, alias) = DOMAIN externals \cup {d.id}
                /\ Put(externals, d.id, alias)[d.id] = alias
                /\ \A j \in DOMAIN externals \ {d.id} :
                     Put(externals, d.id, alias)[j] = externals[j]
            BY <5>2, PutFact, ZenonT(40)
          <5> DEFINE added == Put(externals, d.id, alias)
          <5>4. /\ added \in Names /\ DOMAIN added = DOMAIN externals \cup {d.id}
                /\ added[d.id] = alias
                /\ \A j \in DOMAIN externals \ {d.id} : added[j] = externals[j]
            BY <5>3
          <5>5. externals' = added
            BY <5>1
          <5> HIDE DEF added
          <5> QED BY <5>4, <5>5
        <4> QED BY <3>4, <4>1, <4>2 DEF Imported
      <3>7. \A n \in all' : n \in all
        BY <1>2
      <3> QED BY <1>2, <2>5, <3>2, <3>3, <3>5, <3>6, <3>7, LinkedLInv
    <2> QED BY <2>7, <2>8
  <1> QED BY <1>1, <1>2 DEF DeclExtern

\* static in a block
LEMMA DeclStaticLInv ==
  ASSUME LInv, NEW d \in declared, SCOPE_PARAM < level, DeclStatic(d)
  PROVE  LInv'
  <1> DEFINE alias == New + 1
             symbol == [LocalSymbol(d, "Static") EXCEPT !.alias = alias, !.defined = TRUE]
             object == [Symbol(Generated, d.type, "Static", SCOPE_GLOBAL, Permanent)
                          EXCEPT !.value = d.init]
  <1>1. /\ level \in Nat /\ symbols \in Seq(Symbols) /\ New = Len(symbols) + 1
        /\ New \in Nat \ {0} /\ Len(symbols) \in Nat /\ d.id \in Ids
        /\ d.type \in Types \cup {Fun} /\ d.init \in BOOLEAN /\ SCOPE_GLOBAL \in Nat
    BY StateFact DEF SCOPE_GLOBAL
  <1>2. /\ symbols' = symbols \o <<symbol, object>> /\ all' = all \cup {New + 1}
        /\ chain' = Install(d.id, New, level) /\ UNCHANGED <<level, externals, function, declared>>
    BY DEF DeclStatic
  <1>3. /\ symbol \in Symbols /\ symbol.id = d.id /\ symbol.scope = level
        /\ symbol.area = "temp" /\ symbol.alias = New + 1 /\ symbol.sclass = "Static"
    <2>1. alias \in Nat /\ alias = New + 1
      BY <1>1
    <2> HIDE DEF alias
    <2> QED BY <1>1, <2>1 DEF LocalSymbol, Symbol, Symbols, Classes
  <1>4. /\ object \in Symbols /\ object.id = Generated /\ object.scope = SCOPE_GLOBAL
        /\ object.area = "perm" /\ object.alias = 0 /\ object.sclass = "Static"
    BY <1>1 DEF Symbol, Symbols, Classes, Permanent
  <1> HIDE DEF symbol, object
  <1>5. /\ Keeps(symbols, symbols') /\ Len(symbols') = Len(symbols) + 2
        /\ symbols'[Len(symbols) + 1] = symbol /\ symbols'[Len(symbols) + 2] = object
    BY <1>1, <1>2, <1>3, <1>4, PairKeeps
  <1>6. /\ Len(symbols') = New + 1 /\ symbols'[New] = symbol /\ symbols'[New + 1] = object
        /\ New \in 1 .. Len(symbols') /\ New + 1 \in 1 .. Len(symbols')
        /\ \A n \in Len(symbols) + 1 .. Len(symbols') : n = New \/ n = New + 1
    <2>1. New + 1 = Len(symbols) + 2
      BY <1>1
    <2> QED BY <1>1, <1>5, <2>1
  <1>7. Lasting(symbols', New + 1) /\ symbols'[New + 1].id = Generated
    BY <1>4, <1>6 DEF Lasting
  <1>8. \A n \in Len(symbols) + 1 .. Len(symbols') : AliasedAt(symbols', n)
    <2>1. AliasedAt(symbols', New)
      BY <1>1, <1>3, <1>6, <1>7 DEF AliasedAt
    <2>2. AliasedAt(symbols', New + 1)
      BY <1>4, <1>6 DEF AliasedAt, SCOPE_GLOBAL, SCOPE_PARAM
    <2> QED BY <1>6, <2>1, <2>2
  <1>9. Imported(externals', symbols')
    BY <1>1, <1>2, <1>5, KeepsImported DEF LInv
  <1>10. \A n \in all' : n \in all \/ (n \in 1 .. Len(symbols') /\ symbols'[n].area = "perm")
    BY <1>2, <1>4, <1>6
  <1> QED BY <1>2, <1>3, <1>5, <1>6, <1>8, <1>9, <1>10, LinkedLInv

LEMMA DeclAutoLInv ==
  ASSUME LInv, NEW d \in declared, SCOPE_PARAM < level, DeclAuto(d)
  PROVE  LInv'
  <1> DEFINE r == [LocalSymbol(d, "Auto") EXCEPT !.defined = TRUE]
  <1>1. level \in Nat /\ d.id \in Ids /\ d.type \in Types \cup {Fun}
    BY StateFact
  <1>2. /\ r \in Symbols /\ r.id = d.id /\ r.scope = level /\ r.area = "temp" /\ r.alias = 0
        /\ r.sclass = "Auto"
    BY <1>1 DEF LocalSymbol, Symbol, Symbols, Classes
  <1>3. SCOPE_GLOBAL < level
    BY <1>1 DEF SCOPE_GLOBAL, SCOPE_PARAM
  <1>4. /\ symbols' = Append(symbols, r) /\ chain' = Install(d.id, New, level)
        /\ UNCHANGED <<level, externals, all, function, declared>>
    BY DEF DeclAuto
  <1> HIDE DEF r
  <1> QED BY <1>2, <1>3, <1>4, ObjectLInv

LEMMA BlockDeclarationLInv ==
  ASSUME LInv, BlockDeclaration
  PROVE  LInv'
  <1>1. PICK d \in declared : level >= SCOPE_LOCAL /\ (DeclLocal(d) \/ Typedef(d))
    BY DEF BlockDeclaration
  <1>2. SCOPE_PARAM < level /\ level # SCOPE_PARAM
    BY <1>1, StateFact DEF SCOPE_PARAM, SCOPE_LOCAL
  <1>3. CASE Typedef(d)
    BY <1>2, <1>3, TypedefLInv
  <1>4. CASE DeclLocal(d)
    <2>1. Refuse \/ DeclExtern(d) \/ DeclStatic(d) \/ DeclAuto(d)
      <3>1. LocalStorage(d) \in Storages
        BY StateFact DEF LocalStorage, Storages
      <3>2. LocalStorage(d) \in {"inline", "extern", "static", "none"}
        BY <1>4, <3>1 DEF LocalStorage, DeclLocal, Storages
      <3> QED BY <1>4, <3>2 DEF DeclLocal
    <2>2. Refuse => LInv'
      BY SameLInv DEF Refuse
    <2> QED BY <1>2, <2>1, <2>2, DeclExternLInv, DeclStaticLInv, DeclAutoLInv
  <1> QED BY <1>1, <1>3, <1>4

\* A use marks the symbol.
LEMMA IdentifierLInv ==
  ASSUME LInv, Identifier
  PROVE  LInv'
  <1>1. CASE Refuse
    BY <1>1, SameLInv DEF Refuse
  <1>2. ASSUME NEW i, NEW p, p = Lookup(i, chain), p # 0,
               symbols' = [symbols EXCEPT ![p].used = @ \/ function # "omitted"],
               UNCHANGED <<level, chain, externals, all, function, declared>>
        PROVE  LInv'
    <2> DEFINE used == symbols[p].used \/ function # "omitted"
               r == [symbols[p] EXCEPT !.used = used]
    <2>1. p \in 1 .. Len(symbols)
      BY <1>2, FoundFact
    <2>2. symbols[p] \in Symbols
      BY <2>1, StateFact
    <2>3. symbols' = [symbols EXCEPT ![p] = r]
      BY <1>2
    <2>4. used \in BOOLEAN
      OBVIOUS
    <2> HIDE DEF used
    <2>5. r \in Symbols /\ SameSymbol(symbols[p], r)
      BY <2>2, <2>4 DEF Symbols, SameSymbol
    <2>6. Staged'
      BY <1>2 DEF LInv, Staged
    <2> HIDE DEF r
    <2> QED BY <1>2, <2>1, <2>3, <2>5, <2>6, ChangeLInv
  <1> QED BY <1>1, <1>2 DEF Identifier

LEMMA StepLInv ==
  ASSUME LInv, [Next]_vars
  PROVE  LInv'
  <1>1. (EndOfFile \/ UNCHANGED vars) => LInv'
    BY SameLInv DEF EndOfFile, vars
  <1> QED BY <1>1, FileDeclarationLInv, EnterLInv, DeclParamLInv, LeaveLInv, FuncDefinitionLInv,
             EndFunctionLInv, BlockDeclarationLInv, IdentifierLInv DEF Next

LEMMA InitLInv == Init => LInv
  <1> SUFFICES ASSUME Init PROVE LInv
    OBVIOUS
  <1> DEFINE t == [level |-> SCOPE_GLOBAL, names |-> NoNames]
  <1>1. /\ chain = <<t>> /\ t \in Tables /\ t.level = SCOPE_GLOBAL /\ t.names = NoNames
    BY NoNamesFact DEF Init, Tables, SCOPE_GLOBAL, NoNames
  <1> HIDE DEF t
  <1>2. chain \in Seq(Tables) /\ Len(chain) = 1 /\ chain[1] = t
    BY <1>1
  <1>3. level = SCOPE_GLOBAL /\ level \in Nat /\ symbols = <<>>
    BY DEF Init, SCOPE_GLOBAL
  <1>4. Chained(chain, level)
    BY <1>1, <1>2, <1>3 DEF Chained
  <1>5. Listed(chain, symbols)
    <2>1. ASSUME NEW l \in Nat PROVE DOMAIN TableOf(chain, l) = {}
      <3>1. CASE l = SCOPE_GLOBAL
        <4>1. TableOf(chain, chain[1].level) = chain[1].names
          BY <1>2, <1>3, <1>4, TableFact
        <4> QED BY <1>1, <1>2, <3>1, <4>1, NoNamesFact
      <3>2. CASE l # SCOPE_GLOBAL
        <4>1. ~HasTable(chain, l)
          BY <1>1, <1>2, <3>2 DEF HasTable
        <4> QED BY <1>3, <1>4, <4>1, TableFact, NoNamesFact
      <3> QED BY <3>1, <3>2
    <2> QED BY <2>1 DEF Listed
  <1>6. Imported(externals, symbols)
    BY NoNamesFact DEF Init, NoNames, Imported
  <1>7. Staged /\ declared \in Programs /\ all = {}
    BY <1>3 DEF Init, Staged
  <1>8. symbols \in Seq(Symbols) /\ Aliased(symbols)
    BY <1>3 DEF Aliased
  <1> QED BY <1>3, <1>4, <1>5, <1>6, <1>7, <1>8 DEF LInv

\* The tables, the symbols and what leads from one to the other are as the
\* invariant says, whatever the file declares.
THEOREM LinkageInductive == Spec => []LInv
  <1>1. LInv /\ [Next]_vars => LInv'
    BY StepLInv
  <1> QED BY <1>1, InitLInv, PTL DEF Spec

-----------------------------------------------------------------------------
(* What the invariant is for.                                              *)

\* Nothing that a look-up or the end of the file comes to has been freed with
\* the temporary area of a function (cc_mm_free in cc_parser_funcdefinition).
THEOREM NothingFreed == Spec => []Kept
  <1>1. LInv => Kept
    <2> SUFFICES ASSUME LInv PROVE Kept
      OBVIOUS
    <2> DEFINE found == (UNION {Range(chain[n].names) : n \in DOMAIN chain}) \cup Range(externals) \cup all
    <2>1. ASSUME NEW n \in found PROVE n \in 1 .. Len(symbols) /\ symbols[n].area # "freed"
      <3>1. CASE n \in all
        BY <3>1 DEF LInv
      <3>2. CASE n \in Range(externals)
        BY <3>2 DEF LInv, Imported, Lasting, Range
      <3>3. CASE \E m \in DOMAIN chain : n \in Range(chain[m].names)
        <4>1. PICK m \in DOMAIN chain : n \in Range(chain[m].names)
          BY <3>3
        <4>2. m \in 1 .. Len(chain) /\ chain[m].level \in Nat
          BY <4>1, StateFact, ChainFact DEF LInv
        <4>3. TableOf(chain, chain[m].level) = chain[m].names
          BY <4>2, StateFact, TableFact DEF LInv
        <4>4. PICK i \in DOMAIN chain[m].names : n = chain[m].names[i]
          BY <4>1 DEF Range
        <4>5. Listed(chain, symbols)
          BY DEF LInv
        <4> QED BY <4>2, <4>3, <4>4, <4>5 DEF Listed
      <3>4. \/ \E m \in DOMAIN chain : n \in Range(chain[m].names)
            \/ n \in Range(externals) \/ n \in all
        OBVIOUS
      <3> QED BY <3>1, <3>2, <3>3, <3>4
    <2> HIDE DEF found
    <2>2. ASSUME NEW m \in found, symbols[m].alias # 0
          PROVE  symbols[symbols[m].alias].area # "freed"
      BY <2>1, <2>2 DEF LInv, Aliased, Lasting
    <2>3. \A n \in found \cup {symbols[m].alias : m \in found} : n # 0 => symbols[n].area # "freed"
      BY <2>1, <2>2
    <2> QED BY <2>3 DEF Kept, found
  <1> QED BY <1>1, LinkageInductive, PTL

-----------------------------------------------------------------------------
(* The scopes of a program, from the tables.                               *)

CodeOf(syms, p) ==
  IF syms[p].scope > SCOPE_PARAM /\ syms[p].sclass \in {"External", "Static"}
  THEN syms[p].alias ELSE p

ThingOf(syms, n) ==
  IF syms[n].sclass = "Typedef" THEN syms[n].type
  ELSE IF syms[n].scope <= SCOPE_GLOBAL /\ syms[n].id # Generated THEN syms[n].id
  ELSE n

\* What a name stands for whose symbol is p.
Stands(syms, p) == ThingOf(syms, CodeOf(syms, p))

ScopeOf(c, syms, l) == [i \in DOMAIN TableOf(c, l) |-> Stands(syms, TableOf(c, l)[i])]
Stack(c, syms, l) == [n \in 1 .. l - 2 |-> ScopeOf(c, syms, n + 2)]
Meanings(c, syms) ==
  [i \in Ids |-> IF Lookup(i, c) = 0 THEN Nothing ELSE Stands(syms, Lookup(i, c))]

LEMMA MeantMax == \A S : Meant!Max(S) = Max(S)
  BY DEF Meant!Max, Max

\* The refinement mapping is these, whatever part of the chain has a table.
Mapped ==
  /\ InScope = Stack(chain, symbols, level)
  /\ Denoted = Meanings(chain, symbols)

LEMMA NowFact == LInv => Mapped
  <1> SUFFICES ASSUME LInv PROVE Mapped
    OBVIOUS
  <1>1. \A p : Thing(CodeSymbol(p)) = Stands(symbols, p)
    BY DEF Thing, CodeSymbol, Stands, ThingOf, CodeOf
  <1>2. Denoted = Meanings(chain, symbols)
    BY <1>1 DEF Denoted, Meanings
  <1>3. ASSUME NEW l \in Nat PROVE NamesAt(l) = ScopeOf(chain, symbols, l)
    <2> DEFINE tabs == {n \in DOMAIN chain : chain[n].level = l}
    <2>1. /\ level \in Nat /\ Chained(chain, level) /\ DOMAIN chain = 1 .. Len(chain)
          /\ Len(chain) \in Nat
      BY StateFact, ChainFact DEF LInv
    <2>2. CASE tabs = {}
      <3>1. DOMAIN TableOf(chain, l) = {}
        BY <2>1, <2>2, TableFact, NoNamesFact DEF HasTable
      <3>2. NamesAt(l) = [i \in {} |-> Nothing]
        BY <2>2 DEF NamesAt
      <3> QED BY <3>1, <3>2 DEF ScopeOf
    <2>3. CASE tabs # {}
      <3>1. tabs \in SUBSET (0 .. Len(chain))
        BY <2>1
      <3>2. Max(tabs) \in tabs
        <4> HIDE DEF tabs
        <4> QED BY <2>1, <2>3, <3>1, MaxFact
      <3> DEFINE m == Max(tabs)
      <3>3. m \in 1 .. Len(chain) /\ chain[m].level = l
        BY <2>1, <3>2
      <3>4. NamesAt(l) = [i \in DOMAIN chain[m].names |-> Thing(CodeSymbol(chain[m].names[i]))]
        BY <2>3 DEF NamesAt
      <3> HIDE DEF m
      <3>5. TableOf(chain, l) = chain[m].names
        BY <2>1, <3>3, TableFact
      <3> QED BY <1>1, <3>4, <3>5 DEF ScopeOf
    <2> QED BY <2>2, <2>3
  <1>4. level \in Nat
    BY StateFact
  <1>5. InScope = Stack(chain, symbols, level)
    <2>1. InScope = [n \in 1 .. level - 2 |-> NamesAt(n + 2)]
      BY <1>4 DEF InScope, SCOPE_GLOBAL
    <2>2. \A n \in 1 .. level - 2 : NamesAt(n + 2) = ScopeOf(chain, symbols, n + 2)
      BY <1>3, <1>4
    <2> QED BY <2>1, <2>2 DEF Stack
  <1> QED BY <1>2, <1>5 DEF Mapped

LEMMA NextFact ==
  ASSUME LInv'
  PROVE  InScope' = Stack(chain', symbols', level') /\ Denoted' = Meanings(chain', symbols')
  <1>1. LInv' => Mapped'
    BY NowFact, PTL
  <1> QED BY <1>1 DEF Mapped

\* A look-up comes to the innermost scope that has the name.
LEMMA MeaningFact ==
  ASSUME NEW c, NEW l \in Nat, SCOPE_GLOBAL <= l, Chained(c, l), NEW syms
  PROVE  Meanings(c, syms) = Meant!Meaning(Stack(c, syms, l))
  <1> DEFINE s == Stack(c, syms, l)
  <1>1. /\ l - 2 \in Nat /\ DOMAIN s = 1 .. l - 2
        /\ \A n \in 1 .. l - 2 : DOMAIN s[n] = DOMAIN TableOf(c, n + 2)
        /\ \A n \in 1 .. l - 2 : \A i \in DOMAIN TableOf(c, n + 2) :
             s[n][i] = Stands(syms, TableOf(c, n + 2)[i])
    BY DEF Stack, ScopeOf, SCOPE_GLOBAL
  <1> HIDE DEF s
  <1>2. ASSUME NEW i \in Ids
        PROVE  (IF Lookup(i, c) = 0 THEN Nothing ELSE Stands(syms, Lookup(i, c)))
                 = LET at == {n \in DOMAIN s : i \in DOMAIN s[n]} IN
                   IF at = {} THEN Nothing ELSE s[Max(at)][i]
    <2> DEFINE at == {n \in DOMAIN s : i \in DOMAIN s[n]}
    <2>1. at = {n \in 1 .. l - 2 : i \in DOMAIN TableOf(c, n + 2)}
      BY <1>1
    <2>2. CASE Lookup(i, c) = 0
      <3>1. \A k \in Nat : i \notin DOMAIN TableOf(c, k)
        BY <2>2, LookupFact
      <3>2. at = {}
        BY <2>1, <3>1
      <3> QED BY <2>2, <3>2
    <2>3. CASE Lookup(i, c) # 0
      <3>1. PICK k \in SCOPE_GLOBAL .. l :
              /\ i \in DOMAIN TableOf(c, k) /\ Lookup(i, c) = TableOf(c, k)[i]
              /\ \A j \in Nat : j > k => i \notin DOMAIN TableOf(c, j)
        BY <2>3, LookupFact
      <3>2. k - 2 \in 1 .. l - 2 /\ k - 2 + 2 = k /\ k \in Nat
        BY DEF SCOPE_GLOBAL
      <3>3. k - 2 \in at
        BY <2>1, <3>1, <3>2
      <3>4. at \in SUBSET (0 .. l - 2) /\ at # {}
        BY <1>1, <2>1, <3>3
      <3>5. Max(at) \in at /\ k - 2 <= Max(at)
        <4> HIDE DEF at
        <4> QED BY <1>1, <3>3, <3>4, MaxFact
      <3>6. Max(at) \in 1 .. l - 2 /\ i \in DOMAIN TableOf(c, Max(at) + 2)
        BY <2>1, <3>5
      <3> HIDE DEF at
      <3>7. Max(at) = k - 2
        <4>1. Max(at) + 2 \in Nat /\ ~(Max(at) + 2 > k)
          BY <3>1, <3>2, <3>6
        <4> QED BY <1>1, <3>2, <3>5, <3>6, <4>1
      <3>8. s[k - 2][i] = Stands(syms, TableOf(c, k)[i])
        BY <1>1, <3>1, <3>2
      <3> QED BY <2>3, <3>1, <3>4, <3>7, <3>8 DEF at
    <2> QED BY <2>2, <2>3
  <1>3. Meanings(c, syms) = Meant!Meaning(s)
    BY <1>2, MeantMax DEF Meanings, Meant!Meaning
  <1> QED BY <1>3 DEF s

-----------------------------------------------------------------------------
(* Steps of Linkage as steps of Scopes.                                    *)

\* What a symbol's name stands for does not change with the symbol.
SameThing(old, new) ==
  /\ new.id = old.id
  /\ new.scope = old.scope
  /\ new.alias = old.alias
  /\ old.sclass = "Typedef" => new.sclass = "Typedef" /\ new.type = old.type
  /\ old.sclass # "Typedef" => new.sclass # "Typedef"
  /\ old.scope # SCOPE_GLOBAL => new.sclass = old.sclass

Stays(old, new) ==
  /\ Len(old) <= Len(new)
  /\ \A n \in 1 .. Len(old) : SameThing(old[n], new[n])

LEMMA StandsStays ==
  ASSUME LInv, Stays(symbols, symbols'), NEW p \in 1 .. Len(symbols)
  PROVE  Stands(symbols', p) = Stands(symbols, p)
  <1>1. symbols[p] \in Symbols /\ SameThing(symbols[p], symbols'[p])
    BY StateFact DEF Stays
  <1>2. CodeOf(symbols', p) = CodeOf(symbols, p)
    <2>1. symbols[p].scope \in Nat
      BY <1>1 DEF Symbols
    <2>2. symbols[p].scope > SCOPE_PARAM => symbols[p].scope # SCOPE_GLOBAL
      BY <2>1 DEF SCOPE_PARAM, SCOPE_GLOBAL
    <2> QED BY <1>1, <2>2 DEF CodeOf, SameThing
  <1> DEFINE n == CodeOf(symbols, p)
  <1>3. n \in 1 .. Len(symbols)
    BY DEF CodeOf, LInv, Aliased, Lasting
  <1>4. SameThing(symbols[n], symbols'[n])
    BY <1>3 DEF Stays
  <1>5. ThingOf(symbols', n) = ThingOf(symbols, n)
    <2> HIDE DEF n
    <2> QED BY <1>4 DEF ThingOf, SameThing
  <1> QED BY <1>2, <1>5 DEF Stands

\* A symbol of a table.
LEMMA InTable ==
  ASSUME LInv, NEW l \in Nat, NEW i \in DOMAIN TableOf(chain, l), NEW p, p = TableOf(chain, l)[i]
  PROVE  /\ i \in Ids /\ p \in 1 .. Len(symbols) /\ symbols[p] \in Symbols
         /\ symbols[p].id = i /\ symbols[p].scope = l /\ SCOPE_GLOBAL <= l /\ l <= level
         /\ l = SCOPE_PARAM => symbols[p].sclass = "Auto"
  <1>1. level \in Nat /\ Chained(chain, level)
    BY StateFact DEF LInv
  <1>2. /\ p \in 1 .. Len(symbols) /\ symbols[p].id = i /\ symbols[p].scope = l
        /\ l = SCOPE_PARAM => symbols[p].sclass = "Auto"
    BY DEF LInv, Listed
  <1>3. symbols[p] \in Symbols
    BY <1>2, StateFact
  <1>4. TableOf(chain, l) \in Names
    BY <1>1, TableFact
  <1>5. i \in Ids
    BY <1>4, NamesFact
  <1>6. HasTable(chain, l)
    BY <1>1, TableFact, NoNamesFact
  <1>7. SCOPE_GLOBAL <= l /\ l <= level
    BY <1>1, <1>6, ChainFact DEF HasTable
  <1> QED BY <1>2, <1>3, <1>5, <1>7

\* What the name of a table's symbol stands for.
LEMMA StandsFact ==
  ASSUME LInv, NEW l \in Nat, NEW i \in DOMAIN TableOf(chain, l), NEW p, p = TableOf(chain, l)[i]
  PROVE  /\ symbols[p].sclass = "Typedef" => Stands(symbols, p) = symbols[p].type
         /\ l = SCOPE_GLOBAL /\ symbols[p].sclass # "Typedef" => Stands(symbols, p) = i
         /\ l = SCOPE_PARAM => Stands(symbols, p) = p
         /\ l > SCOPE_PARAM /\ symbols[p].sclass = "External" => Stands(symbols, p) = i
         /\ Stands(symbols, p) \in Ids \cup Types \cup {Fun} \cup 1 .. Len(symbols)
  <1>1. /\ i \in Ids /\ i # Generated /\ p \in 1 .. Len(symbols) /\ symbols[p] \in Symbols
        /\ symbols[p].id = i /\ symbols[p].scope = l
        /\ l = SCOPE_PARAM => symbols[p].sclass = "Auto"
    BY InTable, LinkageAssumption
  <1>2. symbols[p].type \in Types \cup {Fun}
    BY <1>1 DEF Symbols
  <1>3. CASE l > SCOPE_PARAM /\ symbols[p].sclass \in {"External", "Static"}
    <2> DEFINE n == symbols[p].alias
    <2>1. /\ Lasting(symbols, n)
          /\ symbols[p].sclass = "External" => symbols[n].id = i
          /\ symbols[p].sclass = "Static" => symbols[n].id = Generated
      BY <1>1, <1>3 DEF LInv, Aliased
    <2>2. Stands(symbols, p) = ThingOf(symbols, n)
      BY <1>1, <1>3 DEF Stands, CodeOf
    <2> HIDE DEF n
    <2>3. ThingOf(symbols, n) = IF symbols[n].id # Generated THEN symbols[n].id ELSE n
      BY <2>1 DEF ThingOf, Lasting, SCOPE_GLOBAL
    <2>4. l # SCOPE_GLOBAL /\ l # SCOPE_PARAM
      BY <1>3 DEF SCOPE_GLOBAL, SCOPE_PARAM
    <2> QED BY <1>1, <1>3, <2>1, <2>2, <2>3, <2>4 DEF Lasting
  <1>4. CASE ~(l > SCOPE_PARAM /\ symbols[p].sclass \in {"External", "Static"})
    <2>1. Stands(symbols, p) = ThingOf(symbols, p)
      BY <1>1, <1>4 DEF Stands, CodeOf
    <2>2. ThingOf(symbols, p) = IF symbols[p].sclass = "Typedef" THEN symbols[p].type
                                ELSE IF l <= SCOPE_GLOBAL THEN i ELSE p
      BY <1>1 DEF ThingOf
    <2> QED BY <1>1, <1>2, <1>4, <2>1, <2>2 DEF SCOPE_GLOBAL, SCOPE_PARAM
  <1> QED BY <1>3, <1>4

\* The scopes as functions, and the meaning of names in them.
LEMMA MappedFact ==
  ASSUME LInv
  PROVE  /\ InScope = Stack(chain, symbols, level)
         /\ Denoted = Meant!Meaning(Stack(chain, symbols, level))
         /\ level - 2 \in Nat /\ 1 <= level - 2
         /\ DOMAIN InScope = 1 .. level - 2 /\ Len(InScope) = level - 2
         /\ \A n \in 1 .. level - 2 : InScope[n] = ScopeOf(chain, symbols, n + 2)
  <1>1. Mapped /\ level \in Nat /\ SCOPE_GLOBAL <= level /\ Chained(chain, level)
    BY NowFact, StateFact DEF LInv
  <1>2. Denoted = Meant!Meaning(Stack(chain, symbols, level))
    BY <1>1, MeaningFact DEF Mapped
  <1>3. level - 2 \in Nat /\ 1 <= level - 2
    BY <1>1 DEF SCOPE_GLOBAL
  <1>4. /\ InScope = Stack(chain, symbols, level)
        /\ InScope = [n \in 1 .. level - 2 |-> ScopeOf(chain, symbols, n + 2)]
    BY <1>1 DEF Mapped, Stack
  <1>5. Len(InScope) = level - 2
    BY <1>3, <1>4, LenProperties
  <1> QED BY <1>2, <1>3, <1>4, <1>5

LEMMA MappedNext ==
  ASSUME LInv'
  PROVE  /\ InScope' = Stack(chain', symbols', level')
         /\ Denoted' = Meant!Meaning(InScope')
  <1>1. LInv' => (level \in Nat /\ SCOPE_GLOBAL <= level)'
    BY StateFact, PTL
  <1>2. level' \in Nat /\ SCOPE_GLOBAL <= level' /\ Chained(chain', level')
    BY <1>1 DEF LInv
  <1> QED BY <1>2, NextFact, MeaningFact

\* Steps that declare nothing.
LEMMA StutterStep ==
  ASSUME LInv, LInv', Stays(symbols, symbols'), UNCHANGED <<level, chain>>
  PROVE  UNCHANGED <<InScope, Denoted>>
  <1>1. \A n \in 1 .. level - 2 : ScopeOf(chain, symbols', n + 2) = ScopeOf(chain, symbols, n + 2)
    <2> SUFFICES ASSUME NEW n \in 1 .. level - 2, NEW i \in DOMAIN TableOf(chain, n + 2)
                 PROVE  Stands(symbols', TableOf(chain, n + 2)[i])
                          = Stands(symbols, TableOf(chain, n + 2)[i])
      BY DEF ScopeOf
    <2>1. n + 2 \in Nat
      BY MappedFact
    <2> QED BY <2>1, InTable, StandsStays
  <1>2. Stack(chain, symbols', level) = Stack(chain, symbols, level)
    BY <1>1 DEF Stack
  <1> QED BY <1>2, MappedFact, MappedNext

\* A scope is entered.
LEMMA OpenStep ==
  ASSUME LInv, LInv', UNCHANGED <<chain, symbols>>, level' = level + 1
  PROVE  Meant!Next
  <1> DEFINE l == level - 2
             s == InScope
             t == InScope'
  <1>1. /\ l \in Nat /\ DOMAIN s = 1 .. l /\ Len(s) = l /\ level' - 2 = l + 1
        /\ s = [n \in 1 .. l |-> ScopeOf(chain, symbols, n + 2)]
    BY MappedFact, StateFact DEF Stack
  <1>2. t = [n \in 1 .. l + 1 |-> ScopeOf(chain, symbols, n + 2)]
    BY <1>1, MappedNext DEF Stack
  <1>3. DOMAIN TableOf(chain, level + 1) = {}
    <2>1. level \in Nat /\ level + 1 \in Nat /\ level + 1 > level
      BY StateFact
    <2> QED BY <2>1, TableFact, NoNamesFact DEF LInv
  <1>4. ScopeOf(chain, symbols, level + 1) = Meant!Empty
    BY <1>3 DEF ScopeOf, Meant!Empty
  <1>5. l + 1 + 2 = level + 1
    BY StateFact
  <1>6. t[l + 1] = Meant!Empty /\ DOMAIN t = 1 .. l + 1 /\ \A n \in 1 .. l : t[n] = s[n]
    <2>1. l + 1 \in 1 .. l + 1 /\ \A n \in 1 .. l : n \in 1 .. l + 1
      BY <1>1
    <2> QED BY <1>1, <1>2, <1>4, <1>5, <2>1
  <1> HIDE DEF l, s, t
  <1>7. t = Append(s, Meant!Empty)
    <2> DEFINE S == {s[n] : n \in 1 .. l} \cup {Meant!Empty}
    <2>1. s \in [1 .. l -> S]
      BY <1>1
    <2>2. t \in [1 .. l + 1 -> S]
      <3>1. \A n \in 1 .. l + 1 : n = l + 1 \/ n \in 1 .. l
        BY <1>1
      <3> QED BY <1>2, <1>6, <3>1
    <2> HIDE DEF S
    <2>3. s \in Seq(S) /\ t \in Seq(S) /\ Len(t) = l + 1
      <3>1. l + 1 \in Nat
        BY <1>1
      <3>2. s \in Seq(S) /\ t \in Seq(S)
        BY <1>1, <2>1, <2>2, <3>1, SeqDef
      <3> QED BY <1>6, <3>1, <3>2, LenProperties
    <2>4. Meant!Empty \in S
      BY DEF S
    <2>5. /\ Append(s, Meant!Empty) \in Seq(S) /\ Len(Append(s, Meant!Empty)) = l + 1
          /\ \A n \in 1 .. l : Append(s, Meant!Empty)[n] = s[n]
          /\ Append(s, Meant!Empty)[l + 1] = Meant!Empty
      BY <1>1, <2>3, <2>4, AppendProperties
    <2>6. \A n \in 1 .. l + 1 : t[n] = Append(s, Meant!Empty)[n]
      <3>1. \A n \in 1 .. l + 1 : n = l + 1 \/ n \in 1 .. l
        BY <1>1
      <3> QED BY <1>6, <2>5, <3>1
    <2> QED BY <2>3, <2>5, <2>6, SeqEqual
  <1> QED BY <1>7, MappedNext DEF Meant!Next, Meant!Open, Meant!Becomes, s, t

\* A scope is left.
LEMMA CloseStep ==
  ASSUME LInv, LInv', SCOPE_GLOBAL < level, chain' = ExitScope, level' = level - 1,
         Stays(symbols, symbols')
  PROVE  Meant!Next
  <1> DEFINE l == level - 2
             s == InScope
             t == InScope'
  <1>1. /\ l \in Nat /\ DOMAIN s = 1 .. l /\ Len(s) = l /\ level' - 2 = l - 1 /\ level \in Nat
        /\ s = [n \in 1 .. l |-> ScopeOf(chain, symbols, n + 2)] /\ l > 1 /\ l + 2 = level
    BY MappedFact, StateFact DEF Stack, SCOPE_GLOBAL
  <1>2. t = [n \in 1 .. l - 1 |-> ScopeOf(chain', symbols', n + 2)]
    BY <1>1, MappedNext DEF Stack
  <1> HIDE DEF l, s, t
  <1>3. ASSUME NEW n \in 1 .. l - 1 PROVE t[n] = s[n]
    <2>1. n \in 1 .. l /\ n + 2 \in Nat /\ n + 2 # level
      BY <1>1
    <2>2. TableOf(chain', n + 2) = TableOf(chain, n + 2)
      BY <1>1, <2>1, ExitScopeFact DEF LInv
    <2>3. \A i \in DOMAIN TableOf(chain, n + 2) :
            Stands(symbols', TableOf(chain, n + 2)[i]) = Stands(symbols, TableOf(chain, n + 2)[i])
      BY <2>1, InTable, StandsStays
    <2> QED BY <1>1, <1>2, <2>1, <2>2, <2>3 DEF ScopeOf
  <1>4. t = Meant!Front(s)
    <2>1. Meant!Front(s) = [n \in 1 .. l - 1 |-> s[n]]
      BY <1>1 DEF Meant!Front
    <2> QED BY <1>2, <1>3, <2>1
  <1> QED BY <1>1, <1>4, MappedNext DEF Meant!Next, Meant!Close, Meant!Becomes, s, t

\* What a scope has for a name, the parameters being of the body's scope.
LEMMA DeclaredFact ==
  ASSUME LInv, NEW l \in {SCOPE_GLOBAL, level}, NEW i
  PROVE  Meant!DeclaredIn(l - 2, i) =
           {Stands(symbols, TableOf(chain, k)[i]) :
              k \in {k \in (IF l = SCOPE_LOCAL THEN {SCOPE_PARAM, SCOPE_LOCAL} ELSE {l}) :
                       i \in DOMAIN TableOf(chain, k)}}
  <1>1. /\ level \in Nat /\ SCOPE_GLOBAL <= level /\ level - 2 \in Nat
        /\ \A n \in 1 .. level - 2 : InScope[n] = ScopeOf(chain, symbols, n + 2)
    BY MappedFact, StateFact
  <1>2. ASSUME NEW n \in 1 .. level - 2, NEW k \in Nat, k = n + 2
        PROVE  /\ DOMAIN InScope[n] = DOMAIN TableOf(chain, k)
               /\ i \in DOMAIN TableOf(chain, k) =>
                    InScope[n][i] = Stands(symbols, TableOf(chain, k)[i])
    BY <1>1, <1>2 DEF ScopeOf
  <1>3. CASE l = SCOPE_LOCAL
    <2>1. l - 2 = 3 /\ 2 \in 1 .. level - 2 /\ 3 \in 1 .. level - 2
      BY <1>1, <1>3 DEF SCOPE_LOCAL, SCOPE_GLOBAL
    <2>2. /\ SCOPE_PARAM = 2 + 2 /\ SCOPE_LOCAL = 3 + 2 /\ SCOPE_PARAM \in Nat /\ SCOPE_LOCAL \in Nat
      BY DEF SCOPE_LOCAL, SCOPE_PARAM
    <2>3. /\ DOMAIN InScope[2] = DOMAIN TableOf(chain, SCOPE_PARAM)
          /\ DOMAIN InScope[3] = DOMAIN TableOf(chain, SCOPE_LOCAL)
          /\ i \in DOMAIN TableOf(chain, SCOPE_PARAM) =>
               InScope[2][i] = Stands(symbols, TableOf(chain, SCOPE_PARAM)[i])
          /\ i \in DOMAIN TableOf(chain, SCOPE_LOCAL) =>
               InScope[3][i] = Stands(symbols, TableOf(chain, SCOPE_LOCAL)[i])
      BY <1>2, <2>1, <2>2
    <2>4. Meant!DeclaredIn(l - 2, i) =
            {InScope[m][i] : m \in {m \in {2, 3} : i \in DOMAIN InScope[m]}}
      BY <2>1 DEF Meant!DeclaredIn
    <2> QED BY <1>3, <2>3, <2>4
  <1>4. CASE l # SCOPE_LOCAL
    <2>1. l \in Nat /\ l - 2 \in 1 .. level - 2 /\ l = l - 2 + 2 /\ l - 2 # 3
      BY <1>1, <1>4 DEF SCOPE_LOCAL, SCOPE_GLOBAL
    <2>2. /\ DOMAIN InScope[l - 2] = DOMAIN TableOf(chain, l)
          /\ i \in DOMAIN TableOf(chain, l) =>
               InScope[l - 2][i] = Stands(symbols, TableOf(chain, l)[i])
      BY <1>2, <2>1
    <2>3. Meant!DeclaredIn(l - 2, i) =
            {InScope[m][i] : m \in {m \in {l - 2} : i \in DOMAIN InScope[m]}}
      BY <2>1 DEF Meant!DeclaredIn
    <2> QED BY <1>4, <2>2, <2>3
  <1> QED BY <1>3, <1>4

\* A name is declared in the file or in the innermost scope.
LEMMA DeclareStep ==
  ASSUME LInv, LInv', Stays(symbols, symbols'), level' = level,
         NEW l \in {SCOPE_GLOBAL, level}, NEW i \in Ids, NEW p, NEW thing,
         TableOf(chain', l) = Put(TableOf(chain, l), i, p),
         \A k : k # l => TableOf(chain', k) = TableOf(chain, k),
         thing = Stands(symbols', p),
         \/ thing \in {i} \cup Types /\ Meant!DeclaredIn(l - 2, i) \subseteq {thing}
         \/ thing \in Len(symbols) + 1 .. MaxSymbols /\ Meant!DeclaredIn(l - 2, i) = {},
         l = SCOPE_GLOBAL => thing = i \/ level = SCOPE_GLOBAL
  PROVE  Meant!Next
  <1> DEFINE m == level - 2
             n == l - 2
             s == InScope
             t == InScope'
  <1>1. /\ m \in Nat /\ m >= 1 /\ DOMAIN s = 1 .. m /\ Len(s) = m /\ level \in Nat
        /\ SCOPE_GLOBAL <= level
        /\ s = [k \in 1 .. m |-> ScopeOf(chain, symbols, k + 2)] /\ m + 2 = level
    BY MappedFact, StateFact DEF Stack
  <1>2. t = [k \in 1 .. m |-> ScopeOf(chain', symbols', k + 2)]
    BY <1>1, MappedNext DEF Stack
  <1>3. /\ l \in Nat /\ n \in 1 .. m /\ n \in {1, Len(s)} /\ n + 2 = l
        /\ (n = 1 => l = SCOPE_GLOBAL) /\ (level = SCOPE_GLOBAL => Len(s) = 1)
    BY <1>1 DEF SCOPE_GLOBAL
  <1> HIDE DEF m, n, s, t
  <1>4. ASSUME NEW k \in 1 .. m
        PROVE  /\ k + 2 \in Nat
               /\ \A j \in DOMAIN TableOf(chain, k + 2) :
                    Stands(symbols', TableOf(chain, k + 2)[j])
                      = Stands(symbols, TableOf(chain, k + 2)[j])
    <2>1. k + 2 \in Nat
      BY <1>1
    <2> QED BY <2>1, InTable, StandsStays
  <1>5. ASSUME NEW k \in 1 .. m, k # n PROVE t[k] = s[k]
    <2>1. k + 2 # l
      BY <1>1, <1>3, <1>5
    <2>2. TableOf(chain', k + 2) = TableOf(chain, k + 2)
      BY <2>1
    <2> QED BY <1>1, <1>2, <1>4, <2>2 DEF ScopeOf
  <1>6. t[n] = Meant!Put(s[n], i, thing)
    <2>1. t[n] = ScopeOf(chain', symbols', l) /\ s[n] = ScopeOf(chain, symbols, l)
      BY <1>1, <1>2, <1>3
    <2>2. \A j \in DOMAIN TableOf(chain, l) :
            Stands(symbols', TableOf(chain, l)[j]) = Stands(symbols, TableOf(chain, l)[j])
      BY <1>3, <1>4
    <2> QED BY <2>1, <2>2 DEF ScopeOf, Put, Meant!Put
  <1>7. t = [s EXCEPT ![n] = Meant!Put(@, i, thing)]
    BY <1>1, <1>2, <1>3, <1>5, <1>6
  <1>8. \/ thing \in {i} \cup Types /\ Meant!DeclaredIn(n, i) \subseteq {thing}
        \/ thing \in (1 .. MaxSymbols) \ Meant!InUse /\ Meant!DeclaredIn(n, i) = {}
    <2>1. CASE thing \in {i} \cup Types /\ Meant!DeclaredIn(l - 2, i) \subseteq {thing}
      BY <2>1 DEF n
    <2>2. CASE thing \in Len(symbols) + 1 .. MaxSymbols /\ Meant!DeclaredIn(l - 2, i) = {}
      <3>1. thing \in Nat /\ thing \in 1 .. MaxSymbols /\ thing \notin 1 .. Len(symbols)
        <4>1. Len(symbols) \in Nat
          BY StateFact
        <4> QED BY <2>2, <4>1, LinkageAssumption
      <3>2. SUFFICES ASSUME thing \in Meant!InUse PROVE FALSE
        BY <2>2, <3>1 DEF n
      <3>3. PICK k \in 1 .. m : \E j \in DOMAIN s[k] : thing = s[k][j]
        BY <1>1, <3>2 DEF Meant!InUse, Meant!Range, s
      <3>4. PICK j \in DOMAIN TableOf(chain, k + 2) : thing = Stands(symbols, TableOf(chain, k + 2)[j])
        BY <1>1, <3>3 DEF ScopeOf
      <3>5. thing \in Ids \cup Types \cup {Fun} \cup 1 .. Len(symbols)
        BY <1>4, <3>4, StandsFact
      <3> QED BY <3>1, <3>5, LinkageAssumption
    <2> QED BY <2>1, <2>2
  <1>9. thing \in Meant!Things
    <2>1. thing \in {i} \cup Types \cup 1 .. MaxSymbols
      BY <1>8
    <2> QED BY <2>1 DEF Meant!Things
  <1>10. Meant!Declare(n, i, thing)
    BY <1>7, <1>8, MappedNext DEF Meant!Declare, Meant!Becomes, s, t
  <1>11. n = 1 => thing = i \/ Len(s) = 1
    BY <1>3
  <1>12. Meant!Declaration
    BY <1>3, <1>9, <1>10, <1>11 DEF Meant!Declaration, s
  <1> QED BY <1>12 DEF Meant!Next

-----------------------------------------------------------------------------
(* Every step of a program that declares typedefs as C has it.             *)

\* A typedef's type is one that a name may stand for.
TypesNamed(syms) ==
  \A n \in 1 .. Len(syms) : syms[n].sclass = "Typedef" => syms[n].type \in Types

\* The outermost block of a function declares no parameter again.
Apart(c) == DOMAIN TableOf(c, SCOPE_PARAM) \cap DOMAIN TableOf(c, SCOPE_LOCAL) = {}

TInv == TypesNamed(symbols) /\ Apart(chain)

\* The parser looks only at the type of what the scope already has for the
\* name of a typedef (parser.c:133): it takes an object's or a parameter's name
\* of the same type too, which C does not have.
TypedefsLegal ==
  \A d \in declared :
    Typedef(d) /\ status' # "refused" =>
      /\ d.type \in Types
      /\ Meant!DeclaredIn(level - SCOPE_GLOBAL + 1, d.id) \subseteq {d.type}

Implements == TInv' /\ (Meant!Next \/ UNCHANGED <<InScope, Denoted>>)

LEMMA SameStays ==
  ASSUME NEW old, NEW new, Len(old) <= Len(new), \A n \in 1 .. Len(old) : new[n] = old[n]
  PROVE  Stays(old, new)
  BY DEF Stays, SameThing

LEMMA ExceptStays ==
  ASSUME NEW syms \in Seq(Symbols), NEW p \in 1 .. Len(syms), NEW r \in Symbols,
         SameThing(syms[p], r), TypesNamed(syms)
  PROVE  /\ Stays(syms, [syms EXCEPT ![p] = r]) /\ TypesNamed([syms EXCEPT ![p] = r])
         /\ [syms EXCEPT ![p] = r][p] = r /\ Len([syms EXCEPT ![p] = r]) = Len(syms)
  <1> DEFINE new == [syms EXCEPT ![p] = r]
  <1>1. /\ Len(new) = Len(syms) /\ Len(syms) \in Nat
        /\ \A n \in 1 .. Len(syms) : new[n] = IF n = p THEN r ELSE syms[n]
    BY ExceptSeq
  <1> HIDE DEF new
  <1>2. Stays(syms, new)
    <2>1. \A n \in 1 .. Len(syms) : SameThing(syms[n], new[n])
      BY <1>1 DEF SameThing
    <2> QED BY <1>1, <2>1 DEF Stays
  <1>3. TypesNamed(new)
    BY <1>1 DEF TypesNamed, SameThing
  <1> QED BY <1>1, <1>2, <1>3 DEF new

\* New symbols, all but typedefs.
LEMMA StaysNamed ==
  ASSUME NEW old, NEW new, Len(old) \in Nat, Len(new) \in Nat, Stays(old, new), TypesNamed(old),
         \A n \in Len(old) + 1 .. Len(new) : new[n].sclass = "Typedef" => new[n].type \in Types
  PROVE  TypesNamed(new)
  <1>1. \A n \in 1 .. Len(new) : n \in 1 .. Len(old) \/ n \in Len(old) + 1 .. Len(new)
    OBVIOUS
  <1> QED BY <1>1 DEF TypesNamed, Stays, SameThing

\* Steps that leave the tables and at most use a symbol.
LEMMA SameImplements ==
  ASSUME LInv, LInv', TInv, UNCHANGED <<level, chain, symbols>>
  PROVE  Implements
  <1>1. Len(symbols) \in Nat
    BY StateFact
  <1>2. Stays(symbols, symbols')
    BY <1>1, SameStays
  <1>3. TInv'
    BY DEF TInv
  <1> QED BY <1>2, <1>3, StutterStep DEF Implements

LEMMA ChangeImplements ==
  ASSUME LInv, LInv', TInv, NEW p \in 1 .. Len(symbols), NEW r \in Symbols,
         SameThing(symbols[p], r), symbols' = [symbols EXCEPT ![p] = r], UNCHANGED <<level, chain>>
  PROVE  Implements
  <1>1. Stays(symbols, [symbols EXCEPT ![p] = r]) /\ TypesNamed([symbols EXCEPT ![p] = r])
    BY StateFact, ExceptStays DEF TInv
  <1>2. Stays(symbols, symbols') /\ TypesNamed(symbols')
    BY <1>1
  <1>3. TInv'
    BY <1>2 DEF TInv
  <1> QED BY <1>2, <1>3, StutterStep DEF Implements

\* A name that the file does not have yet is declared in it.
LEMMA GlobalImplements ==
  ASSUME LInv, LInv', TInv, NEW i \in Ids, NEW p \in 1 .. Len(symbols'),
         i \notin DOMAIN TableOf(chain, SCOPE_GLOBAL),
         Stays(symbols, symbols'), TypesNamed(symbols'), level' = level,
         TableOf(chain', SCOPE_GLOBAL) = Put(TableOf(chain, SCOPE_GLOBAL), i, p),
         \A k : k # SCOPE_GLOBAL => TableOf(chain', k) = TableOf(chain, k),
         symbols'[p].id = i, symbols'[p].scope = SCOPE_GLOBAL, symbols'[p].sclass # "Typedef"
  PROVE  Implements
  <1>1. Stands(symbols', p) = i
    <2>1. i # Generated
      BY LinkageAssumption
    <2>2. CodeOf(symbols', p) = p
      BY DEF CodeOf, SCOPE_GLOBAL, SCOPE_PARAM
    <2> QED BY <2>1, <2>2 DEF Stands, ThingOf, SCOPE_GLOBAL
  <1>2. Meant!DeclaredIn(SCOPE_GLOBAL - 2, i) = {}
    <2>1. SCOPE_GLOBAL # SCOPE_LOCAL
      BY DEF SCOPE_GLOBAL, SCOPE_LOCAL
    <2>2. SCOPE_GLOBAL \in {SCOPE_GLOBAL, level}
      OBVIOUS
    <2>3. Meant!DeclaredIn(SCOPE_GLOBAL - 2, i) =
            {Stands(symbols, TableOf(chain, k)[i]) :
               k \in {k \in {SCOPE_GLOBAL} : i \in DOMAIN TableOf(chain, k)}}
      BY <2>1, <2>2, DeclaredFact
    <2> QED BY <2>3
  <1>3. Apart(chain')
    BY DEF TInv, Apart, SCOPE_GLOBAL, SCOPE_PARAM, SCOPE_LOCAL
  <1>4. Meant!Next
    BY <1>1, <1>2, DeclareStep
  <1> QED BY <1>3, <1>4 DEF Implements, TInv

LEMMA NewGlobalImplements ==
  ASSUME LInv, LInv', TInv, NEW d \in declared, NEW r \in Symbols,
         r.id = d.id, r.scope = SCOPE_GLOBAL, r.sclass # "Typedef",
         symbols' = Append(symbols, r), chain' = InstallGlobal(d.id, New), level' = level,
         d.id \notin DOMAIN TableOf(chain, SCOPE_GLOBAL)
  PROVE  Implements
  <1>1. /\ level \in Nat /\ symbols \in Seq(Symbols) /\ New = Len(symbols) + 1
        /\ New \in Nat \ {0} /\ Len(symbols) \in Nat /\ d.id \in Ids
    BY StateFact
  <1>2. /\ Len(symbols') = New /\ symbols'[New] = r
        /\ \A n \in 1 .. Len(symbols) : symbols'[n] = symbols[n]
    BY <1>1, AppendKeeps
  <1>3. Len(symbols) <= Len(symbols') /\ Len(symbols') \in Nat /\ New \in 1 .. Len(symbols')
    BY <1>1, <1>2
  <1>4. Stays(symbols, symbols')
    BY <1>2, <1>3, SameStays
  <1>5. TypesNamed(symbols')
    <2>1. \A n \in Len(symbols) + 1 .. Len(symbols') : n = New
      BY <1>1, <1>2
    <2> QED BY <1>1, <1>2, <1>3, <1>4, <2>1, StaysNamed DEF TInv
  <1>6. /\ TableOf(chain', SCOPE_GLOBAL) = Put(TableOf(chain, SCOPE_GLOBAL), d.id, New)
        /\ \A k : k # SCOPE_GLOBAL => TableOf(chain', k) = TableOf(chain, k)
    BY <1>1, InstallGlobalFact DEF LInv
  <1> QED BY <1>1, <1>2, <1>3, <1>4, <1>5, <1>6, GlobalImplements

\* A declaration of the file: what it knows stays what it is.
LEMMA DeclGlobalImplements ==
  ASSUME LInv, LInv', TInv, NEW d \in declared, function = "none", DeclGlobal(d)
  PROVE  Implements
  <1> DEFINE p == Lookup(d.id, chain)
             known == p # 0 /\ symbols[p].scope = SCOPE_GLOBAL
             e == ExternalOf(d.id)
  <1>1. /\ d.id \in Ids /\ symbols \in Seq(Symbols) /\ level = SCOPE_GLOBAL
        /\ Chained(chain, level) /\ level \in Nat
    BY StateFact DEF LInv, Staged
  <1>2. CASE Refuse
    BY <1>2, SameImplements DEF Refuse, tables
  <1>3. CASE /\ known /\ ~Conflicts(d, p) /\ DeclKnown(d, p)
             /\ UNCHANGED <<level, function, code, status, declared>>
    <2>1. p \in 1 .. Len(symbols)
      BY <1>3, FoundFact
    <2>2. symbols[p].sclass # "Typedef" /\ symbols[p].scope = SCOPE_GLOBAL
      BY <1>3 DEF Conflicts
    <2> HIDE DEF p
    <2>3. PICK r \in Symbols :
            /\ symbols' = [symbols EXCEPT ![p] = r]
            /\ r.id = symbols[p].id /\ r.scope = symbols[p].scope /\ r.alias = symbols[p].alias
            /\ symbols[p].sclass # "Typedef" => r.sclass # "Typedef"
      BY <1>3, <2>1, DeclKnownFact
    <2>4. SameThing(symbols[p], r)
      BY <2>2, <2>3 DEF SameThing
    <2>5. UNCHANGED <<level, chain>>
      BY <1>3 DEF DeclKnown
    <2> QED BY <2>1, <2>3, <2>4, <2>5, ChangeImplements
  <1>4. ~known => d.id \notin DOMAIN TableOf(chain, SCOPE_GLOBAL)
    <2>1. CASE p = 0
      <3>1. SCOPE_GLOBAL \in Nat
        BY DEF SCOPE_GLOBAL
      <3> QED BY <1>1, <2>1, <3>1, LookupFact
    <2>2. CASE p # 0
      <3>1. PICK k \in SCOPE_GLOBAL .. level : symbols[p].scope = k
        BY <2>2, FoundFact
      <3>2. k = SCOPE_GLOBAL
        BY <1>1, <3>1 DEF SCOPE_GLOBAL
      <3> QED BY <2>2, <3>1, <3>2
    <2> QED BY <2>1, <2>2
  <1>5. CASE /\ ~known /\ e # 0 /\ Relocate(d, e)
             /\ UNCHANGED <<level, function, code, status, declared>>
    <2>1. /\ e \in 1 .. Len(symbols) /\ Lasting(symbols, e) /\ symbols[e].id = d.id
          /\ TableOf(chain', SCOPE_GLOBAL) = Put(TableOf(chain, SCOPE_GLOBAL), d.id, e)
          /\ \A k : k # SCOPE_GLOBAL => TableOf(chain', k) = TableOf(chain, k)
      BY <1>5, RelocateFact
    <2>2. PICK r \in Symbols :
            /\ symbols' = [symbols EXCEPT ![e] = r]
            /\ r.id = d.id /\ r.scope = SCOPE_GLOBAL
            /\ r.alias = symbols[e].alias /\ r.sclass # "Typedef"
      BY <1>5, RelocateFact
    <2> HIDE DEF e, known
    <2>3. SameThing(symbols[e], r)
      BY <2>1, <2>2 DEF SameThing, Lasting
    <2>4. /\ Stays(symbols, [symbols EXCEPT ![e] = r]) /\ TypesNamed([symbols EXCEPT ![e] = r])
          /\ [symbols EXCEPT ![e] = r][e] = r /\ Len([symbols EXCEPT ![e] = r]) = Len(symbols)
      BY <1>1, <2>1, <2>3, ExceptStays DEF TInv
    <2>5. /\ Stays(symbols, symbols') /\ TypesNamed(symbols')
          /\ symbols'[e] = r /\ e \in 1 .. Len(symbols')
      BY <2>1, <2>2, <2>4
    <2>6. /\ symbols'[e].id = d.id /\ symbols'[e].scope = SCOPE_GLOBAL
          /\ symbols'[e].sclass # "Typedef"
      BY <2>2, <2>5
    <2>7. level' = level /\ d.id \notin DOMAIN TableOf(chain, SCOPE_GLOBAL)
      BY <1>4, <1>5
    <2>8. d.id \in Ids
      BY <1>1
    <2> QED BY <2>1, <2>5, <2>6, <2>7, <2>8, GlobalImplements
  <1>6. CASE /\ ~known /\ DeclNew(d)
             /\ UNCHANGED <<level, function, code, status, declared>>
    <2>1. PICK r \in Symbols :
            /\ symbols' = Append(symbols, r) /\ r.id = d.id /\ r.scope = SCOPE_GLOBAL
            /\ r.sclass # "Typedef"
      BY <1>6, DeclNewFact
    <2>2. chain' = InstallGlobal(d.id, New) /\ level' = level
      BY <1>6 DEF DeclNew
    <2> HIDE DEF known
    <2> QED BY <1>4, <1>6, <2>1, <2>2, NewGlobalImplements
  <1> QED BY <1>2, <1>3, <1>5, <1>6 DEF DeclGlobal

\* A name is declared in the innermost scope, which is not the file's or has
\* no parameter of that name.
LEMMA InnerImplements ==
  ASSUME LInv, LInv', TInv, NEW i \in Ids, NEW thing,
         Len(symbols) <= Len(symbols'), \A n \in 1 .. Len(symbols) : symbols'[n] = symbols[n],
         \A n \in Len(symbols) + 1 .. Len(symbols') :
           symbols'[n].sclass = "Typedef" => symbols'[n].type \in Types,
         chain' = Install(i, New, level), level' = level, thing = Stands(symbols', New),
         \/ thing \in {i} \cup Types /\ Meant!DeclaredIn(level - 2, i) \subseteq {thing}
         \/ thing \in Len(symbols) + 1 .. MaxSymbols /\ Meant!DeclaredIn(level - 2, i) = {},
         level = SCOPE_LOCAL => i \notin DOMAIN TableOf(chain, SCOPE_PARAM)
  PROVE  Implements
  <1>1. /\ level \in Nat /\ SCOPE_GLOBAL <= level /\ Chained(chain, level)
        /\ New \in Nat \ {0} /\ Len(symbols) \in Nat /\ New = Len(symbols) + 1
    BY StateFact DEF LInv
  <1>2. Len(symbols') \in Nat
    <2>1. LInv' => (Len(symbols) \in Nat)'
      BY StateFact, PTL
    <2> QED BY <2>1
  <1>3. Stays(symbols, symbols')
    BY SameStays
  <1>4. TypesNamed(symbols')
    BY <1>1, <1>2, <1>3, StaysNamed DEF TInv
  <1>5. /\ TableOf(chain', level) = Put(TableOf(chain, level), i, New)
        /\ \A k : k # level => TableOf(chain', k) = TableOf(chain, k)
    BY <1>1, InstallFact
  <1>6. DOMAIN TableOf(chain', level) = DOMAIN TableOf(chain, level) \cup {i}
    BY <1>5 DEF Put
  <1>7. Apart(chain')
    <2>1. CASE level = SCOPE_LOCAL
      <3>1. TableOf(chain', SCOPE_PARAM) = TableOf(chain, SCOPE_PARAM)
        BY <1>5, <2>1 DEF SCOPE_PARAM, SCOPE_LOCAL
      <3> QED BY <1>6, <2>1, <3>1 DEF Apart, TInv
    <2>2. CASE level = SCOPE_PARAM
      <3>1. SCOPE_LOCAL \in Nat /\ SCOPE_LOCAL > level /\ SCOPE_LOCAL # level
        BY <2>2 DEF SCOPE_PARAM, SCOPE_LOCAL
      <3>2. DOMAIN TableOf(chain, SCOPE_LOCAL) = {}
        BY <1>1, <3>1, TableFact, NoNamesFact
      <3> QED BY <1>5, <3>1, <3>2 DEF Apart
    <2>3. CASE level # SCOPE_LOCAL /\ level # SCOPE_PARAM
      BY <1>5, <2>3 DEF Apart, TInv
    <2> QED BY <2>1, <2>2, <2>3
  <1>8. Meant!Next
    <2>1. level \in {SCOPE_GLOBAL, level} /\ (level = SCOPE_GLOBAL => thing = i \/ level = SCOPE_GLOBAL)
      OBVIOUS
    <2> QED BY <1>3, <1>5, <2>1, DeclareStep
  <1> QED BY <1>4, <1>7, <1>8 DEF Implements, TInv

LEMMA TypedefImplements ==
  ASSUME LInv, LInv', TInv, TypedefsLegal, NEW d \in declared, Typedef(d), status = "parsing"
  PROVE  Implements
  <1>1. CASE Refuse
    BY <1>1, SameImplements DEF Refuse, tables
  <1> DEFINE where == IF level <= SCOPE_GLOBAL THEN Permanent ELSE "temp"
             symbol == Symbol(d.id, d.type, "Typedef", level, where)
  <1>2. CASE /\ symbols' = Append(symbols, symbol)
             /\ chain' = Install(d.id, New, level)
             /\ UNCHANGED <<level, status>>
    <2>1. /\ level \in Nat /\ SCOPE_GLOBAL <= level /\ symbols \in Seq(Symbols)
          /\ New = Len(symbols) + 1 /\ Len(symbols) \in Nat
          /\ d.id \in Ids /\ d.type \in Types \cup {Fun}
      BY StateFact
    <2>2. symbol \in Symbols /\ symbol.sclass = "Typedef" /\ symbol.type = d.type
      <3>1. where \in {"perm", "temp"} /\ "Typedef" \in Classes /\ d.id \in Ids \cup {Generated}
        BY <2>1 DEF Permanent, Classes
      <3> HIDE DEF where
      <3> QED BY <2>1, <3>1 DEF Symbol, Symbols
    <2> HIDE DEF symbol
    <2>3. /\ Len(symbols') = New /\ symbols'[New] = symbol
          /\ \A n \in 1 .. Len(symbols) : symbols'[n] = symbols[n]
      BY <1>2, <2>1, <2>2, AppendKeeps
    <2>4. d.type \in Types /\ Meant!DeclaredIn(level - 2, d.id) \subseteq {d.type}
      <3>1. status' # "refused"
        BY <1>2
      <3>2. level - SCOPE_GLOBAL + 1 = level - 2
        BY <2>1 DEF SCOPE_GLOBAL
      <3> QED BY <3>1, <3>2 DEF TypedefsLegal
    <2>5. Stands(symbols', New) = d.type
      <3>1. CodeOf(symbols', New) = New
        BY <2>2, <2>3 DEF CodeOf
      <3> QED BY <2>2, <2>3, <3>1 DEF Stands, ThingOf
    <2>6. level = SCOPE_LOCAL => d.id \notin DOMAIN TableOf(chain, SCOPE_PARAM)
      <3> SUFFICES ASSUME level = SCOPE_LOCAL, d.id \in DOMAIN TableOf(chain, SCOPE_PARAM)
                   PROVE  FALSE
        OBVIOUS
      <3> DEFINE p == TableOf(chain, SCOPE_PARAM)[d.id]
      <3>1. SCOPE_PARAM \in Nat
        BY DEF SCOPE_PARAM
      <3>2. Stands(symbols, p) = p /\ p \in 1 .. Len(symbols)
        BY <3>1, StandsFact, InTable
      <3>3. level \in {SCOPE_GLOBAL, level}
        OBVIOUS
      <3>4. Stands(symbols, p) \in Meant!DeclaredIn(level - 2, d.id)
        BY <3>3, DeclaredFact
      <3>5. p = d.type
        BY <2>4, <3>2, <3>4
      <3> QED BY <2>1, <2>4, <3>2, <3>5, LinkageAssumption
    <2>7. \A n \in Len(symbols) + 1 .. Len(symbols') :
            symbols'[n].sclass = "Typedef" => symbols'[n].type \in Types
      <3>1. \A n \in Len(symbols) + 1 .. Len(symbols') : n = New
        BY <2>1, <2>3
      <3> QED BY <2>2, <2>3, <2>4, <3>1
    <2>8. Len(symbols) <= Len(symbols')
      BY <2>1, <2>3
    <2> QED BY <1>2, <2>1, <2>3, <2>4, <2>5, <2>6, <2>7, <2>8, InnerImplements
  <1> QED BY <1>1, <1>2 DEF Typedef

\* A parameter or an object of a block is a thing of its own.
LEMMA ObjectImplements ==
  ASSUME LInv, LInv', TInv, NEW d \in declared, NEW r \in Symbols, SCOPE_GLOBAL < level,
         r.id = d.id, r.scope = level, r.sclass = "Auto",
         symbols' = Append(symbols, r), chain' = Install(d.id, New, level), level' = level,
         New <= MaxSymbols, Meant!DeclaredIn(level - 2, d.id) = {},
         level = SCOPE_LOCAL => d.id \notin DOMAIN TableOf(chain, SCOPE_PARAM)
  PROVE  Implements
  <1>1. /\ level \in Nat /\ symbols \in Seq(Symbols)
        /\ New = Len(symbols) + 1 /\ Len(symbols) \in Nat /\ d.id \in Ids
    BY StateFact
  <1>2. /\ Len(symbols') = New /\ symbols'[New] = r
        /\ \A n \in 1 .. Len(symbols) : symbols'[n] = symbols[n]
    BY <1>1, AppendKeeps
  <1>3. Stands(symbols', New) = New
    <2>1. CodeOf(symbols', New) = New
      BY <1>2 DEF CodeOf
    <2> QED BY <1>1, <1>2, <2>1 DEF Stands, ThingOf, SCOPE_GLOBAL
  <1>4. New \in Len(symbols) + 1 .. MaxSymbols /\ Len(symbols) <= Len(symbols')
    BY <1>1, <1>2, LinkageAssumption
  <1>5. \A n \in Len(symbols) + 1 .. Len(symbols') :
          symbols'[n].sclass = "Typedef" => symbols'[n].type \in Types
    <2>1. \A n \in Len(symbols) + 1 .. Len(symbols') : n = New
      BY <1>1, <1>2
    <2> QED BY <1>2, <2>1
  <1> QED BY <1>1, <1>2, <1>3, <1>4, <1>5, InnerImplements

LEMMA DeclParamImplements ==
  ASSUME LInv, LInv', TInv, DeclParam
  PROVE  Implements
  <1>1. CASE Refuse
    BY <1>1, SameImplements DEF Refuse, tables
  <1>2. ASSUME NEW d \in declared, NEW p, p = Lookup(d.id, chain), function = "head",
               ~(p # 0 /\ symbols[p].scope = level), Len(symbols) < MaxSymbols,
               symbols' = Append(symbols,
                 [Symbol(d.id, d.type, "Auto", level, "temp") EXCEPT !.defined = TRUE]),
               chain' = Install(d.id, New, level), level' = level
        PROVE  Implements
    <2> DEFINE r == [Symbol(d.id, d.type, "Auto", level, "temp") EXCEPT !.defined = TRUE]
    <2>1. /\ level \in Nat /\ d.id \in Ids /\ d.type \in Types \cup {Fun} /\ level = SCOPE_PARAM
          /\ Len(symbols) \in Nat /\ New = Len(symbols) + 1 /\ Chained(chain, level)
      BY <1>2, StateFact DEF LInv, Staged
    <2>2. r \in Symbols /\ r.id = d.id /\ r.scope = level /\ r.sclass = "Auto"
      BY <2>1 DEF Symbol, Symbols, Classes
    <2>3. symbols' = Append(symbols, r)
      BY <1>2
    <2> HIDE DEF r
    <2>4. SCOPE_GLOBAL < level /\ level # SCOPE_LOCAL
      BY <2>1 DEF SCOPE_GLOBAL, SCOPE_PARAM, SCOPE_LOCAL
    <2>5. New <= MaxSymbols
      BY <1>2, <2>1, LinkageAssumption
    <2>6. d.id \notin DOMAIN TableOf(chain, level)
      <3>1. CASE p = 0
        BY <1>2, <2>1, <3>1, LookupFact
      <3>2. CASE p # 0
        <4>1. PICK k \in SCOPE_GLOBAL .. level :
                /\ symbols[p].scope = k
                /\ \A j \in Nat : j > k => d.id \notin DOMAIN TableOf(chain, j)
          BY <1>2, <3>2, FoundFact
        <4>2. level > k
          BY <1>2, <2>1, <3>2, <4>1 DEF SCOPE_GLOBAL
        <4> QED BY <2>1, <4>1, <4>2
      <3> QED BY <3>1, <3>2
    <2>7. Meant!DeclaredIn(level - 2, d.id) = {}
      <3>1. level \in {SCOPE_GLOBAL, level}
        OBVIOUS
      <3>2. Meant!DeclaredIn(level - 2, d.id) =
              {Stands(symbols, TableOf(chain, k)[d.id]) :
                 k \in {k \in {level} : d.id \in DOMAIN TableOf(chain, k)}}
        BY <2>4, <3>1, DeclaredFact
      <3> QED BY <2>6, <3>2
    <2> QED BY <1>2, <2>2, <2>3, <2>4, <2>5, <2>7, ObjectImplements
  <1> QED BY <1>1, <1>2 DEF DeclParam

LEMMA FuncDefinitionImplements ==
  ASSUME LInv, LInv', TInv, FuncDefinition
  PROVE  Implements
  <1>1. CASE Refuse
    BY <1>1, SameImplements DEF Refuse, tables
  <1>2. ASSUME NEW d \in declared, NEW p, p = GlobalOf(d.id), d.storage # "typedef",
               ~(p # 0 /\ (symbols[p].type # Fun \/ symbols[p].defined)),
               IF p # 0
               THEN /\ symbols' = [symbols EXCEPT ![p] = AsFunction(@, d)]
                    /\ UNCHANGED <<chain, all>>
               ELSE /\ symbols' = Append(symbols,
                         AsFunction(Symbol(d.id, Fun, "Unknown", SCOPE_GLOBAL, Permanent), d))
                    /\ chain' = InstallGlobal(d.id, New)
                    /\ all' = all \cup {New},
               level' = level
        PROVE  Implements
    <2>1. /\ d.storage \in Storages \ {"typedef"} /\ d.id \in Ids /\ SCOPE_GLOBAL \in Nat
          /\ level \in Nat /\ Chained(chain, level)
      BY <1>2, StateFact DEF SCOPE_GLOBAL, LInv
    <2>2. CASE p # 0
      <3> DEFINE r == AsFunction(symbols[p], d)
      <3>1. p \in 1 .. Len(symbols) /\ symbols[p] \in Symbols /\ symbols[p].scope = SCOPE_GLOBAL
        BY <1>2, <2>2, GlobalFound, StateFact
      <3>2. symbols[p].sclass # "Typedef"
        BY <1>2, <2>2, <3>1, LinkageAssumption DEF TInv, TypesNamed
      <3>3. /\ r \in Symbols /\ r.id = symbols[p].id /\ r.scope = symbols[p].scope
            /\ r.alias = symbols[p].alias /\ r.sclass # "Typedef"
        BY <2>1, <3>1, AsFunctionFact
      <3>4. symbols' = [symbols EXCEPT ![p] = r] /\ UNCHANGED <<level, chain>>
        BY <1>2, <2>2
      <3> HIDE DEF r
      <3>5. SameThing(symbols[p], r)
        BY <3>1, <3>2, <3>3 DEF SameThing
      <3> QED BY <3>1, <3>3, <3>4, <3>5, ChangeImplements
    <2>3. CASE p = 0
      <3> DEFINE s == Symbol(d.id, Fun, "Unknown", SCOPE_GLOBAL, Permanent)
                 r == AsFunction(s, d)
      <3>1. s \in Symbols /\ s.id = d.id /\ s.scope = SCOPE_GLOBAL
        BY <2>1 DEF Symbol, Symbols, Classes, Permanent
      <3>2. symbols' = Append(symbols, r)
        BY <1>2, <2>3
      <3> HIDE DEF s
      <3>3. r \in Symbols /\ r.id = d.id /\ r.scope = SCOPE_GLOBAL /\ r.sclass # "Typedef"
        BY <2>1, <3>1, AsFunctionFact
      <3> HIDE DEF r
      <3>4. d.id \notin DOMAIN TableOf(chain, SCOPE_GLOBAL)
        <4> SUFFICES ASSUME d.id \in DOMAIN TableOf(chain, SCOPE_GLOBAL) PROVE FALSE
          OBVIOUS
        <4>1. TableOf(chain, SCOPE_GLOBAL)[d.id] = 0
          BY <1>2, <2>1, <2>3, GlobalOfFact
        <4>2. TableOf(chain, SCOPE_GLOBAL)[d.id] \in 1 .. Len(symbols)
          BY <2>1, InTable
        <4> QED BY <4>1, <4>2
      <3> QED BY <1>2, <2>3, <3>2, <3>3, <3>4, NewGlobalImplements
    <2> QED BY <2>2, <2>3
  <1> QED BY <1>1, <1>2 DEF FuncDefinition

\* What the parser takes in a block for a name that the block may declare.
LEMMA AbsentFact ==
  ASSUME LInv, NEW i, level >= SCOPE_LOCAL, NEW p, p = Lookup(i, chain),
         p = 0 \/ ~Redeclared(p)
  PROVE  /\ Meant!DeclaredIn(level - 2, i) = {}
         /\ level = SCOPE_LOCAL => i \notin DOMAIN TableOf(chain, SCOPE_PARAM)
  <1>1. level \in Nat /\ Chained(chain, level) /\ SCOPE_PARAM \in Nat
    BY StateFact DEF LInv, SCOPE_PARAM
  <1>2. /\ i \notin DOMAIN TableOf(chain, level)
        /\ level = SCOPE_LOCAL => i \notin DOMAIN TableOf(chain, SCOPE_PARAM)
    <2>1. CASE p = 0
      BY <1>1, <2>1, LookupFact
    <2>2. CASE p # 0
      <3>1. PICK k \in SCOPE_GLOBAL .. level :
              /\ symbols[p].scope = k
              /\ \A j \in Nat : j > k => i \notin DOMAIN TableOf(chain, j)
        BY <2>2, FoundFact
      <3>2. level > k /\ (level = SCOPE_LOCAL => SCOPE_PARAM > k)
        BY <1>1, <2>2, <3>1 DEF Redeclared, SCOPE_GLOBAL, SCOPE_PARAM, SCOPE_LOCAL
      <3> QED BY <1>1, <3>1, <3>2
    <2> QED BY <2>1, <2>2
  <1>3. level \in {SCOPE_GLOBAL, level}
    OBVIOUS
  <1>4. Meant!DeclaredIn(level - 2, i) =
          {Stands(symbols, TableOf(chain, k)[i]) :
             k \in {k \in (IF level = SCOPE_LOCAL THEN {SCOPE_PARAM, SCOPE_LOCAL} ELSE {level}) :
                      i \in DOMAIN TableOf(chain, k)}}
    BY <1>3, DeclaredFact
  <1> QED BY <1>2, <1>4

\* ... and what it takes again.
LEMMA AgainFact ==
  ASSUME LInv, TInv, NEW i, level >= SCOPE_LOCAL, NEW p, p = Lookup(i, chain), p # 0,
         Redeclared(p), symbols[p].sclass = "External"
  PROVE  /\ Meant!DeclaredIn(level - 2, i) \subseteq {i}
         /\ level = SCOPE_LOCAL => i \notin DOMAIN TableOf(chain, SCOPE_PARAM)
  <1>1. level \in Nat /\ Chained(chain, level)
    BY StateFact DEF LInv
  <1>2. PICK k \in SCOPE_GLOBAL .. level :
          /\ symbols[p].scope = k /\ (k = SCOPE_PARAM => symbols[p].sclass = "Auto")
          /\ i \in DOMAIN TableOf(chain, k) /\ TableOf(chain, k)[i] = p
    BY FoundFact
  <1>3. k = level
    BY <1>1, <1>2 DEF Redeclared, SCOPE_GLOBAL
  <1>4. i \in DOMAIN TableOf(chain, level) /\ TableOf(chain, level)[i] = p
    BY <1>2, <1>3
  <1>5. level > SCOPE_PARAM
    BY <1>1 DEF SCOPE_LOCAL, SCOPE_PARAM
  <1>6. Stands(symbols, p) = i
    BY <1>1, <1>4, <1>5, StandsFact
  <1>7. level = SCOPE_LOCAL => i \notin DOMAIN TableOf(chain, SCOPE_PARAM)
    BY <1>4 DEF TInv, Apart
  <1>8. level \in {SCOPE_GLOBAL, level}
    OBVIOUS
  <1>9. Meant!DeclaredIn(level - 2, i) =
          {Stands(symbols, TableOf(chain, k1)[i]) :
             k1 \in {k2 \in (IF level = SCOPE_LOCAL THEN {SCOPE_PARAM, SCOPE_LOCAL} ELSE {level}) :
                       i \in DOMAIN TableOf(chain, k2)}}
    BY <1>8, DeclaredFact
  <1> QED BY <1>4, <1>6, <1>7, <1>9

LEMMA DeclExternImplements ==
  ASSUME LInv, LInv', TInv, NEW d \in declared, SCOPE_PARAM < level, DeclExtern(d),
         Meant!DeclaredIn(level - 2, d.id) \subseteq {d.id},
         level = SCOPE_LOCAL => d.id \notin DOMAIN TableOf(chain, SCOPE_PARAM)
  PROVE  Implements
  <1> DEFINE q == FileSymbol(d.id)
             alias == IF q # 0 THEN q ELSE New + 1
             symbol == [LocalSymbol(d, "External") EXCEPT !.alias = alias]
             external == Symbol(d.id, d.type, "External", SCOPE_GLOBAL, Permanent)
  <1>1. CASE Refuse
    BY <1>1, SameImplements DEF Refuse, tables
  <1>2. ASSUME symbols' = symbols \o (IF q # 0 THEN <<symbol>> ELSE <<symbol, external>>),
               chain' = Install(d.id, New, level), level' = level
        PROVE  Implements
    <2>1. /\ level \in Nat /\ symbols \in Seq(Symbols) /\ New = Len(symbols) + 1
          /\ New \in Nat \ {0} /\ Len(symbols) \in Nat /\ d.id \in Ids
          /\ d.type \in Types \cup {Fun} /\ SCOPE_GLOBAL \in Nat
      BY StateFact DEF SCOPE_GLOBAL
    <2>2. alias \in Nat
      BY <2>1, FileSymbolFact DEF Lasting
    <2> HIDE DEF q, alias
    <2>3. /\ symbol \in Symbols /\ symbol.id = d.id /\ symbol.scope = level
          /\ symbol.sclass = "External"
      BY <2>1, <2>2 DEF LocalSymbol, Symbol, Symbols, Classes
    <2>4. external \in Symbols /\ external.sclass = "External"
      BY <2>1 DEF Symbol, Symbols, Classes, Permanent
    <2> HIDE DEF symbol, external
    <2>5. /\ Len(symbols) <= Len(symbols') /\ New \in 1 .. Len(symbols')
          /\ \A n \in 1 .. Len(symbols) : symbols'[n] = symbols[n]
          /\ symbols'[New] = symbol
          /\ \A n \in Len(symbols) + 1 .. Len(symbols') : symbols'[n].sclass # "Typedef"
      <3>1. CASE q # 0
        <4>1. symbols' = Append(symbols, symbol)
          BY <1>2, <3>1
        <4>2. /\ Len(symbols') = Len(symbols) + 1 /\ symbols'[New] = symbol
              /\ \A n \in 1 .. Len(symbols) : symbols'[n] = symbols[n]
          BY <2>1, <2>3, <4>1, AppendKeeps
        <4>3. \A n \in Len(symbols) + 1 .. Len(symbols') : n = New
          BY <2>1, <4>2
        <4> QED BY <2>1, <2>3, <4>2, <4>3
      <3>2. CASE q = 0
        <4>1. symbols' = symbols \o <<symbol, external>>
          BY <1>2, <3>2
        <4>2. /\ Len(symbols') = Len(symbols) + 2 /\ symbols'[New] = symbol
              /\ symbols'[Len(symbols) + 2] = external
              /\ \A n \in 1 .. Len(symbols) : symbols'[n] = symbols[n]
          BY <2>1, <2>3, <2>4, <4>1, PairKeeps
        <4>3. \A n \in Len(symbols) + 1 .. Len(symbols') : n = New \/ n = Len(symbols) + 2
          BY <2>1, <4>2
        <4> QED BY <2>1, <2>3, <2>4, <4>2, <4>3
      <3> QED BY <3>1, <3>2
    <2>6. Stands(symbols', New) = d.id
      <3> DEFINE n == symbols'[New].alias
      <3>1. Lasting(symbols', n) /\ symbols'[n].id = d.id /\ d.id # Generated
        BY <2>1, <2>3, <2>5, LinkageAssumption DEF LInv, Aliased
      <3>2. CodeOf(symbols', New) = n
        BY <2>3, <2>5 DEF CodeOf
      <3> HIDE DEF n
      <3> QED BY <3>1, <3>2 DEF Stands, ThingOf, Lasting, SCOPE_GLOBAL
    <2> QED BY <1>2, <2>1, <2>5, <2>6, InnerImplements
  <1> QED BY <1>1, <1>2 DEF DeclExtern

LEMMA DeclStaticImplements ==
  ASSUME LInv, LInv', TInv, NEW d \in declared, SCOPE_PARAM < level, DeclStatic(d),
         Len(symbols) + 1 < MaxSymbols, Meant!DeclaredIn(level - 2, d.id) = {},
         level = SCOPE_LOCAL => d.id \notin DOMAIN TableOf(chain, SCOPE_PARAM)
  PROVE  Implements
  <1> DEFINE alias == New + 1
             symbol == [LocalSymbol(d, "Static") EXCEPT !.alias = alias, !.defined = TRUE]
             object == [Symbol(Generated, d.type, "Static", SCOPE_GLOBAL, Permanent)
                          EXCEPT !.value = d.init]
  <1>1. /\ level \in Nat /\ symbols \in Seq(Symbols) /\ New = Len(symbols) + 1
        /\ New \in Nat \ {0} /\ Len(symbols) \in Nat /\ d.id \in Ids
        /\ d.type \in Types \cup {Fun} /\ d.init \in BOOLEAN /\ SCOPE_GLOBAL \in Nat
    BY StateFact DEF SCOPE_GLOBAL
  <1>2. symbols' = symbols \o <<symbol, object>>
    BY DEF DeclStatic
  <1>3. alias \in Nat /\ alias = New + 1
    BY <1>1
  <1> HIDE DEF alias
  <1>4. /\ symbol \in Symbols /\ symbol.id = d.id /\ symbol.scope = level
        /\ symbol.sclass = "Static" /\ symbol.alias = alias
    BY <1>1, <1>3 DEF LocalSymbol, Symbol, Symbols, Classes
  <1>5. object \in Symbols /\ object.sclass = "Static"
    BY <1>1 DEF Symbol, Symbols, Classes, Permanent
  <1> HIDE DEF symbol, object
  <1>6. /\ Len(symbols') = Len(symbols) + 2 /\ symbols'[New] = symbol
        /\ symbols'[Len(symbols) + 2] = object
        /\ \A n \in 1 .. Len(symbols) : symbols'[n] = symbols[n]
    BY <1>1, <1>2, <1>4, <1>5, PairKeeps
  <1>7. /\ Len(symbols) <= Len(symbols') /\ New \in 1 .. Len(symbols')
        /\ \A n \in Len(symbols) + 1 .. Len(symbols') : n = New \/ n = Len(symbols) + 2
    BY <1>1, <1>6
  <1>8. Stands(symbols', New) = alias
    <2>1. Lasting(symbols', alias) /\ symbols'[alias].id = Generated
      BY <1>1, <1>4, <1>6, <1>7 DEF LInv, Aliased
    <2>2. CodeOf(symbols', New) = alias
      BY <1>4, <1>6 DEF CodeOf
    <2> QED BY <2>1, <2>2 DEF Stands, ThingOf, Lasting
  <1>9. alias \in Len(symbols) + 1 .. MaxSymbols
    BY <1>1, <1>3, LinkageAssumption
  <1>10. \A n \in Len(symbols) + 1 .. Len(symbols') :
           symbols'[n].sclass = "Typedef" => symbols'[n].type \in Types
    BY <1>4, <1>5, <1>6, <1>7
  <1>11. chain' = Install(d.id, New, level) /\ level' = level
    BY DEF DeclStatic
  <1> QED BY <1>1, <1>6, <1>7, <1>8, <1>9, <1>10, <1>11, InnerImplements

LEMMA DeclAutoImplements ==
  ASSUME LInv, LInv', TInv, NEW d \in declared, SCOPE_PARAM < level, DeclAuto(d),
         Len(symbols) + 1 < MaxSymbols, Meant!DeclaredIn(level - 2, d.id) = {},
         level = SCOPE_LOCAL => d.id \notin DOMAIN TableOf(chain, SCOPE_PARAM)
  PROVE  Implements
  <1> DEFINE r == [LocalSymbol(d, "Auto") EXCEPT !.defined = TRUE]
  <1>1. /\ level \in Nat /\ d.id \in Ids /\ d.type \in Types \cup {Fun}
        /\ Len(symbols) \in Nat /\ New = Len(symbols) + 1
    BY StateFact
  <1>2. r \in Symbols /\ r.id = d.id /\ r.scope = level /\ r.sclass = "Auto"
    BY <1>1 DEF LocalSymbol, Symbol, Symbols, Classes
  <1>3. SCOPE_GLOBAL < level /\ New <= MaxSymbols
    BY <1>1, LinkageAssumption DEF SCOPE_GLOBAL, SCOPE_PARAM
  <1>4. symbols' = Append(symbols, r) /\ chain' = Install(d.id, New, level) /\ level' = level
    BY DEF DeclAuto
  <1> HIDE DEF r
  <1> QED BY <1>2, <1>3, <1>4, ObjectImplements

LEMMA BlockDeclarationImplements ==
  ASSUME LInv, LInv', TInv, TypedefsLegal, BlockDeclaration
  PROVE  Implements
  <1>1. PICK d \in declared : /\ level >= SCOPE_LOCAL /\ status = "parsing"
                              /\ Len(symbols) + 1 < MaxSymbols
                              /\ DeclLocal(d) \/ Typedef(d)
    BY DEF BlockDeclaration, Declares
  <1>2. SCOPE_PARAM < level /\ level \in Nat
    BY <1>1, StateFact DEF SCOPE_PARAM, SCOPE_LOCAL
  <1>3. CASE Typedef(d)
    BY <1>1, <1>3, TypedefImplements
  <1>4. CASE DeclLocal(d)
    <2> DEFINE p == Lookup(d.id, chain)
               storage == LocalStorage(d)
               again == /\ storage = "extern" /\ symbols[p].sclass = "External"
                        /\ symbols[p].type = d.type
    <2>1. CASE Refuse
      BY <2>1, SameImplements DEF Refuse, tables
    <2>2. CASE /\ ~(storage = "inline" \/ (p # 0 /\ Redeclared(p) /\ ~again))
               /\ CASE storage = "extern" -> DeclExtern(d)
                    [] storage = "static" -> DeclStatic(d)
                    [] storage = "none" -> DeclAuto(d)
      <3>1. storage \in {"extern", "static", "none"}
        <4>1. d.storage \in Storages
          BY StateFact
        <4> QED BY <1>4, <2>2, <4>1 DEF LocalStorage, DeclLocal, Storages
      <3>2. CASE p = 0 \/ ~Redeclared(p)
        <4>1. /\ Meant!DeclaredIn(level - 2, d.id) = {}
              /\ level = SCOPE_LOCAL => d.id \notin DOMAIN TableOf(chain, SCOPE_PARAM)
          BY <1>1, <3>2, AbsentFact
        <4>2. DeclExtern(d) \/ DeclStatic(d) \/ DeclAuto(d)
          BY <2>2, <3>1
        <4>3. Meant!DeclaredIn(level - 2, d.id) \subseteq {d.id}
          BY <4>1
        <4> HIDE DEF p, storage, again
        <4> QED BY <1>1, <1>2, <4>1, <4>2, <4>3, DeclExternImplements, DeclStaticImplements,
                   DeclAutoImplements
      <3>3. CASE p # 0 /\ Redeclared(p)
        <4>1. storage = "extern" /\ symbols[p].sclass = "External" /\ DeclExtern(d)
          BY <2>2, <3>3
        <4>2. /\ Meant!DeclaredIn(level - 2, d.id) \subseteq {d.id}
              /\ level = SCOPE_LOCAL => d.id \notin DOMAIN TableOf(chain, SCOPE_PARAM)
          BY <1>1, <3>3, <4>1, AgainFact
        <4> HIDE DEF p, storage, again
        <4> QED BY <1>2, <4>1, <4>2, DeclExternImplements
      <3> QED BY <3>2, <3>3
    <2> QED BY <1>4, <2>1, <2>2 DEF DeclLocal
  <1> QED BY <1>1, <1>3, <1>4

\* Scopes that are entered and left, and the end of a function.
LEMMA EnterImplements ==
  ASSUME LInv, LInv', TInv, FunctionDeclarator \/ EnterBlock
  PROVE  Implements
  <1>1. UNCHANGED <<chain, symbols>> /\ level' = level + 1
    BY DEF FunctionDeclarator, EnterBlock
  <1> QED BY <1>1, OpenStep DEF Implements, TInv

LEMMA LeftImplements ==
  ASSUME LInv, LInv', TInv, SCOPE_GLOBAL < level, chain' = ExitScope, level' = level - 1,
         Len(symbols') = Len(symbols), Stays(symbols, symbols')
  PROVE  Implements
  <1>1. level \in Nat /\ Chained(chain, level) /\ Len(symbols) \in Nat
    BY StateFact DEF LInv
  <1>2. TypesNamed(symbols')
    BY <1>1, StaysNamed DEF TInv
  <1>3. Apart(chain')
    <2>1. \A k \in Nat : DOMAIN TableOf(chain', k) \subseteq DOMAIN TableOf(chain, k)
      <3>1. /\ \A k \in Nat : k # level => TableOf(chain', k) = TableOf(chain, k)
            /\ \A k \in Nat : k >= level => DOMAIN TableOf(chain', k) = {}
        BY <1>1, ExitScopeFact, NoNamesFact
      <3>2. \A k \in Nat : k = level => k >= level
        BY <1>1
      <3> QED BY <3>1, <3>2
    <2>2. SCOPE_PARAM \in Nat /\ SCOPE_LOCAL \in Nat
      BY DEF SCOPE_PARAM, SCOPE_LOCAL
    <2> QED BY <2>1, <2>2 DEF TInv, Apart
  <1> QED BY <1>2, <1>3, CloseStep DEF Implements, TInv

LEMMA LeaveImplements ==
  ASSUME LInv, LInv', TInv, Prototype \/ LeaveBlock \/ LeaveBody
  PROVE  Implements
  <1>1. /\ level' = level - 1 /\ chain' = ExitScope /\ SCOPE_GLOBAL < level /\ symbols' = symbols
        /\ Len(symbols) \in Nat
    BY StateFact DEF Prototype, LeaveBlock, LeaveBody, LInv, Staged, SCOPE_GLOBAL, SCOPE_PARAM,
                     SCOPE_LOCAL
  <1>2. Stays(symbols, symbols')
    BY <1>1, SameStays
  <1> QED BY <1>1, <1>2, LeftImplements

LEMMA EndFunctionImplements ==
  ASSUME LInv, LInv', TInv, EndFunction
  PROVE  Implements
  <1>1. /\ level' = level - 1 /\ chain' = ExitScope /\ SCOPE_GLOBAL < level
        /\ symbols' = FreeTemporary /\ symbols \in Seq(Symbols) /\ Len(symbols) \in Nat
    BY StateFact DEF EndFunction, LInv, Staged, SCOPE_GLOBAL, SCOPE_PARAM
  <1> DEFINE s(n) == [symbols[n] EXCEPT !.area = IF @ = "temp" THEN "freed" ELSE @]
  <1>2. symbols' = [n \in 1 .. Len(symbols) |-> s(n)]
    BY <1>1 DEF FreeTemporary
  <1>3. \A n \in 1 .. Len(symbols) : SameThing(symbols[n], s(n))
    <2> SUFFICES ASSUME NEW n \in 1 .. Len(symbols) PROVE SameThing(symbols[n], s(n))
      OBVIOUS
    <2>1. symbols[n] \in Symbols
      BY StateFact
    <2> QED BY <2>1 DEF Symbols, SameThing
  <1> HIDE DEF s
  <1>4. Len(symbols') = Len(symbols)
    <2>1. DOMAIN symbols' = 1 .. Len(symbols) /\ symbols' \in Seq(Symbols)
      BY <1>2 DEF LInv
    <2>2. DOMAIN symbols' = 1 .. Len(symbols') /\ Len(symbols') \in Nat
      BY <2>1, LenProperties
    <2> QED BY <1>1, <2>1, <2>2
  <1>5. Stays(symbols, symbols')
    BY <1>1, <1>2, <1>3, <1>4 DEF Stays
  <1> QED BY <1>1, <1>4, <1>5, LeftImplements

LEMMA IdentifierImplements ==
  ASSUME LInv, LInv', TInv, Identifier
  PROVE  Implements
  <1>1. CASE Refuse
    BY <1>1, SameImplements DEF Refuse, tables
  <1>2. ASSUME NEW i, NEW p, p = Lookup(i, chain), p # 0,
               symbols' = [symbols EXCEPT ![p].used = @ \/ function # "omitted"],
               UNCHANGED <<level, chain>>
        PROVE  Implements
    <2> DEFINE used == symbols[p].used \/ function # "omitted"
               r == [symbols[p] EXCEPT !.used = used]
    <2>1. p \in 1 .. Len(symbols) /\ symbols[p] \in Symbols
      BY <1>2, FoundFact, StateFact
    <2>2. symbols' = [symbols EXCEPT ![p] = r]
      BY <1>2
    <2>3. used \in BOOLEAN
      OBVIOUS
    <2> HIDE DEF used
    <2>4. r \in Symbols /\ SameThing(symbols[p], r)
      BY <2>1, <2>3 DEF Symbols, SameThing
    <2> HIDE DEF r
    <2> QED BY <1>2, <2>1, <2>2, <2>4, ChangeImplements
  <1> QED BY <1>1, <1>2 DEF Identifier

LEMMA StepImplements ==
  ASSUME LInv, LInv', TInv, [Next]_vars, [TypedefsLegal]_vars
  PROVE  Implements
  <1>1. CASE EndOfFile \/ UNCHANGED vars
    BY <1>1, SameImplements DEF EndOfFile, vars, tables
  <1>2. CASE ~UNCHANGED vars /\ FileDeclaration
    <2>1. PICK d \in declared : /\ function = "none" /\ status = "parsing"
                                /\ DeclGlobal(d) \/ Typedef(d)
      BY <1>2 DEF FileDeclaration, Declares
    <2>2. TypedefsLegal
      BY <1>2
    <2> QED BY <2>1, <2>2, DeclGlobalImplements, TypedefImplements
  <1>3. CASE ~UNCHANGED vars /\ BlockDeclaration
    <2>1. TypedefsLegal
      BY <1>3
    <2> QED BY <1>3, <2>1, BlockDeclarationImplements
  <1> QED BY <1>1, <1>2, <1>3, EnterImplements, DeclParamImplements, LeaveImplements,
             FuncDefinitionImplements, EndFunctionImplements, IdentifierImplements DEF Next

LEMMA InitImplements ==
  ASSUME Init
  PROVE  TInv /\ Meant!Init
  <1>1. LInv /\ level = SCOPE_GLOBAL /\ symbols = <<>>
    BY InitLInv DEF Init
  <1>2. \A k \in Nat : DOMAIN TableOf(chain, k) = {}
    <2>1. LInv => Listed(chain, symbols)
      BY DEF LInv
    <2>2. \A k \in Nat : \A i \in DOMAIN TableOf(chain, k) : TableOf(chain, k)[i] \in 1 .. 0
      BY <1>1, <2>1 DEF Listed
    <2>3. \A k \in Nat : \A i \in DOMAIN TableOf(chain, k) : FALSE
      BY <2>2
    <2> QED BY <2>3
  <1>3. TInv
    <2>1. SCOPE_PARAM \in Nat
      BY DEF SCOPE_PARAM
    <2> QED BY <1>1, <1>2, <2>1 DEF TInv, TypesNamed, Apart
  <1>4. ScopeOf(chain, symbols, 1 + 2) = Meant!Empty
    <2>1. DOMAIN TableOf(chain, 1 + 2) = {}
      BY <1>2
    <2> QED BY <2>1 DEF ScopeOf, Meant!Empty
  <1>5. Stack(chain, symbols, level) = <<Meant!Empty>>
    <2>1. Stack(chain, symbols, level) = [n \in 1 .. 1 |-> ScopeOf(chain, symbols, n + 2)]
      BY <1>1 DEF Stack, SCOPE_GLOBAL
    <2>2. \A n \in 1 .. 1 : n = 1
      OBVIOUS
    <2>3. Stack(chain, symbols, level) = [n \in 1 .. 1 |-> Meant!Empty]
      BY <1>4, <2>1, <2>2
    <2> QED BY <2>3
  <1> QED BY <1>1, <1>3, <1>5, MappedFact DEF Meant!Init

\* The compiler's tables implement the scopes of C: whatever a file declares,
\* a name stands in it for what its innermost declaration makes it
\* (cc_symbol_lookup, cc_symbol_install, cc_symbol_exitscope).
THEOREM LinkageRefinement == Spec /\ [][TypedefsLegal]_vars => RefinesScopes
  <1>1. LInv /\ LInv' /\ TInv /\ [Next]_vars /\ [TypedefsLegal]_vars
          => TInv' /\ [Meant!Next]_<<InScope, Denoted>>
    BY StepImplements DEF Implements
  <1>2. Init => TInv /\ Meant!Init
    BY InitImplements
  <1> QED BY <1>1, <1>2, LinkageInductive, PTL DEF Spec, RefinesScopes, Meant!Spec

=============================================================================
