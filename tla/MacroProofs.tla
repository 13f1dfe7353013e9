------------------------------ MODULE MacroProofs ------------------------------
(***************************************************************************)
(* Proofs about MacroExpand: a macro's name that came out of its own       *)
(* replacement is hidden, for macros, calls and rows of any kind and size. *)
(***************************************************************************)
EXTENDS MacroExpand, SequenceTheorems, FiniteSetTheorems, WellFoundedInduction, TLAPS

-----------------------------------------------------------------------------
(* The inductive invariant.  S is a set of spellings that has those of all *)
(* tokens, hid the hidden sets and table the macros.                       *)

Tokens(S) == [t : S, s : S, h : Nat, from : SUBSET S]

HiddenBy(hid, tk) == IF tk.h = 0 THEN {} ELSE hid[tk.h]

\* Tokens that a list may have: names of macros are hidden by where they come
\* from.
Good(S, hid, table) ==
  {tk \in Tokens(S) :
     /\ tk.h \in 0 .. Len(hid)
     /\ tk.t = "id" /\ tk.s \in DOMAIN table => tk.from \subseteq HiddenBy(hid, tk)}

\* Tokens that the body of the macro called by own may have: those of the body
\* have no hidden set yet.
Made(S, hid, table, own) ==
  Good(S, hid, table) \cup {tk \in Tokens(S) : tk.h = 0 /\ tk.from \subseteq own.from \cup {own.s}}

Lists(S, hid, table) ==
  [kind : {"scan"}, done : Seq(Good(S, hid, table)), rest : Seq(Good(S, hid, table)),
   linked : BOOLEAN, look : BOOLEAN]

\* A ## has an operand on its left.
Bodies(S, hid, table) ==
  {f \in [kind : {"body"}, done : Seq(Tokens(S)), rest : Seq(ReadTokens),
          tk : Good(S, hid, table), args : Seq(Seq(Good(S, hid, table)))] :
     /\ f.tk.t = "id" /\ f.tk.s \in DOMAIN table
     /\ f.done \in Seq(Made(S, hid, table, f.tk))
     /\ f.rest # <<>> /\ f.rest[1].t = "##" => f.done # <<>>}

Frames(S, hid, table) == Lists(S, hid, table) \cup Bodies(S, hid, table)

\* Lists and bodies alternate: a body takes the place of a call in a list, and
\* a list is an argument in a body.
Alternate(st) ==
  /\ Len(st) >= 1 => st[1].kind = "scan"
  /\ \A n \in 1 .. Len(st) - 1 : st[n].kind # st[n + 1].kind

Sound(S, st, hid, table) ==
  /\ Words \subseteq S
  /\ hid \in Seq(SUBSET S)
  /\ st \in Seq(Frames(S, hid, table))

IsTable(table) ==
  \A s \in DOMAIN table :
    table[s] \in Macros /\ (table[s].body # <<>> => table[s].body[1].t # "##")

MInv ==
  /\ rows \in Seq(ReadRows)
  /\ IsTable(macros)
  /\ phase \in {"rows", "row", "done", "failed"}
  /\ phase = "rows" => stack = <<>>
  /\ phase = "row" => Len(stack) >= 1
  /\ Alternate(stack)
  /\ \E S : Sound(S, stack, hidden, macros)


-----------------------------------------------------------------------------
(* Lemmas about least elements, recursive functions and sequences.         *)

\* A set of naturals has a least element, which is its minimum.
LEMMA MinFact ==
  ASSUME NEW S \in SUBSET Nat, S # {}
  PROVE  Min(S) \in S /\ \A k \in S : Min(S) <= k
  <1>1. PICK m \in S : \A k \in S : <<k, m>> \notin OpToRel(<, Nat)
    BY NatLessThanWellFounded, WFMin
  <1>2. \A k \in S : ~(k < m)
    BY <1>1 DEF OpToRel
  <1>3. \A k \in S : m <= k
    BY <1>2
  <1> QED BY <1>3 DEF Min

\* What holds of 0, and of each number up to N if it does of the one before.
LEMMA Steps ==
  ASSUME NEW N \in Nat, NEW P, 0 \in P, \A n \in 1 .. N : n - 1 \in P => n \in P
  PROVE  \A n \in 0 .. N : n \in P
  <1> DEFINE Bad == {n \in 0 .. N : n \notin P}
  <1> SUFFICES ASSUME Bad # {} PROVE FALSE
    OBVIOUS
  <1>1. Bad \in SUBSET Nat
    OBVIOUS
  <1>2. PICK b \in Bad : \A k \in Bad : b <= k
    BY <1>1, MinFact
  <1>3. b \in 1 .. N /\ b - 1 \in 0 .. N /\ ~(b <= b - 1)
    BY <1>2
  <1>4. b - 1 \in P
    BY <1>2, <1>3
  <1> QED BY <1>2, <1>3, <1>4

\* c has the first value a, and goes on by the steps g.
Recurs(c, N, a, g) == \A n \in 0 .. N : c[n] = IF n = 0 THEN a ELSE g[<<n, c[n - 1]>>]

\* A function that is given by its first value and by steps exists.
LEMMA Recursion ==
  ASSUME NEW N \in Nat, NEW S, NEW a \in S, NEW g \in [(1 .. N) \X S -> S]
  PROVE  \E c \in [0 .. N -> S] : Recurs(c, N, a, g)
  <1> DEFINE Is(c, m) == \A n \in 0 .. m : c[n] = IF n = 0 THEN a ELSE g[<<n, c[n - 1]>>]
             P == {m \in 0 .. N : \E c \in [0 .. m -> S] : Is(c, m)}
  <1>1. 0 \in P
    <2> DEFINE c == [n \in 0 .. 0 |-> a]
    <2>1. c \in [0 .. 0 -> S]
      OBVIOUS
    <2>2. Is(c, 0)
      OBVIOUS
    <2> HIDE DEF Is, c
    <2>3. \E d \in [0 .. 0 -> S] : Is(d, 0)
      BY <2>1, <2>2
    <2> QED BY <2>3
  <1>2. ASSUME NEW m \in 1 .. N, m - 1 \in P PROVE m \in P
    <2>1. m \in Nat /\ m - 1 \in Nat /\ m - 1 \in 0 .. m - 1 /\ m \notin 0 .. m - 1
      OBVIOUS
    <2>2. PICK p \in [0 .. m - 1 -> S] : Is(p, m - 1)
      BY <1>2
    <2>3. g[<<m, p[m - 1]>>] \in S
      <3>1. <<m, p[m - 1]>> \in (1 .. N) \X S
        BY <2>1
      <3> QED BY <3>1
    <2> DEFINE c == [n \in 0 .. m |-> IF n = m THEN g[<<m, p[m - 1]>>] ELSE p[n]]
    <2>4. \A n \in 0 .. m : n # m => n \in 0 .. m - 1
      BY <2>1
    <2>5. c \in [0 .. m -> S]
      BY <2>3, <2>4
    <2>6. Is(c, m)
      <3>1. c[m] = g[<<m, c[m - 1]>>] /\ m # 0
        BY <2>1
      <3>2. ASSUME NEW n \in 0 .. m - 1 PROVE c[n] = IF n = 0 THEN a ELSE g[<<n, c[n - 1]>>]
        <4>1. c[n] = p[n]
          BY <2>1
        <4>2. n # 0 => n - 1 \in 0 .. m /\ n - 1 # m
          BY <2>1
        <4>3. n # 0 => c[n - 1] = p[n - 1]
          BY <4>2
        <4> QED BY <2>2, <4>1, <4>3
      <3> QED BY <2>4, <3>1, <3>2
    <2> HIDE DEF Is, c
    <2>7. \E d \in [0 .. m -> S] : Is(d, m)
      BY <2>5, <2>6
    <2> QED BY <2>7
  <1> HIDE DEF P
  <1>3. \A m \in 0 .. N : m \in P
    BY <1>1, <1>2, Steps
  <1>4. N \in P
    BY <1>3
  <1> QED BY <1>4 DEF P, Recurs

\* Pieces of a list are lists of the same tokens.
LEMMA PieceFact ==
  ASSUME NEW T, NEW s \in Seq(T), NEW m \in Nat \ {0}, NEW n \in Int, n <= Len(s)
  PROVE  SubSeq(s, m, n) \in Seq(T)
  <1>1. \A i \in m .. n : s[i] \in T
    OBVIOUS
  <1> QED BY <1>1, SubSeqProperties

LEMMA AfterFact ==
  ASSUME NEW T, NEW s \in Seq(T), NEW n \in Nat
  PROVE  After(s, n) \in Seq(T)
  <1>1. n + 1 \in Nat \ {0} /\ Len(s) \in Int /\ Len(s) <= Len(s)
    OBVIOUS
  <1> DEFINE k == n + 1
  <1>2. SubSeq(s, k, Len(s)) \in Seq(T)
    <2> HIDE DEF k
    <2>1. k \in Nat \ {0}
      BY <1>1 DEF k
    <2> QED BY <1>1, <2>1, PieceFact
  <1> QED BY <1>2 DEF After

\* The first and the last of a list, and what is left without them.
LEMMA EndsFact ==
  ASSUME NEW T, NEW s \in Seq(T), s # <<>>
  PROVE  /\ Head(s) = s[1] /\ Head(s) \in T /\ Tail(s) \in Seq(T)
         /\ Last(s) = s[Len(s)] /\ Last(s) \in T /\ Front(s) \in Seq(T)
         /\ Len(s) \in Nat /\ Len(s) >= 1 /\ Len(Front(s)) = Len(s) - 1
         /\ \A n \in 1 .. Len(s) - 1 : Front(s)[n] = s[n]
  <1>1. Len(s) \in Nat /\ Len(s) >= 1 /\ s[1] \in T /\ s[Len(s)] \in T
    OBVIOUS
  <1>2. Last(s) = s[Len(s)] /\ Head(s) = s[1]
    BY DEF Last
  <1>3. Tail(s) \in Seq(T)
    BY HeadTailProperties
  <1> DEFINE k == Len(s) - 1
             sub == SubSeq(s, 1, k)
  <1>4. k \in Nat /\ k <= Len(s)
    BY <1>1
  <1>5. Front(s) = sub
    BY DEF Front
  <1>6. k = Len(s) - 1
    OBVIOUS
  <1> HIDE DEF k
  <1>7. \A i \in 1 .. k : s[i] \in T
    BY <1>4
  <1>8. /\ sub \in Seq(T)
        /\ Len(sub) = IF 1 <= k THEN k - 1 + 1 ELSE 0
        /\ \A i \in 1 .. k - 1 + 1 : sub[i] = s[1 + i - 1]
    BY <1>4, <1>7, SubSeqProperties
  <1> HIDE DEF sub
  <1>9. Len(sub) = k
    BY <1>4, <1>8
  <1>10. ASSUME NEW n \in 1 .. k PROVE sub[n] = s[n]
    <2>1. n \in 1 .. k - 1 + 1 /\ 1 + n - 1 = n
      BY <1>4
    <2> QED BY <1>8, <2>1
  <1> QED BY <1>1, <1>2, <1>3, <1>5, <1>6, <1>8, <1>9, <1>10


-----------------------------------------------------------------------------
(* Lemmas about the lists that are made: they have the tokens of those they *)
(* are made from.                                                          *)

LEMMA WithoutFact ==
  ASSUME NEW T, NEW toks \in Seq(T), NEW t
  PROVE  Without(toks, t) \in Seq(T)
  <1> DEFINE N == Len(toks)
             IsKept(c) ==
               c = [n \in 0 .. N |-> IF n = 0 THEN <<>>
                                     ELSE IF toks[n].t = t THEN c[n - 1] ELSE Append(c[n - 1], toks[n])]
             kept == CHOOSE c : IsKept(c)
             g == [p \in (1 .. N) \X Seq(T) |->
                     IF toks[p[1]].t = t THEN p[2] ELSE Append(p[2], toks[p[1]])]
  <1>1. N \in Nat /\ \A n \in 1 .. N : toks[n] \in T
    OBVIOUS
  <1>2. Without(toks, t) = kept[N]
    BY DEF Without
  <1> HIDE DEF N
  <1>3. \A n \in 1 .. N : \A s \in Seq(T) :
          g[<<n, s>>] = IF toks[n].t = t THEN s ELSE Append(s, toks[n])
    OBVIOUS
  <1>4. g \in [(1 .. N) \X Seq(T) -> Seq(T)]
    <2>1. ASSUME NEW p \in (1 .. N) \X Seq(T)
          PROVE  (IF toks[p[1]].t = t THEN p[2] ELSE Append(p[2], toks[p[1]])) \in Seq(T)
      <3>1. toks[p[1]] \in T /\ p[2] \in Seq(T)
        BY <1>1
      <3> QED BY <3>1, AppendProperties
    <2> QED BY <2>1
  <1> HIDE DEF g
  <1>5. <<>> \in Seq(T)
    OBVIOUS
  <1>6. PICK c \in [0 .. N -> Seq(T)] :
          \A n \in 0 .. N : c[n] = IF n = 0 THEN <<>> ELSE g[<<n, c[n - 1]>>]
    <2> DEFINE Q == Seq(T)
    <2>1. <<>> \in Q /\ g \in [(1 .. N) \X Q -> Q]
      BY <1>4, <1>5
    <2> HIDE DEF Q
    <2>2. \E c \in [0 .. N -> Q] : Recurs(c, N, <<>>, g)
      BY <1>1, <2>1, Recursion
    <2> QED BY <2>2 DEF Q, Recurs
  <1>7. IsKept(c)
    <2>1. ASSUME NEW n \in 0 .. N, n # 0
          PROVE  c[n] = IF toks[n].t = t THEN c[n - 1] ELSE Append(c[n - 1], toks[n])
      <3>1. n \in 1 .. N /\ n - 1 \in 0 .. N
        BY <1>1, <2>1
      <3>2. c[n - 1] \in Seq(T)
        BY <3>1
      <3>3. c[n] = g[<<n, c[n - 1]>>]
        BY <1>6, <2>1
      <3> QED BY <1>3, <3>1, <3>2, <3>3
    <2>2. c = [n \in 0 .. N |-> c[n]]
      OBVIOUS
    <2> QED BY <1>6, <2>1, <2>2
  <1>8. IsKept(kept)
    <2> HIDE DEF IsKept
    <2> QED BY <1>7
  <1> HIDE DEF kept
  <1>9. \A n \in 0 .. N : kept[n] =
          IF n = 0 THEN <<>>
          ELSE IF toks[n].t = t THEN kept[n - 1] ELSE Append(kept[n - 1], toks[n])
    BY <1>8
  <1> DEFINE P == {n \in 0 .. N : kept[n] \in Seq(T)}
  <1>10. 0 \in P
    <2>1. kept[0] = <<>> /\ 0 \in 0 .. N
      <3>1. 0 \in 0 .. N
        BY <1>1
      <3>2. kept[0] = IF 0 = 0 THEN <<>>
                      ELSE IF toks[0].t = t THEN kept[0 - 1] ELSE Append(kept[0 - 1], toks[0])
        BY <1>9, <3>1, Zenon
      <3>3. kept[0] = <<>>
        BY <3>2, Zenon
      <3> QED BY <3>1, <3>3
    <2> QED BY <1>5, <2>1
  <1>11. ASSUME NEW n \in 1 .. N, n - 1 \in P PROVE n \in P
    <2>1. n \in 0 .. N /\ n # 0 /\ kept[n - 1] \in Seq(T) /\ toks[n] \in T
      BY <1>1, <1>11
    <2>2. Append(kept[n - 1], toks[n]) \in Seq(T)
      BY <2>1, AppendProperties
    <2>3. kept[n] \in Seq(T)
      BY <1>9, <2>1, <2>2
    <2> QED BY <2>1, <2>3
  <1> HIDE DEF P
  <1>12. \A n \in 0 .. N : n \in P
    BY <1>1, <1>10, <1>11, Steps
  <1>13. N \in P
    BY <1>1, <1>12
  <1> QED BY <1>2, <1>13 DEF P

LEMMA JoinedFact ==
  ASSUME NEW T, NEW toks \in Seq(T), NEW rest, NEW N \in Nat,
         \A n \in 1 .. N : rest[n].toks \in Seq(T)
  PROVE  Joined(toks, rest, N) \in Seq(T)
  <1> DEFINE IsText(c) ==
               c = [n \in 0 .. N |-> IF n = 0 THEN toks ELSE c[n - 1] \o rest[n].toks]
             text == CHOOSE c : IsText(c)
             g == [p \in (1 .. N) \X Seq(T) |-> p[2] \o rest[p[1]].toks]
  <1>2. Joined(toks, rest, N) = text[N]
    BY DEF Joined
  <1>3. \A n \in 1 .. N : \A s \in Seq(T) : g[<<n, s>>] = s \o rest[n].toks
    OBVIOUS
  <1>4. g \in [(1 .. N) \X Seq(T) -> Seq(T)]
    <2>1. ASSUME NEW p \in (1 .. N) \X Seq(T)
          PROVE  p[2] \o rest[p[1]].toks \in Seq(T)
      <3>1. rest[p[1]].toks \in Seq(T) /\ p[2] \in Seq(T)
        OBVIOUS
      <3> QED BY <3>1, ConcatProperties
    <2> QED BY <2>1
  <1> HIDE DEF g
  <1>6. PICK c \in [0 .. N -> Seq(T)] :
          \A n \in 0 .. N : c[n] = IF n = 0 THEN toks ELSE g[<<n, c[n - 1]>>]
    <2> DEFINE Q == Seq(T)
    <2>1. toks \in Q /\ g \in [(1 .. N) \X Q -> Q]
      BY <1>4
    <2> HIDE DEF Q
    <2>2. \E c \in [0 .. N -> Q] : Recurs(c, N, toks, g)
      BY <2>1, Recursion
    <2> QED BY <2>2 DEF Q, Recurs
  <1>7. IsText(c)
    <2>1. ASSUME NEW n \in 0 .. N, n # 0
          PROVE  c[n] = c[n - 1] \o rest[n].toks
      <3>1. n \in 1 .. N /\ n - 1 \in 0 .. N
        BY <2>1
      <3>2. c[n - 1] \in Seq(T)
        BY <3>1
      <3>3. c[n] = g[<<n, c[n - 1]>>]
        BY <1>6, <2>1
      <3> QED BY <1>3, <3>1, <3>2, <3>3
    <2>2. c = [n \in 0 .. N |-> c[n]]
      OBVIOUS
    <2> QED BY <1>6, <2>1, <2>2
  <1>8. IsText(text)
    <2> HIDE DEF IsText
    <2> QED BY <1>7
  <1> HIDE DEF text
  <1>9. \A n \in 0 .. N : text[n] = IF n = 0 THEN toks ELSE text[n - 1] \o rest[n].toks
    BY <1>8
  <1> DEFINE P == {n \in 0 .. N : text[n] \in Seq(T)}
  <1>10. 0 \in P
    BY <1>9
  <1>11. ASSUME NEW n \in 1 .. N, n - 1 \in P PROVE n \in P
    <2>1. n \in 0 .. N /\ n # 0 /\ text[n - 1] \in Seq(T) /\ rest[n].toks \in Seq(T)
      BY <1>11
    <2>2. text[n - 1] \o rest[n].toks \in Seq(T)
      BY <2>1, ConcatProperties
    <2>3. text[n] \in Seq(T)
      BY <1>9, <2>1, <2>2
    <2> QED BY <2>1, <2>3
  <1> HIDE DEF P
  <1>12. \A n \in 0 .. N : n \in P
    BY <1>10, <1>11, Steps
  <1>13. N \in P
    BY <1>12
  <1> QED BY <1>2, <1>13 DEF P

\* The rows that follow a call are rows of text.
LEMMA FollowingFact ==
  ASSUME NEW rest \in Seq(ReadRows), NEW look
  PROVE  /\ Following(rest, look) \in 0 .. Len(rest)
         /\ \A n \in 1 .. Following(rest, look) : rest[n].toks \in Seq(ReadTokens)
  <1> DEFINE F == {n \in 0 .. Len(rest) : n = Len(rest) \/ rest[n + 1].kind # "text"}
  <1>1. Len(rest) \in F /\ F \in SUBSET Nat
    OBVIOUS
  <1>2. Min(F) \in F /\ \A k \in F : Min(F) <= k
    BY <1>1, MinFact
  <1>3. CASE look
    <2>1. Following(rest, look) = Min(F)
      BY <1>3 DEF Following
    <2> DEFINE m == Min(F)
    <2>2. m \in 0 .. Len(rest) /\ \A k \in F : m <= k
      BY <1>2
    <2> HIDE DEF m
    <2>3. ASSUME NEW n \in 1 .. m PROVE rest[n].toks \in Seq(ReadTokens)
      <3>1. n - 1 \in 0 .. Len(rest) /\ n \in 1 .. Len(rest) /\ ~(m <= n - 1) /\ n - 1 + 1 = n
        BY <2>2
      <3>2. n - 1 \notin F
        BY <2>2, <3>1
      <3>3. rest[n].kind = "text"
        BY <3>1, <3>2
      <3>4. rest[n] \in ReadRows
        BY <3>1
      <3> QED BY <3>3, <3>4 DEF ReadRows
    <2> QED BY <2>1, <2>2, <2>3 DEF m
  <1>4. CASE ~look
    BY <1>4 DEF Following
  <1> QED BY <1>3, <1>4


\* The tokens among which a call is looked for.
LEMMA NthFact ==
  ASSUME NEW T, ReadTokens \subseteq T, NEW toks \in Seq(T), NEW rest \in Seq(ReadRows), NEW look,
         NEW n \in 0 .. Following(rest, look)
  PROVE  Nth(toks, rest, n) \in Seq(T)
  <1>1. CASE n = 0
    BY <1>1 DEF Nth
  <1>2. CASE n # 0
    <2>1. Following(rest, look) \in Nat /\ n \in 1 .. Following(rest, look)
      BY <1>2, FollowingFact
    <2>2. rest[n].toks \in Seq(ReadTokens)
      BY <2>1, FollowingFact
    <2>3. rest[n].toks \in Seq(T)
      BY <2>2, SeqMonotonic
    <2> QED BY <1>2, <2>3 DEF Nth
  <1> QED BY <1>1, <1>2

LEMMA ParenFact ==
  ASSUME NEW T, ReadTokens \subseteq T, NEW toks \in Seq(T), NEW rest \in Seq(ReadRows), NEW look
  PROVE  /\ FindParen(toks, rest, look).toks \in Seq(T)
         /\ FindParen(toks, rest, look).rows \in Seq(ReadRows)
  <1> DEFINE last == Following(rest, look)
             Starts(n) == {k \in DOMAIN Nth(toks, rest, n) : Nth(toks, rest, n)[k].t # "nl"}
             F == {n \in 0 .. last : n = last \/ Starts(n) # {}}
             row == Min(F)
             found == Starts(row) # {} /\ Nth(toks, rest, row)[Min(Starts(row))].t = "("
             passed == IF Starts(row) = {} THEN Len(Nth(toks, rest, row))
                       ELSE IF found THEN Min(Starts(row)) ELSE Min(Starts(row)) - 1
  <1>1. FindParen(toks, rest, look) =
          [found |-> found, toks |-> After(Nth(toks, rest, row), passed),
           rows |-> After(rest, row), apart |-> row > 0]
    BY DEF FindParen
  <1>2. last \in Nat
    BY FollowingFact
  <1>3. row \in 0 .. last
    <2>1. last \in F /\ F \in SUBSET Nat
      BY <1>2
    <2> HIDE DEF F
    <2>2. Min(F) \in F
      BY <2>1, MinFact
    <2> QED BY <2>2 DEF F
  <1> HIDE DEF row
  <1>4. Nth(toks, rest, row) \in Seq(T)
    BY <1>3, NthFact
  <1>5. Starts(row) \in SUBSET (Nat \ {0})
    BY <1>4
  <1>6. Starts(row) # {} => Min(Starts(row)) \in Nat \ {0}
    <2> DEFINE s == Starts(row)
    <2>1. s \in SUBSET (Nat \ {0})
      BY <1>5
    <2> HIDE DEF s
    <2>2. s # {} => Min(s) \in s
      BY <2>1, MinFact
    <2>3. s # {} => Min(s) \in Nat \ {0}
      BY <2>1, <2>2
    <2> QED BY <2>3 DEF s
  <1>7. Len(Nth(toks, rest, row)) \in Nat
    BY <1>4
  <1> HIDE DEF found
  <1>8. passed \in Nat
    BY <1>6, <1>7
  <1> HIDE DEF passed, last
  <1>9. After(Nth(toks, rest, row), passed) \in Seq(T)
    BY <1>4, <1>8, AfterFact
  <1>10. row \in Nat
    BY <1>2, <1>3
  <1>11. After(rest, row) \in Seq(ReadRows)
    BY <1>10, AfterFact
  <1> QED BY <1>1, <1>9, <1>11

LEMMA CloseFact ==
  ASSUME NEW T, ReadTokens \subseteq T, NEW toks \in Seq(T), NEW rest \in Seq(ReadRows), NEW look
  PROVE  /\ FindClose(toks, rest, look).inner \in Seq(T)
         /\ FindClose(toks, rest, look).toks \in Seq(T)
         /\ FindClose(toks, rest, look).rows \in Seq(ReadRows)
  <1> DEFINE last == Following(rest, look)
             all == Joined(toks, rest, last)
             E == {n \in 1 .. Len(all) + 1 : n > Len(all) \/ all[n].t = "eof"
                                             \/ (all[n].t = ")" /\ Depth(all, n) = -1)}
             end == Min(E)
             F == {n \in 0 .. last : n = last \/ Len(Joined(toks, rest, n)) >= end}
             row == Min(F)
             inner == Without(SubSeq(all, 1, end - 1), "nl")
  <1>1. FindClose(toks, rest, look) =
          [ok |-> end <= Len(all) /\ all[end].t = ")", inner |-> inner,
           toks |-> After(Joined(toks, rest, row), end), rows |-> After(rest, row)]
    BY DEF FindClose
  <1>2. last \in Nat
    BY FollowingFact
  <1>3. \A n \in 1 .. last : rest[n].toks \in Seq(T)
    <2> TAKE n \in 1 .. last
    <2>1. rest[n].toks \in Seq(ReadTokens)
      BY FollowingFact
    <2> QED BY <2>1, SeqMonotonic
  <1> HIDE DEF last
  <1>4. \A n \in 0 .. last : Joined(toks, rest, n) \in Seq(T)
    <2> TAKE n \in 0 .. last
    <2>1. n \in Nat /\ \A k \in 1 .. n : rest[k].toks \in Seq(T)
      BY <1>2, <1>3
    <2> QED BY <2>1, JoinedFact
  <1>5. all \in Seq(T) /\ Len(all) \in Nat
    BY <1>2, <1>4
  <1> HIDE DEF all
  <1>6. end \in 1 .. Len(all) + 1
    <2>1. Len(all) + 1 \in E /\ E \in SUBSET Nat
      BY <1>5
    <2> HIDE DEF E
    <2>2. Min(E) \in E
      BY <2>1, MinFact
    <2> QED BY <2>2 DEF E
  <1> HIDE DEF end
  <1>7. row \in 0 .. last
    <2>1. last \in F /\ F \in SUBSET Nat
      BY <1>2
    <2> HIDE DEF F
    <2>2. Min(F) \in F
      BY <2>1, MinFact
    <2> QED BY <2>2 DEF F
  <1> HIDE DEF row
  <1>8. inner \in Seq(T)
    <2> DEFINE before == end - 1
    <2>1. before \in Int /\ before <= Len(all)
      BY <1>5, <1>6
    <2> HIDE DEF before
    <2>2. SubSeq(all, 1, before) \in Seq(T)
      BY <1>5, <2>1, PieceFact
    <2>3. Without(SubSeq(all, 1, before), "nl") \in Seq(T)
      BY <2>2, WithoutFact
    <2> QED BY <2>3 DEF before
  <1> HIDE DEF inner
  <1>9. After(Joined(toks, rest, row), end) \in Seq(T)
    <2>1. Joined(toks, rest, row) \in Seq(T) /\ end \in Nat
      BY <1>4, <1>5, <1>6, <1>7
    <2> QED BY <2>1, AfterFact
  <1>10. After(rest, row) \in Seq(ReadRows)
    <2>1. row \in Nat
      BY <1>2, <1>7
    <2> QED BY <2>1, AfterFact
  <1> QED BY <1>1, <1>8, <1>9, <1>10

\* The arguments of a call have the tokens that are between its parentheses.
LEMMA GatherFact ==
  ASSUME NEW T, NEW m, NEW inner \in Seq(T)
  PROVE  Gather(m, inner) \in Seq(Seq(T))
  <1>1. CASE inner = <<>>
    BY <1>1 DEF Gather
  <1>2. CASE inner # <<>>
    <2> DEFINE commas == Commas(m, inner)
               N == Cardinality(commas) + 1
               arg(n) == SubSeq(inner, Behind(commas, n - 1, Len(inner)) + 1,
                                Behind(commas, n, Len(inner)) - 1)
    <2>1. Gather(m, inner) = [n \in 1 .. N |-> arg(n)]
      BY <1>2 DEF Gather
    <2>2. N \in Nat
      <3>1. commas \in SUBSET (1 .. Len(inner))
        <4>1. DOMAIN inner = 1 .. Len(inner)
          OBVIOUS
        <4>2. Commas(m, inner) \subseteq DOMAIN inner
          BY Zenon DEF Commas
        <4> QED BY <4>1, <4>2
      <3>2. IsFiniteSet(1 .. Len(inner))
        BY FS_Interval
      <3>3. IsFiniteSet(commas)
        BY <3>1, <3>2, FS_Subset
      <3>4. Cardinality(commas) \in Nat
        BY <3>3, FS_CardinalityType
      <3> QED BY <3>4
    <2> HIDE DEF commas
    <2>3. \A n : Behind(commas, n, Len(inner)) \in 0 .. Len(inner) + 1
      <3> TAKE n
      <3> DEFINE F == {k \in 0 .. Len(inner) + 1 :
                         k > Len(inner) \/ Cardinality({c \in commas : c <= k}) >= n}
      <3>1. Len(inner) + 1 \in F /\ F \in SUBSET Nat
        OBVIOUS
      <3>2. Behind(commas, n, Len(inner)) = Min(F)
        BY DEF Behind
      <3>3. F \in SUBSET (0 .. Len(inner) + 1)
        OBVIOUS
      <3> HIDE DEF F
      <3>4. Min(F) \in F
        BY <3>1, MinFact
      <3> QED BY <3>2, <3>3, <3>4
    <2>4. ASSUME NEW n \in 1 .. N PROVE arg(n) \in Seq(T)
      <3> DEFINE b == Behind(commas, n - 1, Len(inner)) + 1
                 e == Behind(commas, n, Len(inner)) - 1
      <3>1. b \in Nat \ {0} /\ e \in Int /\ e <= Len(inner)
        <4>1. /\ Behind(commas, n - 1, Len(inner)) \in 0 .. Len(inner) + 1
              /\ Behind(commas, n, Len(inner)) \in 0 .. Len(inner) + 1
          BY <2>3
        <4> QED BY <4>1
      <3> HIDE DEF b, e
      <3>2. SubSeq(inner, b, e) \in Seq(T)
        BY <3>1, PieceFact
      <3> QED BY <3>2 DEF b, e
    <2> HIDE DEF N, arg
    <2>5. [n \in 1 .. N |-> arg(n)] \in Seq(Seq(T))
      BY <2>2, <2>4
    <2> QED BY <2>1, <2>5
  <1> QED BY <1>1, <1>2


-----------------------------------------------------------------------------
(* Lemmas about tokens and frames.                                         *)

\* More spellings, and larger hidden sets.
Grown(S, hid, more, sets) ==
  /\ S \subseteq more
  /\ hid \in Seq(SUBSET S) /\ sets \in Seq(SUBSET more) /\ Len(hid) <= Len(sets)
  /\ \A n \in 1 .. Len(hid) : hid[n] \subseteq sets[n]

LEMMA TokensFact ==
  ASSUME NEW S, NEW more, S \subseteq more
  PROVE  Tokens(S) \subseteq Tokens(more)
  BY DEF Tokens

LEMMA GoodFact ==
  ASSUME NEW S, NEW hid, NEW more, NEW sets, NEW table, Grown(S, hid, more, sets)
  PROVE  Good(S, hid, table) \subseteq Good(more, sets, table)
  <1> SUFFICES ASSUME NEW tk \in Good(S, hid, table) PROVE tk \in Good(more, sets, table)
    OBVIOUS
  <1>1. /\ S \subseteq more /\ Len(hid) \in Nat /\ Len(sets) \in Nat /\ Len(hid) <= Len(sets)
        /\ \A n \in 1 .. Len(hid) : hid[n] \subseteq sets[n]
    BY DEF Grown
  <1>2. /\ tk \in Tokens(S) /\ tk.h \in 0 .. Len(hid)
        /\ tk.t = "id" /\ tk.s \in DOMAIN table => tk.from \subseteq HiddenBy(hid, tk)
    BY DEF Good
  <1>3. tk \in Tokens(more)
    BY <1>1, <1>2, TokensFact
  <1>4. HiddenBy(hid, tk) \subseteq HiddenBy(sets, tk)
    BY <1>1, <1>2 DEF HiddenBy
  <1>5. tk.h \in 0 .. Len(sets)
    BY <1>1, <1>2
  <1>6. tk.t = "id" /\ tk.s \in DOMAIN table => tk.from \subseteq HiddenBy(sets, tk)
    BY <1>2, <1>4
  <1> QED BY <1>3, <1>5, <1>6 DEF Good

LEMMA MadeFact ==
  ASSUME NEW S, NEW hid, NEW more, NEW sets, NEW table, NEW own, Grown(S, hid, more, sets)
  PROVE  Made(S, hid, table, own) \subseteq Made(more, sets, table, own)
  <1>1. Good(S, hid, table) \subseteq Good(more, sets, table)
    BY GoodFact
  <1>2. Tokens(S) \subseteq Tokens(more)
    BY TokensFact DEF Grown
  <1> QED BY <1>1, <1>2 DEF Made

\* The parts of a list's frame, and of a body's.
LEMMA ListParts ==
  ASSUME NEW S, NEW hid, NEW table, NEW f \in Lists(S, hid, table)
  PROVE  /\ f.kind = "scan" /\ f.linked \in BOOLEAN /\ f.look \in BOOLEAN
         /\ f.done \in Seq(Good(S, hid, table)) /\ f.rest \in Seq(Good(S, hid, table))
         /\ f = [kind |-> "scan", done |-> f.done, rest |-> f.rest, linked |-> f.linked,
                 look |-> f.look]
  BY DEF Lists

LEMMA BodyParts ==
  ASSUME NEW S, NEW hid, NEW table, NEW f \in Bodies(S, hid, table)
  PROVE  /\ f.kind = "body" /\ f.rest \in Seq(ReadTokens)
         /\ f.tk \in Good(S, hid, table) /\ f.args \in Seq(Seq(Good(S, hid, table)))
         /\ f.tk.t = "id" /\ f.tk.s \in DOMAIN table
         /\ f.done \in Seq(Made(S, hid, table, f.tk))
         /\ f.rest # <<>> /\ f.rest[1].t = "##" => f.done # <<>>
         /\ f = [kind |-> "body", done |-> f.done, rest |-> f.rest, tk |-> f.tk, args |-> f.args]
  BY DEF Bodies

LEMMA MadeTokens ==
  ASSUME NEW S, NEW hid, NEW table, NEW own
  PROVE  Made(S, hid, table, own) \subseteq Tokens(S)
  BY DEF Made, Good

LEMMA NewList ==
  ASSUME NEW S, NEW hid, NEW table,
         NEW done \in Seq(Good(S, hid, table)), NEW rest \in Seq(Good(S, hid, table)),
         NEW linked \in BOOLEAN, NEW look \in BOOLEAN
  PROVE  [kind |-> "scan", done |-> done, rest |-> rest, linked |-> linked, look |-> look]
           \in Lists(S, hid, table)
  BY DEF Lists

LEMMA NewBody ==
  ASSUME NEW S, NEW hid, NEW table, NEW tk \in Good(S, hid, table), tk.t = "id", tk.s \in DOMAIN table,
         NEW done \in Seq(Made(S, hid, table, tk)), NEW rest \in Seq(ReadTokens),
         NEW args \in Seq(Seq(Good(S, hid, table))),
         rest # <<>> /\ rest[1].t = "##" => done # <<>>
  PROVE  [kind |-> "body", done |-> done, rest |-> rest, tk |-> tk, args |-> args]
           \in Bodies(S, hid, table)
  <1> DEFINE f == [kind |-> "body", done |-> done, rest |-> rest, tk |-> tk, args |-> args]
  <1>1. done \in Seq(Tokens(S))
    BY MadeTokens, SeqMonotonic
  <1>2. f \in [kind : {"body"}, done : Seq(Tokens(S)), rest : Seq(ReadTokens),
               tk : Good(S, hid, table), args : Seq(Seq(Good(S, hid, table)))]
    BY <1>1
  <1>3. f.tk = tk /\ f.done = done /\ f.rest = rest
    OBVIOUS
  <1> HIDE DEF f
  <1>4. f \in Bodies(S, hid, table)
    BY <1>2, <1>3 DEF Bodies
  <1> QED BY <1>4 DEF f

LEMMA FramesFact ==
  ASSUME NEW S, NEW hid, NEW more, NEW sets, NEW table, Grown(S, hid, more, sets)
  PROVE  Frames(S, hid, table) \subseteq Frames(more, sets, table)
  <1>1. Good(S, hid, table) \subseteq Good(more, sets, table)
    BY GoodFact
  <1>2. \A s \in Seq(Good(S, hid, table)) : s \in Seq(Good(more, sets, table))
    BY <1>1, SeqMonotonic
  <1>3. ASSUME NEW f \in Lists(S, hid, table) PROVE f \in Lists(more, sets, table)
    <2>1. /\ f.linked \in BOOLEAN /\ f.look \in BOOLEAN
          /\ f.done \in Seq(Good(S, hid, table)) /\ f.rest \in Seq(Good(S, hid, table))
          /\ f = [kind |-> "scan", done |-> f.done, rest |-> f.rest, linked |-> f.linked,
                  look |-> f.look]
      BY ListParts
    <2>2. f.done \in Seq(Good(more, sets, table)) /\ f.rest \in Seq(Good(more, sets, table))
      BY <1>2, <2>1
    <2>3. [kind |-> "scan", done |-> f.done, rest |-> f.rest, linked |-> f.linked, look |-> f.look]
            \in Lists(more, sets, table)
      BY <2>1, <2>2, NewList
    <2> QED BY <2>1, <2>3
  <1>4. ASSUME NEW f \in Bodies(S, hid, table) PROVE f \in Bodies(more, sets, table)
    <2>1. /\ f.rest \in Seq(ReadTokens)
          /\ f.tk \in Good(S, hid, table) /\ f.args \in Seq(Seq(Good(S, hid, table)))
          /\ f.tk.t = "id" /\ f.tk.s \in DOMAIN table
          /\ f.done \in Seq(Made(S, hid, table, f.tk))
          /\ f.rest # <<>> /\ f.rest[1].t = "##" => f.done # <<>>
          /\ f = [kind |-> "body", done |-> f.done, rest |-> f.rest, tk |-> f.tk, args |-> f.args]
      BY BodyParts
    <2>2. f.tk \in Good(more, sets, table)
      BY <1>1, <2>1
    <2>3. f.args \in Seq(Seq(Good(more, sets, table)))
      <3>1. Seq(Good(S, hid, table)) \subseteq Seq(Good(more, sets, table))
        BY <1>2
      <3> QED BY <2>1, <3>1, SeqMonotonic
    <2>4. f.done \in Seq(Made(more, sets, table, f.tk))
      <3>1. Made(S, hid, table, f.tk) \subseteq Made(more, sets, table, f.tk)
        BY MadeFact
      <3> QED BY <2>1, <3>1, SeqMonotonic
    <2>5. [kind |-> "body", done |-> f.done, rest |-> f.rest, tk |-> f.tk, args |-> f.args]
            \in Bodies(more, sets, table)
      BY <2>1, <2>2, <2>3, <2>4, NewBody
    <2> QED BY <2>1, <2>5
  <1> QED BY <1>3, <1>4 DEF Frames

LEMMA SoundGrows ==
  ASSUME NEW S, NEW st, NEW hid, NEW more, NEW sets, NEW table,
         Sound(S, st, hid, table), Grown(S, hid, more, sets)
  PROVE  Sound(more, st, sets, table)
  <1>1. Frames(S, hid, table) \subseteq Frames(more, sets, table)
    BY FramesFact
  <1>2. st \in Seq(Frames(more, sets, table))
    BY <1>1, SeqMonotonic DEF Sound
  <1> QED BY <1>2 DEF Sound, Grown


-----------------------------------------------------------------------------
(* Lemmas about the stack of frames.                                       *)

Stacked(S, st, hid, table) == Sound(S, st, hid, table) /\ Alternate(st) /\ Len(st) >= 1

\* The frame on top is a list's or a body's.
LEMMA TopFact ==
  ASSUME NEW S, NEW st, NEW hid, NEW table, Stacked(S, st, hid, table)
  PROVE  /\ Last(st) \in Frames(S, hid, table)
         /\ Last(st).kind = "scan" => Last(st) \in Lists(S, hid, table)
         /\ Last(st).kind = "body" => Last(st) \in Bodies(S, hid, table)
  <1>1. st \in Seq(Frames(S, hid, table)) /\ st # <<>>
    BY DEF Stacked, Sound
  <1>2. Last(st) \in Frames(S, hid, table)
    BY <1>1, EndsFact
  <1>3. /\ Last(st) \in Lists(S, hid, table) => Last(st).kind = "scan"
        /\ Last(st) \in Bodies(S, hid, table) => Last(st).kind = "body"
    BY ListParts, BodyParts
  <1> QED BY <1>2, <1>3 DEF Frames

\* The frame on top goes on.
LEMMA OnFact ==
  ASSUME NEW S, NEW st, NEW hid, NEW table, Stacked(S, st, hid, table),
         NEW f \in Frames(S, hid, table), f.kind = Last(st).kind
  PROVE  /\ Stacked(S, Append(Front(st), f), hid, table)
         /\ Last(Append(Front(st), f)) = f
  <1> DEFINE F == Frames(S, hid, table)
             new == Append(Front(st), f)
             len == Len(st)
  <1>1. st \in Seq(F) /\ st # <<>> /\ Alternate(st) /\ len \in Nat /\ len >= 1
        /\ Sound(S, st, hid, table)
    BY DEF Stacked, Sound
  <1>2. f \in F
    OBVIOUS
  <1> HIDE DEF F
  <1>3. /\ Front(st) \in Seq(F) /\ Len(Front(st)) = len - 1 /\ Last(st) = st[len]
        /\ \A n \in 1 .. len - 1 : Front(st)[n] = st[n]
    BY <1>1, EndsFact
  <1> HIDE DEF len
  <1>4. /\ new \in Seq(F) /\ Len(new) = len /\ new[len] = f
        /\ \A n \in 1 .. len - 1 : new[n] = st[n]
    BY <1>1, <1>2, <1>3
  <1> HIDE DEF new
  <1>5. \A n \in 1 .. len : new[n].kind = st[n].kind
    <2> TAKE n \in 1 .. len
    <2>1. CASE n = len
      BY <1>3, <1>4, <2>1
    <2>2. CASE n \in 1 .. len - 1
      BY <1>4, <2>2
    <2> QED BY <1>1, <2>1, <2>2
  <1>6. /\ len >= 1 => st[1].kind = "scan"
        /\ \A n \in 1 .. len - 1 : st[n].kind # st[n + 1].kind
    BY <1>1 DEF Alternate, len
  <1>7. Alternate(new)
    <2>1. new[1].kind = "scan"
      BY <1>1, <1>5, <1>6
    <2>2. \A n \in 1 .. len - 1 : new[n].kind # new[n + 1].kind
      <3> TAKE n \in 1 .. len - 1
      <3>1. n \in 1 .. len /\ n + 1 \in 1 .. len
        BY <1>1
      <3> QED BY <1>5, <1>6, <3>1
    <2> QED BY <1>4, <2>1, <2>2 DEF Alternate
  <1>8. Sound(S, new, hid, table)
    BY <1>1, <1>4 DEF Sound, F
  <1>9. Last(new) = f
    BY <1>4 DEF Last
  <1>10. Stacked(S, new, hid, table)
    BY <1>1, <1>4, <1>7, <1>8 DEF Stacked
  <1> QED BY <1>9, <1>10 DEF new

\* A frame is put on top.
LEMMA PushFact ==
  ASSUME NEW S, NEW st, NEW hid, NEW table, Stacked(S, st, hid, table),
         NEW f \in Frames(S, hid, table), f.kind # Last(st).kind
  PROVE  Stacked(S, Append(st, f), hid, table)
  <1> DEFINE F == Frames(S, hid, table)
             new == Append(st, f)
             len == Len(st)
  <1>1. st \in Seq(F) /\ st # <<>> /\ Alternate(st) /\ len \in Nat /\ len >= 1
        /\ Sound(S, st, hid, table)
    BY DEF Stacked, Sound
  <1>2. f \in F
    OBVIOUS
  <1> HIDE DEF F
  <1>3. Last(st) = st[len]
    BY DEF Last
  <1>4. /\ new \in Seq(F) /\ Len(new) = len + 1 /\ new[len + 1] = f
        /\ \A n \in 1 .. len : new[n] = st[n]
    BY <1>1, <1>2
  <1>6. /\ len >= 1 => st[1].kind = "scan"
        /\ \A n \in 1 .. len - 1 : st[n].kind # st[n + 1].kind
    BY <1>1 DEF Alternate
  <1> HIDE DEF new, len
  <1>7. Alternate(new)
    <2>1. new[1].kind = "scan"
      BY <1>1, <1>4, <1>6
    <2>2. \A n \in 1 .. len : new[n].kind # new[n + 1].kind
      <3> TAKE n \in 1 .. len
      <3>1. CASE n = len
        BY <1>1, <1>3, <1>4, <3>1
      <3>2. CASE n \in 1 .. len - 1
        <4>1. n + 1 \in 1 .. len
          BY <1>1, <3>2
        <4> QED BY <1>4, <1>6, <3>2, <4>1
      <3> QED BY <1>1, <3>1, <3>2
    <2>3. Len(new) - 1 = len
      BY <1>1, <1>4
    <2> QED BY <2>1, <2>2, <2>3 DEF Alternate
  <1>8. Sound(S, new, hid, table)
    BY <1>1, <1>4 DEF Sound, F
  <1>10. Stacked(S, new, hid, table)
    BY <1>1, <1>4, <1>7, <1>8 DEF Stacked
  <1> QED BY <1>10 DEF new

\* The frame on top is left, and the one below goes on.
LEMMA BackFact ==
  ASSUME NEW S, NEW st, NEW hid, NEW table, Stacked(S, st, hid, table), Len(st) >= 2
  PROVE  /\ st[Len(st) - 1] \in Frames(S, hid, table)
         /\ st[Len(st) - 1].kind # Last(st).kind
         /\ \A f \in Frames(S, hid, table) : f.kind = st[Len(st) - 1].kind =>
              Stacked(S, SubSeq(st, 1, Len(st) - 2) \o <<f>>, hid, table)
  <1> DEFINE F == Frames(S, hid, table)
             len == Len(st) - 1
             low == SubSeq(st, 1, len - 1)
  <1>1. /\ st \in Seq(F) /\ Alternate(st) /\ len \in Nat /\ len >= 1 /\ Len(st) = len + 1
        /\ Sound(S, st, hid, table)
    <2>1. st \in Seq(F) /\ Alternate(st) /\ Sound(S, st, hid, table)
      BY DEF Stacked, Sound
    <2> HIDE DEF F
    <2>2. Len(st) \in Nat
      BY <2>1
    <2> QED BY <2>1, <2>2
  <1>2. Last(st) = st[len + 1]
    BY <1>1 DEF Last
  <1>3. /\ st[1].kind = "scan"
        /\ \A n \in 1 .. len : st[n].kind # st[n + 1].kind
    BY <1>1 DEF Alternate
  <1>4. Len(st) - 2 = len - 1
    BY <1>1
  <1> HIDE DEF len
  <1>5. st[len] \in F /\ st[len].kind # st[len + 1].kind
    BY <1>1, <1>3
  <1>6. /\ low \in Seq(F) /\ Len(low) = len - 1
        /\ \A n \in 1 .. len - 1 : low[n] = st[n]
    <2> DEFINE k == len - 1
               sub == SubSeq(st, 1, k)
    <2>1. k \in Nat /\ k <= Len(st) /\ k = len - 1
      BY <1>1
    <2> HIDE DEF k
    <2>2. \A i \in 1 .. k : st[i] \in F
      BY <1>1, <2>1
    <2>3. /\ sub \in Seq(F)
          /\ Len(sub) = IF 1 <= k THEN k - 1 + 1 ELSE 0
          /\ \A i \in 1 .. k - 1 + 1 : sub[i] = st[1 + i - 1]
      BY <2>1, <2>2, SubSeqProperties
    <2> HIDE DEF sub
    <2>4. Len(sub) = k
      BY <2>1, <2>3
    <2>5. ASSUME NEW n \in 1 .. k PROVE sub[n] = st[n]
      <3>1. n \in 1 .. k - 1 + 1 /\ 1 + n - 1 = n
        BY <2>1
      <3> QED BY <2>3, <3>1
    <2>6. low = sub
      BY <2>1 DEF sub
    <2> QED BY <2>1, <2>3, <2>4, <2>5, <2>6
  <1> HIDE DEF low
  <1>7. ASSUME NEW f \in F, f.kind = st[len].kind PROVE Stacked(S, low \o <<f>>, hid, table)
    <2> DEFINE new == low \o <<f>>
    <2>1. /\ new \in Seq(F) /\ Len(new) = len /\ new[len] = f
          /\ \A n \in 1 .. len - 1 : new[n] = st[n]
      <3> HIDE DEF F
      <3>1. <<f>> \in Seq(F) /\ Len(<<f>>) = 1 /\ <<f>>[1] = f
        OBVIOUS
      <3>2. /\ new \in Seq(F) /\ Len(new) = Len(low) + 1
            /\ \A i \in 1 .. Len(low) + 1 :
                 new[i] = IF i <= Len(low) THEN low[i] ELSE <<f>>[i - Len(low)]
        BY <1>6, <3>1, ConcatProperties
      <3> HIDE DEF new
      <3> QED BY <1>1, <1>6, <3>1, <3>2
    <2> HIDE DEF new
    <2>2. \A n \in 1 .. len : new[n].kind = st[n].kind
      <3> TAKE n \in 1 .. len
      <3>1. CASE n = len
        BY <1>7, <2>1, <3>1
      <3>2. CASE n \in 1 .. len - 1
        BY <2>1, <3>2
      <3> QED BY <1>1, <3>1, <3>2
    <2>3. Alternate(new)
      <3>1. new[1].kind = "scan"
        BY <1>1, <1>3, <2>2
      <3>2. \A n \in 1 .. len - 1 : new[n].kind # new[n + 1].kind
        <4> TAKE n \in 1 .. len - 1
        <4>1. n \in 1 .. len /\ n + 1 \in 1 .. len
          BY <1>1
        <4> QED BY <1>3, <2>2, <4>1
      <3> QED BY <2>1, <3>1, <3>2 DEF Alternate
    <2>4. Sound(S, new, hid, table)
      BY <1>1, <2>1 DEF Sound
    <2>5. Stacked(S, new, hid, table)
      BY <1>1, <2>1, <2>3, <2>4 DEF Stacked
    <2> QED BY <2>5 DEF new
  <1> QED BY <1>2, <1>4, <1>5, <1>7 DEF len, low


-----------------------------------------------------------------------------
(* The actions of lists preserve the invariant.                            *)

LEMMA InRow ==
  ASSUME MInv, phase = "row"
  PROVE  /\ \E S : Stacked(S, stack, hidden, macros)
         /\ rows \in Seq(ReadRows) /\ IsTable(macros)
  BY DEF MInv, Stacked

\* What a step within a row has to keep.
LEMMA RowKept ==
  ASSUME MInv, phase = "row", macros' = macros, phase' = phase, rows' \in Seq(ReadRows),
         NEW S, Stacked(S, stack', hidden', macros)
  PROVE  MInv'
  <1>1. IsTable(macros')
    BY DEF MInv
  <1>2. Sound(S, stack', hidden', macros') /\ Alternate(stack') /\ Len(stack') >= 1
    BY DEF Stacked
  <1>3. \E T : Sound(T, stack', hidden', macros')
    BY <1>2
  <1> QED BY <1>1, <1>2, <1>3 DEF MInv

LEMMA FrameOn ==
  ASSUME MInv, phase = "row", macros' = macros, phase' = phase, rows' \in Seq(ReadRows),
         hidden' = hidden, NEW S, Stacked(S, stack, hidden, macros),
         NEW f \in Frames(S, hidden, macros), f.kind = Top.kind, stack' = With(f)
  PROVE  MInv'
  <1>1. Stacked(S, Append(Front(stack), f), hidden, macros)
    BY OnFact DEF Top
  <1>2. Stacked(S, stack', hidden', macros)
    BY <1>1 DEF With
  <1> QED BY <1>2, RowKept

LEMMA FailKeeps == ASSUME MInv, Fail PROVE MInv'
  <1>1. /\ phase' = "failed" /\ rows' = rows /\ macros' = macros /\ hidden' = hidden
        /\ stack' = stack
    BY DEF Fail
  <1>2. IsTable(macros') /\ rows' \in Seq(ReadRows) /\ Alternate(stack')
    BY <1>1 DEF MInv
  <1>3. PICK S : Sound(S, stack, hidden, macros)
    BY DEF MInv
  <1>4. Sound(S, stack', hidden', macros')
    BY <1>1, <1>3
  <1>5. \E T : Sound(T, stack', hidden', macros')
    BY <1>4
  <1> QED BY <1>1, <1>2, <1>5 DEF MInv

\* What is read needs no hidden set.
LEMMA ReadGood ==
  ASSUME NEW S, NEW hid, NEW table, Words \subseteq S, hid \in Seq(SUBSET S)
  PROVE  ReadTokens \subseteq Good(S, hid, table)
  <1> SUFFICES ASSUME NEW tk \in ReadTokens PROVE tk \in Good(S, hid, table)
    OBVIOUS
  <1>1. tk.h = 0 /\ tk.from = {} /\ tk \in Tokens(S)
    <2>1. /\ tk.h = 0 /\ tk.from = {} /\ tk.t \in Words /\ tk.s \in Words
          /\ tk = [t |-> tk.t, s |-> tk.s, h |-> tk.h, from |-> tk.from]
      BY DEF ReadTokens
    <2>2. tk.t \in S /\ tk.s \in S
      BY <2>1
    <2>4. tk.h \in Nat /\ tk.from \in SUBSET S
      <3>1. 0 \in Nat /\ {} \in SUBSET S
        OBVIOUS
      <3> QED BY <2>1, <3>1
    <2>3. [t |-> tk.t, s |-> tk.s, h |-> tk.h, from |-> tk.from] \in Tokens(S)
      BY <2>2, <2>4 DEF Tokens
    <2> QED BY <2>1, <2>3
  <1>2. Len(hid) \in Nat
    OBVIOUS
  <1>3. tk.h \in 0 .. Len(hid) /\ tk.from \subseteq HiddenBy(hid, tk)
    BY <1>1, <1>2
  <1> QED BY <1>1, <1>3 DEF Good

LEMMA TokenFact ==
  ASSUME NEW t \in Words, NEW s \in Words
  PROVE  Token(t, s) \in ReadTokens
  BY DEF Token, ReadTokens

\* A list goes on.
LEMMA RestOn ==
  ASSUME NEW S, NEW hid, NEW table, NEW f \in Lists(S, hid, table),
         NEW rest \in Seq(Good(S, hid, table))
  PROVE  [f EXCEPT !.rest = rest] \in Lists(S, hid, table) /\ [f EXCEPT !.rest = rest].kind = "scan"
  <1>1. /\ f.kind = "scan" /\ f.linked \in BOOLEAN /\ f.look \in BOOLEAN
        /\ f.done \in Seq(Good(S, hid, table))
        /\ f = [kind |-> "scan", done |-> f.done, rest |-> f.rest, linked |-> f.linked,
                look |-> f.look]
    BY ListParts
  <1>2. [f EXCEPT !.rest = rest] =
          [kind |-> "scan", done |-> f.done, rest |-> rest, linked |-> f.linked, look |-> f.look]
    BY <1>1
  <1>3. [kind |-> "scan", done |-> f.done, rest |-> rest, linked |-> f.linked, look |-> f.look]
          \in Lists(S, hid, table)
    BY <1>1, NewList
  <1> QED BY <1>2, <1>3

LEMMA ListOn ==
  ASSUME NEW S, NEW hid, NEW table, NEW f \in Lists(S, hid, table),
         NEW tks \in Seq(Good(S, hid, table)), NEW rest \in Seq(Good(S, hid, table)),
         NEW linked \in BOOLEAN
  PROVE  /\ Passed(f, tks, rest) \in Lists(S, hid, table)
         /\ [Passed(f, tks, rest) EXCEPT !.linked = linked] \in Lists(S, hid, table)
         /\ Passed(f, tks, rest).linked = f.linked
  <1>1. /\ f.kind = "scan" /\ f.linked \in BOOLEAN /\ f.look \in BOOLEAN
        /\ f.done \in Seq(Good(S, hid, table)) /\ f.rest \in Seq(Good(S, hid, table))
        /\ f = [kind |-> "scan", done |-> f.done, rest |-> f.rest, linked |-> f.linked,
                look |-> f.look]
    BY ListParts
  <1> DEFINE done == IF f.linked THEN f.done \o tks ELSE f.done
  <1>2. done \in Seq(Good(S, hid, table))
    BY <1>1, ConcatProperties
  <1>3. Passed(f, tks, rest) = [f EXCEPT !.rest = rest, !.done = done]
    BY DEF Passed
  <1> HIDE DEF done
  <1>4. Passed(f, tks, rest) =
          [kind |-> "scan", done |-> done, rest |-> rest, linked |-> f.linked, look |-> f.look]
    BY <1>1, <1>3
  <1>5. \A b \in BOOLEAN :
          [kind |-> "scan", done |-> done, rest |-> rest, linked |-> b, look |-> f.look]
            \in Lists(S, hid, table)
    BY <1>1, <1>2, NewList
  <1> DEFINE p == Passed(f, tks, rest)
  <1>6. p = [kind |-> "scan", done |-> done, rest |-> rest, linked |-> f.linked, look |-> f.look]
    BY <1>4
  <1> HIDE DEF p
  <1>7. [p EXCEPT !.linked = linked] =
          [kind |-> "scan", done |-> done, rest |-> rest, linked |-> linked, look |-> f.look]
    BY <1>6
  <1>8. p \in Lists(S, hid, table) /\ [p EXCEPT !.linked = linked] \in Lists(S, hid, table)
    BY <1>1, <1>5, <1>6, <1>7
  <1>9. p.linked = f.linked
    BY <1>6
  <1> QED BY <1>8, <1>9 DEF p

\* A list is on top.
LEMMA ScanFact ==
  ASSUME MInv, Scanning, NEW S, Stacked(S, stack, hidden, macros)
  PROVE  /\ Top \in Lists(S, hidden, macros) /\ Top \in Frames(S, hidden, macros)
         /\ Top.kind = "scan" /\ Top.linked \in BOOLEAN /\ Top.look \in BOOLEAN
         /\ Top.rest \in Seq(Good(S, hidden, macros)) /\ Top.rest # <<>>
         /\ Head(Top.rest) \in Good(S, hidden, macros)
         /\ Tail(Top.rest) \in Seq(Good(S, hidden, macros))
         /\ ReadTokens \subseteq Good(S, hidden, macros)
         /\ Seq(ReadTokens) \subseteq Seq(Good(S, hidden, macros))
         /\ rows \in Seq(ReadRows) /\ IsTable(macros)
  <1>1. Top.kind = "scan" /\ Top.rest # <<>>
    BY DEF Scanning
  <1>2. Top \in Lists(S, hidden, macros)
    BY <1>1, TopFact DEF Top
  <1>3. /\ Top.linked \in BOOLEAN /\ Top.look \in BOOLEAN
        /\ Top.rest \in Seq(Good(S, hidden, macros))
    BY <1>2, ListParts
  <1>4. Head(Top.rest) \in Good(S, hidden, macros) /\ Tail(Top.rest) \in Seq(Good(S, hidden, macros))
    BY <1>1, <1>3, EndsFact
  <1>5. Words \subseteq S /\ hidden \in Seq(SUBSET S)
    BY DEF Stacked, Sound
  <1>6. ReadTokens \subseteq Good(S, hidden, macros)
    BY <1>5, ReadGood
  <1>7. Seq(ReadTokens) \subseteq Seq(Good(S, hidden, macros))
    BY <1>6, SeqMonotonic
  <1>8. Top \in Frames(S, hidden, macros)
    BY <1>2 DEF Frames
  <1>9. rows \in Seq(ReadRows) /\ IsTable(macros)
    BY DEF MInv
  <1> QED BY <1>1, <1>2, <1>3, <1>4, <1>6, <1>7, <1>8, <1>9

\* The list on top goes on, with another rest.
LEMMA RestKeeps ==
  ASSUME MInv, Scanning, NEW S, Stacked(S, stack, hidden, macros),
         UNCHANGED <<program, rows, macros, hidden, phase>>,
         NEW rest \in Seq(Good(S, hidden, macros)), stack' = With([Top EXCEPT !.rest = rest])
  PROVE  MInv'
  <1> DEFINE f == [Top EXCEPT !.rest = rest]
  <1>1. Top \in Lists(S, hidden, macros) /\ Top.kind = "scan" /\ rows' \in Seq(ReadRows)
    BY ScanFact
  <1>2. f \in Lists(S, hidden, macros) /\ f.kind = "scan"
    BY <1>1, RestOn
  <1>3. f \in Frames(S, hidden, macros) /\ f.kind = Top.kind
    BY <1>1, <1>2 DEF Frames
  <1>4. stack' = With(f) /\ macros' = macros /\ hidden' = hidden /\ phase' = phase /\ phase = "row"
    BY DEF Scanning
  <1> HIDE DEF f
  <1> QED BY <1>1, <1>3, <1>4, FrameOn

LEMMA PassTokenKeeps == ASSUME MInv, PassToken PROVE MInv'
  <1> DEFINE tk == Head(Top.rest)
             f == Passed(Top, <<tk>>, Tail(Top.rest))
  <1>1. Scanning /\ stack' = With(f) /\ phase = "row"
        /\ macros' = macros /\ hidden' = hidden /\ phase' = phase /\ rows' = rows
    BY DEF PassToken, Scanning
  <1>2. PICK S : Stacked(S, stack, hidden, macros)
    BY <1>1, InRow
  <1>3. /\ Top \in Lists(S, hidden, macros) /\ Top.kind = "scan" /\ rows' \in Seq(ReadRows)
        /\ tk \in Good(S, hidden, macros) /\ Tail(Top.rest) \in Seq(Good(S, hidden, macros))
    BY <1>1, <1>2, ScanFact
  <1>4. <<tk>> \in Seq(Good(S, hidden, macros))
    BY <1>3
  <1>5. f \in Lists(S, hidden, macros)
    BY <1>3, <1>4, ListOn
  <1>6. f \in Frames(S, hidden, macros) /\ f.kind = Top.kind
    BY <1>3, <1>5, ListParts DEF Frames
  <1> HIDE DEF f
  <1> QED BY <1>1, <1>2, <1>3, <1>6, FrameOn

LEMMA IsDefinedKeeps == ASSUME MInv, IsDefined PROVE MInv'
  <1> DEFINE rest == Tail(Top.rest)
             Types == [n \in DOMAIN rest |-> rest[n].t]
             bare == IsPrefix(<<"id">>, Types)
             enclosed == IsPrefix(<<"(", "id", ")">>, Types)
             length == IF bare THEN 1 ELSE IF enclosed THEN 3 ELSE 0
             known == rest[(length + 1) \div 2].s \in DOMAIN macros
             value == IF known THEN "1" ELSE "0"
             next == <<Token("num", value)>> \o After(rest, length)
  <1>1. /\ Scanning
        /\ \/ Fail
           \/ /\ stack' = With([Top EXCEPT !.rest = next])
              /\ UNCHANGED <<program, rows, macros, hidden, phase>>
    BY DEF IsDefined
  <1>2. CASE Fail
    BY <1>2, FailKeeps
  <1>3. CASE /\ stack' = With([Top EXCEPT !.rest = next])
             /\ UNCHANGED <<program, rows, macros, hidden, phase>>
    <2>1. PICK S : Stacked(S, stack, hidden, macros)
      BY <1>1, InRow DEF Scanning
    <2>2. /\ rest \in Seq(Good(S, hidden, macros))
          /\ ReadTokens \subseteq Good(S, hidden, macros)
      BY <1>1, <2>1, ScanFact
    <2>9. \A n \in Nat : After(rest, n) \in Seq(Good(S, hidden, macros))
      BY <2>2, AfterFact
    <2> HIDE DEF rest, Types, bare, enclosed, known
    <2>3. length \in Nat
      OBVIOUS
    <2>7. value \in Words
      BY DEF Words
    <2>8. "num" \in Words
      BY DEF Words
    <2> HIDE DEF length, value
    <2>4. After(rest, length) \in Seq(Good(S, hidden, macros))
      BY <2>3, <2>9
    <2>5. Token("num", value) \in Good(S, hidden, macros)
      BY <2>2, <2>7, <2>8, TokenFact
    <2>6. next \in Seq(Good(S, hidden, macros))
      <3>1. <<Token("num", value)>> \in Seq(Good(S, hidden, macros))
        BY <2>5
      <3> QED BY <2>4, <3>1, ConcatProperties
    <2> HIDE DEF next
    <2> QED BY <1>1, <1>3, <2>1, <2>6, RestKeeps
  <1> QED BY <1>1, <1>2, <1>3

\* The body of a macro has been read.
LEMMA BodyRead ==
  ASSUME NEW table, IsTable(table), NEW s \in DOMAIN table
  PROVE  /\ table[s] \in Macros /\ table[s].body \in Seq(ReadTokens)
         /\ table[s].body # <<>> => table[s].body[1].t # "##"
         /\ table[s].params \in Seq(Words)
  BY DEF IsTable, Macros

LEMMA BuiltinKeeps == ASSUME MInv, Builtin PROVE MInv'
  <1> DEFINE tk == Head(Top.rest)
             next == macros[tk.s].body \o Tail(Top.rest)
  <1>1. /\ Scanning /\ tk.s \in DOMAIN macros
        /\ stack' = With([Top EXCEPT !.rest = next])
        /\ UNCHANGED <<program, rows, macros, hidden, phase>>
    BY DEF Builtin, Expandable, Defined
  <1>2. PICK S : Stacked(S, stack, hidden, macros)
    BY <1>1, InRow DEF Scanning
  <1>3. /\ Tail(Top.rest) \in Seq(Good(S, hidden, macros))
        /\ Seq(ReadTokens) \subseteq Seq(Good(S, hidden, macros)) /\ IsTable(macros)
    BY <1>1, <1>2, ScanFact
  <1>4. macros[tk.s].body \in Seq(Good(S, hidden, macros))
    BY <1>1, <1>3, BodyRead
  <1>5. next \in Seq(Good(S, hidden, macros))
    BY <1>3, <1>4, ConcatProperties
  <1> HIDE DEF next
  <1> QED BY <1>1, <1>2, <1>5, RestKeeps

\* A macro's body is put on the list that names it, which goes on with rest.
LEMMA CallKeeps ==
  ASSUME MInv, Scanning, NEW S, Stacked(S, stack, hidden, macros), Expandable(Head(Top.rest)),
         macros' = macros, hidden' = hidden, phase' = phase, rows' \in Seq(ReadRows),
         NEW rest \in Seq(Good(S, hidden, macros)),
         NEW args \in Seq(Seq(Good(S, hidden, macros))),
         stack' = Append(With([Top EXCEPT !.rest = rest]), Body(Head(Top.rest), args))
  PROVE  MInv'
  <1> DEFINE tk == Head(Top.rest)
             f == [Top EXCEPT !.rest = rest]
             b == Body(tk, args)
  <1>1. /\ Top \in Lists(S, hidden, macros) /\ Top.kind = "scan" /\ IsTable(macros)
        /\ tk \in Good(S, hidden, macros)
    BY ScanFact
  <1>2. f \in Lists(S, hidden, macros) /\ f.kind = "scan"
    BY <1>1, RestOn
  <1>3. f \in Frames(S, hidden, macros) /\ f.kind = Last(stack).kind
    BY <1>1, <1>2 DEF Frames, Top
  <1>4. tk.t = "id" /\ tk.s \in DOMAIN macros
    BY DEF Expandable, Defined, IsId
  <1>5. /\ macros[tk.s].body \in Seq(ReadTokens)
        /\ macros[tk.s].body # <<>> => macros[tk.s].body[1].t # "##"
    BY <1>1, <1>4, BodyRead
  <1>6. b = [kind |-> "body", done |-> <<>>, rest |-> macros[tk.s].body, tk |-> tk, args |-> args]
    BY DEF Body
  <1>7. <<>> \in Seq(Made(S, hidden, macros, tk))
    OBVIOUS
  <1> HIDE DEF tk, f, b
  <1>8. b \in Bodies(S, hidden, macros) /\ b.kind = "body"
    <2>1. [kind |-> "body", done |-> <<>>, rest |-> macros[tk.s].body, tk |-> tk, args |-> args]
            \in Bodies(S, hidden, macros)
      BY <1>1, <1>4, <1>5, <1>7, NewBody
    <2> QED BY <1>6, <2>1
  <1>9. b \in Frames(S, hidden, macros)
    BY <1>8 DEF Frames
  <1> DEFINE st == Append(Front(stack), f)
  <1>10. Stacked(S, st, hidden, macros) /\ Last(st) = f
    BY <1>3, OnFact
  <1>11. stack' = Append(st, b)
    BY DEF With, f, b, tk
  <1> HIDE DEF st
  <1>12. b.kind # Last(st).kind
    BY <1>2, <1>8, <1>10
  <1>13. Stacked(S, Append(st, b), hidden, macros)
    BY <1>9, <1>10, <1>12, PushFact
  <1>14. Stacked(S, stack', hidden', macros) /\ phase = "row"
    BY <1>11, <1>13 DEF Scanning
  <1> QED BY <1>14, RowKept

LEMMA ExpandObjectKeeps == ASSUME MInv, ExpandObject PROVE MInv'
  <1> DEFINE rest == Tail(Top.rest)
  <1>1. /\ Scanning /\ Expandable(Head(Top.rest))
        /\ macros' = macros /\ hidden' = hidden /\ phase' = phase /\ rows' = rows
        /\ stack' = Append(With([Top EXCEPT !.rest = rest]), Body(Head(Top.rest), <<>>))
    BY DEF ExpandObject
  <1>2. PICK S : Stacked(S, stack, hidden, macros)
    BY <1>1, InRow DEF Scanning
  <1>3. rest \in Seq(Good(S, hidden, macros)) /\ rows' \in Seq(ReadRows)
    BY <1>1, <1>2, ScanFact
  <1>4. <<>> \in Seq(Seq(Good(S, hidden, macros)))
    OBVIOUS
  <1> HIDE DEF rest
  <1> QED BY <1>1, <1>2, <1>3, <1>4, CallKeeps


\* A call: the list goes on after the parenthesis that closes it.
LEMMA ExpandCallKeeps == ASSUME MInv, ExpandCall PROVE MInv'
  <1> DEFINE tk == Head(Top.rest)
  <1>1. Scanning /\ CallsMacro(tk)
    BY DEF ExpandCall
  <1>2. PICK p \in {Opening} :
          \E c \in {FindClose(p.toks, p.rows, Top.look)} :
          \E args \in {Gather(macros[tk.s], c.inner)} :
            IF c.ok /\ Agrees(macros[tk.s], args)
            THEN /\ stack' = Append(With([Top EXCEPT !.rest = c.toks]), Body(tk, args))
                 /\ rows' = c.rows
                 /\ UNCHANGED <<program, macros, hidden, out, phase>>
            ELSE Fail
    BY DEF ExpandCall
  <1>3. PICK c \in {FindClose(p.toks, p.rows, Top.look)} :
          \E args \in {Gather(macros[tk.s], c.inner)} :
            IF c.ok /\ Agrees(macros[tk.s], args)
            THEN /\ stack' = Append(With([Top EXCEPT !.rest = c.toks]), Body(tk, args))
                 /\ rows' = c.rows
                 /\ UNCHANGED <<program, macros, hidden, out, phase>>
            ELSE Fail
    BY <1>2
  <1>4. PICK args \in {Gather(macros[tk.s], c.inner)} :
            IF c.ok /\ Agrees(macros[tk.s], args)
            THEN /\ stack' = Append(With([Top EXCEPT !.rest = c.toks]), Body(tk, args))
                 /\ rows' = c.rows
                 /\ UNCHANGED <<program, macros, hidden, out, phase>>
            ELSE Fail
    BY <1>3
  <1>5. CASE Fail
    BY <1>5, FailKeeps
  <1>6. CASE /\ stack' = Append(With([Top EXCEPT !.rest = c.toks]), Body(tk, args))
             /\ rows' = c.rows
             /\ UNCHANGED <<program, macros, hidden, out, phase>>
    <2>1. PICK S : Stacked(S, stack, hidden, macros)
      BY <1>1, InRow DEF Scanning
    <2> DEFINE T == Good(S, hidden, macros)
    <2>2. Tail(Top.rest) \in Seq(T) /\ ReadTokens \subseteq T /\ rows \in Seq(ReadRows)
      BY <1>1, <2>1, ScanFact
    <2>9. T = Good(S, hidden, macros)
      OBVIOUS
    <2> HIDE DEF T
    <2>3. p.toks \in Seq(T) /\ p.rows \in Seq(ReadRows)
      <3>1. /\ FindParen(Tail(Top.rest), rows, Top.look).toks \in Seq(T)
            /\ FindParen(Tail(Top.rest), rows, Top.look).rows \in Seq(ReadRows)
        BY <2>2, ParenFact
      <3> QED BY <3>1 DEF Opening
    <2>4. c.inner \in Seq(T) /\ c.toks \in Seq(T) /\ c.rows \in Seq(ReadRows)
      <3>1. /\ FindClose(p.toks, p.rows, Top.look).inner \in Seq(T)
            /\ FindClose(p.toks, p.rows, Top.look).toks \in Seq(T)
            /\ FindClose(p.toks, p.rows, Top.look).rows \in Seq(ReadRows)
        BY <2>2, <2>3, CloseFact
      <3> QED BY <3>1
    <2>5. args \in Seq(Seq(T))
      <3>1. Gather(macros[tk.s], c.inner) \in Seq(Seq(T))
        BY <2>4, GatherFact
      <3> QED BY <3>1
    <2> DEFINE rest == c.toks
    <2>6. /\ stack' = Append(With([Top EXCEPT !.rest = rest]), Body(tk, args))
          /\ rows' \in Seq(ReadRows)
          /\ macros' = macros /\ hidden' = hidden /\ phase' = phase
      BY <1>6, <2>4
    <2>7. rest \in Seq(Good(S, hidden, macros)) /\ args \in Seq(Seq(Good(S, hidden, macros)))
      BY <2>4, <2>5, <2>9
    <2>8. Expandable(tk)
      BY <1>1 DEF CallsMacro
    <2> HIDE DEF rest
    <2> QED BY <1>1, <2>1, <2>6, <2>7, <2>8, CallKeeps
  <1> QED BY <1>4, <1>5, <1>6

\* No call: what the list has passed is written, or not.
LEMMA NotACallKeeps == ASSUME MInv, NotACall PROVE MInv'
  <1>1. /\ Scanning
        /\ stack' = With(SkipName(Top, Opening)) /\ rows' = Opening.rows
        /\ macros' = macros /\ hidden' = hidden /\ phase' = phase
    BY DEF NotACall
  <1>2. PICK S : Stacked(S, stack, hidden, macros)
    BY <1>1, InRow DEF Scanning
  <1> DEFINE T == Good(S, hidden, macros)
             p == Opening
  <1>3. /\ Top \in Lists(S, hidden, macros) /\ Top.kind = "scan"
        /\ Top.rest \in Seq(T) /\ Top.linked \in BOOLEAN
        /\ Tail(Top.rest) \in Seq(T) /\ ReadTokens \subseteq T /\ rows \in Seq(ReadRows)
    BY <1>1, <1>2, ScanFact
  <1>4. T = Good(S, hidden, macros)
    OBVIOUS
  <1> HIDE DEF T
  <1>5. p.toks \in Seq(T) /\ p.rows \in Seq(ReadRows)
    <2>1. /\ FindParen(Tail(Top.rest), rows, Top.look).toks \in Seq(T)
          /\ FindParen(Tail(Top.rest), rows, Top.look).rows \in Seq(ReadRows)
      BY <1>3, ParenFact
    <2> QED BY <2>1 DEF Opening
  <1>6. p = Opening
    OBVIOUS
  <1> HIDE DEF p
  <1> DEFINE after == After(p.toks, 1)
             apart == p.apart
             cut == Len(Top.rest) - Len(after)
             passed == IF apart THEN Top.rest ELSE SubSeq(Top.rest, 1, cut)
             linked == Top.linked /\ ~apart
  <1>7. after \in Seq(T)
    <2>1. 1 \in Nat
      OBVIOUS
    <2> QED BY <1>5, <2>1, AfterFact
  <1> HIDE DEF after
  <1>8. passed \in Seq(T)
    <2>4. Len(Top.rest) \in Nat /\ Len(after) \in Nat
      BY <1>3, <1>7
    <2>1. cut \in Int /\ cut <= Len(Top.rest)
      BY <2>4
    <2>2. 1 \in Nat \ {0}
      OBVIOUS
    <2> HIDE DEF cut
    <2>3. SubSeq(Top.rest, 1, cut) \in Seq(T)
      BY <1>3, <2>1, <2>2, PieceFact
    <2> QED BY <1>3, <2>3
  <1>9. SkipName(Top, p) = [Passed(Top, passed, after) EXCEPT !.linked = @ /\ ~apart]
    BY DEF SkipName, after
  <1> HIDE DEF passed, cut
  <1>10. linked \in BOOLEAN
    BY <1>3
  <1> HIDE DEF linked
  <1>11. /\ [Passed(Top, passed, after) EXCEPT !.linked = linked] \in Lists(S, hidden, macros)
         /\ Passed(Top, passed, after).linked = Top.linked
    BY <1>3, <1>4, <1>7, <1>8, <1>10, ListOn
  <1> DEFINE q == Passed(Top, passed, after)
             f == SkipName(Top, p)
  <1>12. f = [q EXCEPT !.linked = linked]
    <2>1. f = [q EXCEPT !.linked = @ /\ ~apart] /\ q.linked = Top.linked
      BY <1>9, <1>11
    <2> HIDE DEF q, f, apart
    <2>2. [q EXCEPT !.linked = @ /\ ~apart] = [q EXCEPT !.linked = Top.linked /\ ~apart]
      BY <2>1
    <2> QED BY <2>1, <2>2 DEF linked
  <1>13. f \in Lists(S, hidden, macros)
    BY <1>11, <1>12
  <1>14. f \in Frames(S, hidden, macros) /\ f.kind = Top.kind
    BY <1>3, <1>13, ListParts DEF Frames
  <1>15. stack' = With(f) /\ rows' \in Seq(ReadRows) /\ phase = "row"
    BY <1>1, <1>5, <1>6 DEF Scanning
  <1> HIDE DEF f
  <1> QED BY <1>1, <1>2, <1>14, <1>15, FrameOn

\* A body goes on.
LEMMA BodyOn ==
  ASSUME NEW S, NEW hid, NEW table, NEW f \in Bodies(S, hid, table),
         NEW done \in Seq(Made(S, hid, table, f.tk)), NEW rest \in Seq(ReadTokens),
         rest # <<>> /\ rest[1].t = "##" => done # <<>>
  PROVE  /\ [f EXCEPT !.done = done, !.rest = rest] \in Bodies(S, hid, table)
         /\ [f EXCEPT !.done = done, !.rest = rest].kind = "body"
  <1>1. /\ f.tk \in Good(S, hid, table) /\ f.args \in Seq(Seq(Good(S, hid, table)))
        /\ f.tk.t = "id" /\ f.tk.s \in DOMAIN table
        /\ f = [kind |-> "body", done |-> f.done, rest |-> f.rest, tk |-> f.tk, args |-> f.args]
    BY BodyParts
  <1>2. [kind |-> "body", done |-> done, rest |-> rest, tk |-> f.tk, args |-> f.args]
          \in Bodies(S, hid, table)
    BY <1>1, NewBody
  <1>3. [f EXCEPT !.done = done, !.rest = rest] =
          [kind |-> "body", done |-> done, rest |-> rest, tk |-> f.tk, args |-> f.args]
    <2>1. f = [kind |-> "body", done |-> f.done, rest |-> f.rest, tk |-> f.tk, args |-> f.args]
      BY <1>1
    <2> DEFINE g == [f EXCEPT !.done = done]
    <2>2. g = [kind |-> "body", done |-> done, rest |-> f.rest, tk |-> f.tk, args |-> f.args]
      BY <2>1
    <2> HIDE DEF g
    <2>3. [g EXCEPT !.rest = rest] =
            [kind |-> "body", done |-> done, rest |-> rest, tk |-> f.tk, args |-> f.args]
      BY <2>2
    <2> QED BY <2>3 DEF g
  <1> QED BY <1>2, <1>3

LEMMA DoneOn ==
  ASSUME NEW S, NEW hid, NEW table, NEW f \in Bodies(S, hid, table),
         NEW done \in Seq(Made(S, hid, table, f.tk)), done # <<>>
  PROVE  /\ [f EXCEPT !.done = done] \in Bodies(S, hid, table)
         /\ [f EXCEPT !.done = done].kind = "body"
  <1>1. /\ f.tk \in Good(S, hid, table) /\ f.args \in Seq(Seq(Good(S, hid, table)))
        /\ f.tk.t = "id" /\ f.tk.s \in DOMAIN table /\ f.rest \in Seq(ReadTokens)
        /\ f = [kind |-> "body", done |-> f.done, rest |-> f.rest, tk |-> f.tk, args |-> f.args]
    BY BodyParts
  <1> DEFINE rest == f.rest
  <1>2. [kind |-> "body", done |-> done, rest |-> rest, tk |-> f.tk, args |-> f.args]
          \in Bodies(S, hid, table)
    <2>1. rest \in Seq(ReadTokens)
      BY <1>1
    <2> HIDE DEF rest
    <2> QED BY <1>1, <2>1, NewBody
  <1>3. [f EXCEPT !.done = done] =
          [kind |-> "body", done |-> done, rest |-> rest, tk |-> f.tk, args |-> f.args]
    BY <1>1
  <1> QED BY <1>2, <1>3

\* No token: it is in every list.
LEMMA NoneFact ==
  ASSUME NEW S, NEW hid, NEW table, Words \subseteq S, hid \in Seq(SUBSET S)
  PROVE  None \in Good(S, hid, table)
  <1>1. "none" \in Words /\ "" \in Words
    BY DEF Words
  <1>2. None \in ReadTokens
    BY <1>1, TokenFact DEF None
  <1> QED BY <1>2, ReadGood

LEMMA EndOfListKeeps == ASSUME MInv, EndOfList PROVE MInv'
  <1>1. phase = "row" /\ Top.kind = "scan"
        /\ rows' = rows /\ macros' = macros /\ hidden' = hidden
    BY DEF EndOfList
  <1>2. PICK S : Stacked(S, stack, hidden, macros)
    BY <1>1, InRow
  <1>3. rows \in Seq(ReadRows) /\ IsTable(macros) /\ Sound(S, stack, hidden, macros)
        /\ Alternate(stack) /\ Len(stack) >= 1 /\ Len(stack) \in Nat
    BY <1>2 DEF MInv, Stacked, Sound
  <1>4. CASE Len(stack) = 1
    <2>1. stack' = <<>> /\ phase' = "rows"
      BY <1>4 DEF EndOfList
    <2>2. Alternate(stack')
      BY <2>1 DEF Alternate
    <2>3. Sound(S, stack', hidden', macros')
      <3>1. stack' \in Seq(Frames(S, hidden, macros))
        BY <2>1
      <3> QED BY <1>1, <1>3, <3>1 DEF Sound
    <2>4. \E T : Sound(T, stack', hidden', macros')
      BY <2>3
    <2>5. IsTable(macros') /\ rows' \in Seq(ReadRows)
      BY <1>1, <1>3
    <2> QED BY <2>1, <2>2, <2>4, <2>5 DEF MInv
  <1>6. Len(stack) # 1 => Len(stack) >= 2
    <2> DEFINE len == Len(stack)
    <2>1. len >= 1 /\ len \in Nat
      BY <1>3
    <2> HIDE DEF len
    <2>2. len # 1 => len >= 2
      BY <2>1
    <2> QED BY <2>2 DEF len
  <1>5. CASE Len(stack) # 1
    <2> DEFINE body == stack[Len(stack) - 1]
               more == IF Top.done = <<>> THEN <<None>> ELSE Top.done
               done == body.done \o more
               f == [body EXCEPT !.done = done]
               T == Made(S, hidden, macros, body.tk)
    <2>1. stack' = SubSeq(stack, 1, Len(stack) - 2) \o <<f>> /\ phase' = phase
      BY <1>5 DEF EndOfList
    <2>2. Len(stack) >= 2
      BY <1>5, <1>6
    <2>3. body \in Frames(S, hidden, macros) /\ body.kind # Last(stack).kind
      BY <1>2, <2>2, BackFact
    <2>4. body \in Bodies(S, hidden, macros)
      BY <1>1, <2>3, ListParts DEF Frames, Top
    <2>5. Top.done \in Seq(Good(S, hidden, macros))
      <3>1. Top \in Lists(S, hidden, macros)
        BY <1>1, <1>2, TopFact DEF Top
      <3> QED BY <3>1, ListParts
    <2>6. None \in Good(S, hidden, macros)
      BY <1>3, NoneFact DEF Sound
    <2>7. more \in Seq(T) /\ more # <<>>
      <3>1. more \in Seq(Good(S, hidden, macros)) /\ more # <<>>
        BY <2>5, <2>6
      <3>2. Good(S, hidden, macros) \subseteq T
        BY DEF Made
      <3> QED BY <3>1, <3>2, SeqMonotonic
    <2>8. body.done \in Seq(T) /\ body.kind = "body"
      BY <2>4, BodyParts
    <2>9. T = Made(S, hidden, macros, body.tk)
      OBVIOUS
    <2>14. body = stack[Len(stack) - 1]
      OBVIOUS
    <2> HIDE DEF T, more, body
    <2>10. done \in Seq(T) /\ done # <<>>
      BY <2>7, <2>8
    <2> HIDE DEF done
    <2>11. f \in Bodies(S, hidden, macros) /\ f.kind = "body"
      BY <2>4, <2>9, <2>10, DoneOn
    <2>12. f \in Frames(S, hidden, macros) /\ f.kind = stack[Len(stack) - 1].kind
      BY <2>8, <2>11, <2>14 DEF Frames
    <2>13. Stacked(S, stack', hidden', macros)
      <3> HIDE DEF f
      <3>1. Stacked(S, SubSeq(stack, 1, Len(stack) - 2) \o <<f>>, hidden, macros)
        BY <1>2, <2>2, <2>12, BackFact
      <3> QED BY <1>1, <2>1, <3>1
    <2>15. rows' \in Seq(ReadRows) /\ phase' = phase
      BY <1>1, <1>3, <2>1
    <2> QED BY <1>1, <2>13, <2>15, RowKept
  <1> QED BY <1>4, <1>5


-----------------------------------------------------------------------------
(* The actions of bodies preserve the invariant.                           *)

\* A body is on top.
LEMMA BodyFact ==
  ASSUME MInv, Substituting, NEW S, Stacked(S, stack, hidden, macros)
  PROVE  /\ Top \in Bodies(S, hidden, macros) /\ Top.kind = "body"
         /\ Top.rest \in Seq(ReadTokens)
         /\ Top.tk \in Good(S, hidden, macros) /\ Top.tk.t = "id" /\ Top.tk.s \in DOMAIN macros
         /\ Top.done \in Seq(Made(S, hidden, macros, Top.tk))
         /\ rows \in Seq(ReadRows) /\ IsTable(macros) /\ phase = "row"
         /\ Words \subseteq S /\ hidden \in Seq(SUBSET S)
  <1>1. Top.kind = "body" /\ phase = "row"
    BY DEF Substituting
  <1>2. Top \in Bodies(S, hidden, macros)
    BY <1>1, TopFact DEF Top
  <1>3. /\ Top.rest \in Seq(ReadTokens)
        /\ Top.tk \in Good(S, hidden, macros) /\ Top.tk.t = "id" /\ Top.tk.s \in DOMAIN macros
        /\ Top.done \in Seq(Made(S, hidden, macros, Top.tk))
    BY <1>2, BodyParts
  <1>4. Words \subseteq S /\ hidden \in Seq(SUBSET S)
    BY DEF Stacked, Sound
  <1>5. rows \in Seq(ReadRows) /\ IsTable(macros)
    BY DEF MInv
  <1> QED BY <1>1, <1>2, <1>3, <1>4, <1>5

\* The body on top goes on.
LEMMA TopKeeps ==
  ASSUME MInv, Substituting, NEW S, Stacked(S, stack, hidden, macros),
         UNCHANGED <<program, rows, macros, hidden, phase>>,
         NEW f \in Bodies(S, hidden, macros), stack' = With(f)
  PROVE  MInv'
  <1>1. Top.kind = "body" /\ rows' \in Seq(ReadRows) /\ phase = "row"
    BY BodyFact
  <1>2. f \in Frames(S, hidden, macros) /\ f.kind = Top.kind
    BY <1>1, BodyParts DEF Frames
  <1> QED BY <1>1, <1>2, FrameOn

\* More spellings.
LEMMA MoreWords ==
  ASSUME NEW S, NEW hid \in Seq(SUBSET S), NEW more, S \subseteq more
  PROVE  Grown(S, hid, more, hid)
  <1>1. SUBSET S \subseteq SUBSET more
    OBVIOUS
  <1>2. hid \in Seq(SUBSET more)
    BY <1>1, SeqMonotonic
  <1>3. Len(hid) \in Nat
    OBVIOUS
  <1>4. Len(hid) <= Len(hid)
    BY <1>3
  <1> QED BY <1>2, <1>4 DEF Grown

LEMMA StackedGrows ==
  ASSUME NEW S, NEW st, NEW hid, NEW more, NEW sets, NEW table,
         Stacked(S, st, hid, table), Grown(S, hid, more, sets)
  PROVE  Stacked(more, st, sets, table)
  BY SoundGrows DEF Stacked

\* A token of the body, and one that the body makes.
LEMMA CopiedFact ==
  ASSUME NEW S, NEW hid, NEW table, Words \subseteq S, NEW f \in Bodies(S, hid, table),
         NEW tk \in ReadTokens
  PROVE  Copied(f, tk) \in Made(S, hid, table, f.tk)
  <1> DEFINE from == f.tk.from \cup {f.tk.s}
  <1>1. from \in SUBSET S
    <2>1. f.tk \in Tokens(S)
      BY BodyParts DEF Good
    <2>2. f.tk.from \in SUBSET S /\ f.tk.s \in S
      BY <2>1 DEF Tokens
    <2> QED BY <2>2
  <1>2. /\ tk = [t |-> tk.t, s |-> tk.s, h |-> 0, from |-> tk.from]
        /\ tk.t \in S /\ tk.s \in S
    <2>1. tk.t \in Words /\ tk.s \in Words
          /\ tk = [t |-> tk.t, s |-> tk.s, h |-> 0, from |-> tk.from]
      BY DEF ReadTokens
    <2> QED BY <2>1
  <1>3. Copied(f, tk) = [tk EXCEPT !.from = from]
    BY DEF Copied
  <1> HIDE DEF from
  <1>4. Copied(f, tk) = [t |-> tk.t, s |-> tk.s, h |-> 0, from |-> from]
    BY <1>2, <1>3
  <1>5. [t |-> tk.t, s |-> tk.s, h |-> 0, from |-> from] \in Tokens(S)
    BY <1>1, <1>2 DEF Tokens
  <1>6. Copied(f, tk) \in Tokens(S) /\ Copied(f, tk).h = 0 /\ Copied(f, tk).from = from
    BY <1>4, <1>5
  <1> QED BY <1>6 DEF Made, from

LEMMA CopyTokenKeeps == ASSUME MInv, CopyToken PROVE MInv'
  <1> DEFINE done == Append(Top.done, Copied(Top, Head(Top.rest)))
             rest == Tail(Top.rest)
             f == [Top EXCEPT !.done = done, !.rest = rest]
  <1>1. Substituting /\ Top.rest # <<>> /\ stack' = With(f)
        /\ UNCHANGED <<program, rows, macros, hidden, phase>>
    BY DEF CopyToken
  <1>2. PICK S : Stacked(S, stack, hidden, macros)
    BY <1>1, InRow DEF Substituting
  <1>3. /\ Top \in Bodies(S, hidden, macros) /\ Top.rest \in Seq(ReadTokens)
        /\ Top.done \in Seq(Made(S, hidden, macros, Top.tk)) /\ Words \subseteq S
    BY <1>1, <1>2, BodyFact
  <1>4. Head(Top.rest) \in ReadTokens /\ rest \in Seq(ReadTokens)
    BY <1>1, <1>3, EndsFact
  <1>5. Copied(Top, Head(Top.rest)) \in Made(S, hidden, macros, Top.tk)
    BY <1>3, <1>4, CopiedFact
  <1>6. done \in Seq(Made(S, hidden, macros, Top.tk)) /\ done # <<>>
    BY <1>3, <1>5
  <1> HIDE DEF done, rest
  <1>7. f \in Bodies(S, hidden, macros)
    BY <1>3, <1>4, <1>6, BodyOn
  <1> HIDE DEF f
  <1> QED BY <1>1, <1>2, <1>7, TopKeeps

\* Arguments are lists.
LEMMA ParamFact ==
  ASSUME NEW m \in Macros, NEW tk
  PROVE  ParamOf(m, tk) \in Nat
  <1>1. DOMAIN m.params \in SUBSET Nat
    BY DEF Macros
  <1>2. CASE \E n \in DOMAIN m.params : m.params[n] = tk.s
    BY <1>1, <1>2 DEF ParamOf
  <1>3. CASE ~\E n \in DOMAIN m.params : m.params[n] = tk.s
    BY <1>3 DEF ParamOf
  <1> QED BY <1>2, <1>3

LEMMA ArgFact ==
  ASSUME NEW S, NEW hid, IsTable(macros), NEW f \in Bodies(S, hid, macros), NEW tk,
         ParamOf(MacroOf(f), tk) > 0, ~Missing(f, tk)
  PROVE  ArgOf(f, tk) \in Seq(Good(S, hid, macros))
  <1>1. f.args \in Seq(Seq(Good(S, hid, macros))) /\ f.tk.s \in DOMAIN macros
    BY BodyParts
  <1>2. MacroOf(f) \in Macros
    BY <1>1 DEF IsTable, MacroOf
  <1> DEFINE n == ParamOf(MacroOf(f), tk)
             Q == Seq(Good(S, hid, macros))
  <1>3. n \in Nat /\ n > 0 /\ ~(n > Len(f.args))
    BY <1>2, ParamFact DEF Missing
  <1>4. ArgOf(f, tk) = f.args[n]
    BY DEF ArgOf
  <1>5. f.args \in Seq(Q)
    BY <1>1
  <1> HIDE DEF n, Q
  <1>6. f.args[n] \in Q
    <2>1. Len(f.args) \in Nat
      BY <1>5
    <2>2. n \in 1 .. Len(f.args)
      BY <1>3, <2>1
    <2> QED BY <1>5, <2>2
  <1> QED BY <1>4, <1>6 DEF Q

LEMMA ExpandArgKeeps == ASSUME MInv, ExpandArg PROVE MInv'
  <1> DEFINE rest == Tail(Top.rest)
             f == [Top EXCEPT !.rest = rest]
             arg == ArgOf(Top, Head(Top.rest))
             g == Scan(arg, FALSE)
  <1>1. /\ Substituting /\ Top.rest # <<>> /\ TakesArg(Top)
        /\ \/ Fail
           \/ /\ ~Missing(Top, Head(Top.rest))
              /\ stack' = Append(With(f), g)
              /\ UNCHANGED <<program, rows, macros, hidden, phase>>
    BY DEF ExpandArg
  <1>2. CASE Fail
    BY <1>2, FailKeeps
  <1>3. CASE /\ ~Missing(Top, Head(Top.rest))
             /\ stack' = Append(With(f), g)
             /\ UNCHANGED <<program, rows, macros, hidden, phase>>
    <2>1. PICK S : Stacked(S, stack, hidden, macros)
      BY <1>1, InRow DEF Substituting
    <2>2. /\ Top \in Bodies(S, hidden, macros) /\ Top.kind = "body" /\ Top.rest \in Seq(ReadTokens)
          /\ Top.done \in Seq(Made(S, hidden, macros, Top.tk))
          /\ IsTable(macros) /\ rows \in Seq(ReadRows) /\ phase = "row"
      BY <1>1, <2>1, BodyFact
    <2>3. rest \in Seq(ReadTokens)
      BY <1>1, <2>2, EndsFact
    <2>4. rest # <<>> /\ rest[1].t = "##" => Top.done # <<>>
      <3>1. Second(Top).t # "##"
        BY <1>1 DEF TakesArg
      <3>2. rest # <<>> => Len(Top.rest) > 1 /\ rest[1] = Top.rest[2]
        BY <1>1, <2>2
      <3>3. rest # <<>> => Second(Top) = rest[1]
        BY <3>2 DEF Second
      <3> HIDE DEF rest
      <3>4. rest # <<>> => rest[1].t # "##"
        BY <3>1, <3>3
      <3> QED BY <3>4
    <2>5. arg \in Seq(Good(S, hidden, macros))
      <3>1. ParamOf(MacroOf(Top), Head(Top.rest)) > 0
        BY <1>1 DEF TakesArg
      <3> QED BY <1>3, <2>2, <3>1, ArgFact
    <2> HIDE DEF rest, arg
    <2>6. f \in Bodies(S, hidden, macros) /\ f.kind = "body"
      <3>1. /\ Top.tk \in Good(S, hidden, macros) /\ Top.args \in Seq(Seq(Good(S, hidden, macros)))
            /\ Top.tk.t = "id" /\ Top.tk.s \in DOMAIN macros
            /\ Top = [kind |-> "body", done |-> Top.done, rest |-> Top.rest, tk |-> Top.tk,
                      args |-> Top.args]
        BY <2>2, BodyParts
      <3>2. [kind |-> "body", done |-> Top.done, rest |-> rest, tk |-> Top.tk, args |-> Top.args]
              \in Bodies(S, hidden, macros)
        BY <2>2, <2>3, <2>4, <3>1, NewBody
      <3>3. f = [kind |-> "body", done |-> Top.done, rest |-> rest, tk |-> Top.tk, args |-> Top.args]
        BY <3>1
      <3> QED BY <3>2, <3>3
    <2>7. g \in Lists(S, hidden, macros) /\ g.kind = "scan"
      <3>1. g = [kind |-> "scan", done |-> <<>>, rest |-> arg, linked |-> TRUE, look |-> FALSE]
        BY DEF Scan
      <3>2. <<>> \in Seq(Good(S, hidden, macros))
        OBVIOUS
      <3>3. [kind |-> "scan", done |-> <<>>, rest |-> arg, linked |-> TRUE, look |-> FALSE]
              \in Lists(S, hidden, macros)
        BY <2>5, <3>2, NewList
      <3>4. g.kind = "scan"
        BY DEF Scan
      <3> HIDE DEF g
      <3>5. g \in Lists(S, hidden, macros)
        BY <3>1, <3>3
      <3> QED BY <3>4, <3>5
    <2>8. f \in Frames(S, hidden, macros) /\ g \in Frames(S, hidden, macros)
          /\ f.kind = Last(stack).kind
      BY <2>2, <2>6, <2>7 DEF Frames, Top
    <2> DEFINE st == Append(Front(stack), f)
    <2>9. stack' = Append(st, g)
      BY <1>3 DEF With
    <2> HIDE DEF f, g
    <2>10. Stacked(S, st, hidden, macros) /\ Last(st) = f
      BY <2>1, <2>8, OnFact
    <2> HIDE DEF st
    <2>11. g.kind # Last(st).kind
      BY <2>6, <2>7, <2>10
    <2>12. Stacked(S, Append(st, g), hidden, macros)
      BY <2>8, <2>10, <2>11, PushFact
    <2>13. Stacked(S, stack', hidden', macros) /\ rows' \in Seq(ReadRows)
      BY <1>3, <2>2, <2>9, <2>12
    <2> QED BY <1>3, <2>2, <2>13, RowKept
  <1> QED BY <1>1, <1>2, <1>3


\* One more token in a body.
LEMMA MakeStringKeeps == ASSUME MInv, MakeString PROVE MInv'
  <1> DEFINE str == Stringify(ArgOf(Top, Second(Top)))
             done == Append(Top.done, str)
             rest == After(Top.rest, 2)
             f == [Top EXCEPT !.done = done, !.rest = rest]
  <1>1. /\ Substituting
        /\ \/ Fail
           \/ stack' = With(f) /\ UNCHANGED <<program, rows, macros, hidden, phase>>
    BY DEF MakeString
  <1>2. CASE Fail
    BY <1>2, FailKeeps
  <1>3. CASE stack' = With(f) /\ UNCHANGED <<program, rows, macros, hidden, phase>>
    <2>1. PICK S : Stacked(S, stack, hidden, macros)
      BY <1>1, InRow DEF Substituting
    <2>2. Words \subseteq S /\ hidden \in Seq(SUBSET S)
      BY <1>1, <2>1, BodyFact
    <2> DEFINE more == S \cup {str.s}
    <2>3. Grown(S, hidden, more, hidden)
      <3>1. S \subseteq more
        OBVIOUS
      <3> QED BY <2>2, <3>1, MoreWords
    <2>4. str.s \in more
      OBVIOUS
    <2> HIDE DEF more
    <2>5. Stacked(more, stack, hidden, macros)
      BY <2>1, <2>3, StackedGrows
    <2>6. /\ Top \in Bodies(more, hidden, macros) /\ Top.rest \in Seq(ReadTokens)
          /\ Top.done \in Seq(Made(more, hidden, macros, Top.tk))
          /\ Words \subseteq more
      BY <1>1, <2>5, BodyFact
    <2>7. str \in Made(more, hidden, macros, Top.tk)
      <3>1. str = [t |-> "str", s |-> str.s, h |-> 0, from |-> {}]
        BY DEF Stringify, Token
      <3>2. "str" \in more
        BY <2>6 DEF Words
      <3> HIDE DEF str
      <3>3. [t |-> "str", s |-> str.s, h |-> 0, from |-> {}] \in Tokens(more)
        BY <2>4, <3>2 DEF Tokens
      <3>4. str \in Tokens(more) /\ str.h = 0 /\ str.from = {}
        BY <3>1, <3>3
      <3> QED BY <3>4 DEF Made
    <2> HIDE DEF str
    <2>8. rest \in Seq(ReadTokens)
      <3>1. 2 \in Nat
        OBVIOUS
      <3> QED BY <2>6, <3>1, AfterFact
    <2>9. done \in Seq(Made(more, hidden, macros, Top.tk)) /\ done # <<>>
      BY <2>6, <2>7
    <2> HIDE DEF done, rest
    <2>10. f \in Bodies(more, hidden, macros)
      BY <2>6, <2>8, <2>9, BodyOn
    <2> HIDE DEF f
    <2> QED BY <1>1, <1>3, <2>5, <2>10, TopKeeps
  <1> QED BY <1>1, <1>2, <1>3

\* What ## makes of two lists.
LEMMA ConcatFact ==
  ASSUME NEW S, NEW hid \in Seq(SUBSET S), NEW table, NEW own \in Good(S, hid, table),
         NEW l \in Seq(Made(S, hid, table, own)), NEW r \in Seq(Made(S, hid, table, own))
  PROVE  \E more : /\ Grown(S, hid, more, hid)
                   /\ Concat(l, r, own.from \cup {own.s}) \in Seq(Made(more, hid, table, own))
  <1> DEFINE from == own.from \cup {own.s}
             made == Concat(l, r, from)
             T(more) == Made(more, hid, table, own)
  <1>1. CASE l = <<>> \/ l[1].t = "none" \/ r = <<>>
    <2>1. made = l \/ made = r
      BY <1>1 DEF Concat
    <2>2. Grown(S, hid, S, hid)
      BY MoreWords
    <2> HIDE DEF made
    <2>3. Grown(S, hid, S, hid) /\ made \in Seq(T(S))
      BY <2>1, <2>2
    <2>4. \E more : Grown(S, hid, more, hid) /\ made \in Seq(T(more))
      BY <2>3
    <2> QED BY <2>4 DEF made
  <1>2. CASE l # <<>> /\ l[1].t # "none" /\ r # <<>>
    <2> DEFINE word == Last(l).s \o Head(r).s
               t == Last(l).t
               tk == [Token(t, word) EXCEPT !.from = from]
               more == S \cup {word}
    <2>1. made = Front(l) \o <<tk>> \o Tail(r)
      BY <1>2 DEF Concat
    <2>2. Grown(S, hid, more, hid)
      <3>1. S \subseteq more
        OBVIOUS
      <3> QED BY <3>1, MoreWords
    <2>3. S \subseteq more /\ word \in more
      OBVIOUS
    <2>4. Last(l).t \in S
      <3>1. Last(l) \in Tokens(S)
        BY <1>2, EndsFact, MadeTokens
      <3> QED BY <3>1 DEF Tokens
    <2>5. tk = [t |-> t, s |-> word, h |-> 0, from |-> from]
      <3> HIDE DEF t, word, from
      <3> QED BY DEF Token
    <2> HIDE DEF more, word
    <2>6. from \in SUBSET more
      <3>1. own.from \in SUBSET S /\ own.s \in S
        BY DEF Good, Tokens
      <3> QED BY <2>3, <3>1
    <2>7. tk \in T(more)
      <3> HIDE DEF t, from, tk
      <3>1. t \in more
        BY <2>3, <2>4 DEF t
      <3>2. [t |-> t, s |-> word, h |-> 0, from |-> from] \in Tokens(more)
        BY <2>3, <2>6, <3>1 DEF Tokens
      <3>3. tk \in Tokens(more) /\ tk.h = 0 /\ tk.from = from
        BY <2>5, <3>2
      <3> QED BY <3>3 DEF Made, from
    <2> HIDE DEF tk
    <2>8. Front(l) \in Seq(T(more)) /\ Tail(r) \in Seq(T(more))
      <3>1. Front(l) \in Seq(T(S)) /\ Tail(r) \in Seq(T(S))
        BY <1>2, EndsFact
      <3>2. T(S) \subseteq T(more)
        BY <2>2, MadeFact
      <3> HIDE DEF T
      <3> QED BY <3>1, <3>2, SeqMonotonic
    <2> HIDE DEF T, made
    <2>9. made \in Seq(T(more))
      <3>1. <<tk>> \in Seq(T(more))
        BY <2>7
      <3>2. Front(l) \o <<tk>> \in Seq(T(more))
        BY <2>8, <3>1, ConcatProperties
      <3> QED BY <2>1, <2>8, <3>2, ConcatProperties
    <2>10. \E m : Grown(S, hid, m, hid) /\ made \in Seq(T(m))
      BY <2>2, <2>9
    <2> QED BY <2>10 DEF T, made
  <1> QED BY <1>1, <1>2

\* An operand of ##.
LEMMA OperandFact ==
  ASSUME NEW S, NEW hid, IsTable(macros), NEW f \in Bodies(S, hid, macros), NEW tk,
         tk \in Made(S, hid, macros, f.tk), ~Missing(f, tk)
  PROVE  Operand(f, tk) \in Seq(Made(S, hid, macros, f.tk))
  <1>1. CASE ParamOf(MacroOf(f), tk) > 0
    <2>1. ArgOf(f, tk) \in Seq(Good(S, hid, macros))
      BY <1>1, ArgFact
    <2>2. Good(S, hid, macros) \subseteq Made(S, hid, macros, f.tk)
      BY DEF Made
    <2>3. ArgOf(f, tk) \in Seq(Made(S, hid, macros, f.tk))
      BY <2>1, <2>2, SeqMonotonic
    <2> QED BY <1>1, <2>3 DEF Operand
  <1>2. CASE ~(ParamOf(MacroOf(f), tk) > 0)
    <2>1. <<tk>> \in Seq(Made(S, hid, macros, f.tk))
      OBVIOUS
    <2> QED BY <1>2, <2>1 DEF Operand
  <1> QED BY <1>1, <1>2

LEMMA MakeConcatKeeps == ASSUME MInv, MakeConcat PROVE MInv'
  <1> DEFINE left == Last(Top.done)
             right == Copied(Top, Second(Top))
             made == Concat(Operand(Top, left), Operand(Top, right), Top.tk.from \cup {Top.tk.s})
             new == IF made = <<>> THEN <<None>> ELSE made
             done == Front(Top.done) \o new
             rest == After(Top.rest, 2)
             f == [Top EXCEPT !.done = done, !.rest = rest]
  <1>1. /\ Substituting /\ Top.rest # <<>> /\ MakesConcat(Top)
        /\ \/ Fail
           \/ /\ ~Missing(Top, left) /\ ~Missing(Top, Second(Top))
              /\ stack' = With(f)
              /\ UNCHANGED <<program, rows, macros, hidden, phase>>
    BY DEF MakeConcat
  <1>2. CASE Fail
    BY <1>2, FailKeeps
  <1>3. CASE /\ ~Missing(Top, left) /\ ~Missing(Top, Second(Top))
             /\ stack' = With(f)
             /\ UNCHANGED <<program, rows, macros, hidden, phase>>
    <2>1. PICK S : Stacked(S, stack, hidden, macros)
      BY <1>1, InRow DEF Substituting
    <2>2. /\ Top \in Bodies(S, hidden, macros) /\ Top.rest \in Seq(ReadTokens)
          /\ Top.tk \in Good(S, hidden, macros)
          /\ Top.done \in Seq(Made(S, hidden, macros, Top.tk)) /\ IsTable(macros)
          /\ Words \subseteq S /\ hidden \in Seq(SUBSET S)
      BY <1>1, <2>1, BodyFact
    <2>3. Top.done # <<>>
      <3>1. Head(Top.rest) = Top.rest[1]
        BY <1>1, <2>2, EndsFact
      <3>2. Top.rest # <<>> /\ Top.rest[1].t = "##"
        BY <1>1, <3>1 DEF MakesConcat
      <3> QED BY <2>2, <3>2, BodyParts
    <2>4. left \in Made(S, hidden, macros, Top.tk)
      BY <2>2, <2>3, EndsFact
    <2>5. Second(Top) \in ReadTokens
      <3>1. "none" \in Words /\ "" \in Words
        BY DEF Words
      <3>2. None \in ReadTokens
        BY <3>1, TokenFact DEF None
      <3>3. Len(Top.rest) > 1 => Top.rest[2] \in ReadTokens
        BY <2>2
      <3> QED BY <3>2, <3>3 DEF Second
    <2>6. right \in Made(S, hidden, macros, Top.tk)
      BY <2>2, <2>5, CopiedFact
    <2>7. ~Missing(Top, right)
      <3>1. right.s = Second(Top).s
        <4>1. DOMAIN Second(Top) = {"t", "s", "h", "from"}
          BY <2>5 DEF ReadTokens
        <4> QED BY <4>1 DEF Copied
      <3>2. ParamOf(MacroOf(Top), right) = ParamOf(MacroOf(Top), Second(Top))
        <4> HIDE DEF right
        <4> QED BY <3>1 DEF ParamOf
      <3> QED BY <1>3, <3>2 DEF Missing
    <2> HIDE DEF left, right
    <2>8. /\ Operand(Top, left) \in Seq(Made(S, hidden, macros, Top.tk))
          /\ Operand(Top, right) \in Seq(Made(S, hidden, macros, Top.tk))
      BY <1>3, <2>2, <2>4, <2>6, <2>7, OperandFact
    <2>9. PICK more : /\ Grown(S, hidden, more, hidden)
                      /\ made \in Seq(Made(more, hidden, macros, Top.tk))
      <3> DEFINE l == Operand(Top, left)
                 r == Operand(Top, right)
                 own == Top.tk
      <3>1. /\ l \in Seq(Made(S, hidden, macros, own)) /\ r \in Seq(Made(S, hidden, macros, own))
            /\ own \in Good(S, hidden, macros)
        BY <2>2, <2>8
      <3> HIDE DEF l, r, own
      <3>2. \E m : /\ Grown(S, hidden, m, hidden)
                   /\ Concat(l, r, own.from \cup {own.s}) \in Seq(Made(m, hidden, macros, own))
        BY <2>2, <3>1, ConcatFact
      <3> QED BY <3>2 DEF l, r, own
    <2>10. Stacked(more, stack, hidden, macros)
      BY <2>1, <2>9, StackedGrows
    <2>11. /\ Top \in Bodies(more, hidden, macros)
           /\ Top.done \in Seq(Made(more, hidden, macros, Top.tk))
           /\ Words \subseteq more /\ hidden \in Seq(SUBSET more)
      BY <1>1, <2>10, BodyFact
    <2> DEFINE T == Made(more, hidden, macros, Top.tk)
    <2>12. new \in Seq(T) /\ new # <<>>
      <3> HIDE DEF made
      <3>1. None \in T
        BY <2>11, NoneFact DEF Made
      <3> HIDE DEF T
      <3>2. <<None>> \in Seq(T) /\ <<None>> # <<>>
        BY <3>1
      <3> QED BY <2>9, <3>2 DEF T
    <2>13. Front(Top.done) \in Seq(T)
      BY <2>3, <2>11, EndsFact
    <2> HIDE DEF new
    <2>14. done \in Seq(T) /\ done # <<>>
      <3> HIDE DEF T
      <3> QED BY <2>12, <2>13
    <2>15. rest \in Seq(ReadTokens)
      <3>1. 2 \in Nat
        OBVIOUS
      <3> QED BY <2>2, <3>1, AfterFact
    <2> HIDE DEF done, rest
    <2>16. f \in Bodies(more, hidden, macros)
      BY <2>11, <2>14, <2>15, BodyOn
    <2> HIDE DEF f
    <2> QED BY <1>1, <1>3, <2>10, <2>16, TopKeeps
  <1> QED BY <1>1, <1>2, <1>3


\* The own hidden set has the names that the replacement comes from.
LEMMA OwnFact ==
  ASSUME NEW S, hidden \in Seq(SUBSET S), NEW own \in Good(S, hidden, macros),
         own.t = "id", own.s \in DOMAIN macros
  PROVE  /\ Grown(S, hidden, S, OwnSet(own))
         /\ OwnId(own) \in 1 .. Len(OwnSet(own))
         /\ own.from \cup {own.s} \subseteq OwnSet(own)[OwnId(own)]
  <1>1. /\ own.h \in 0 .. Len(hidden) /\ own.s \in S
        /\ own.from \subseteq HiddenBy(hidden, own) /\ Len(hidden) \in Nat
    BY DEF Good, Tokens
  <1>2. CASE own.h = 0
    <2> DEFINE set == {own.s}
               sets == Append(hidden, set)
    <2>1. own.from = {} /\ set \in SUBSET S
      BY <1>1, <1>2 DEF HiddenBy
    <2> HIDE DEF set
    <2>2. /\ sets \in Seq(SUBSET S) /\ Len(sets) = Len(hidden) + 1 /\ sets[Len(hidden) + 1] = set
          /\ \A n \in 1 .. Len(hidden) : sets[n] = hidden[n]
      BY <2>1
    <2>3. OwnSet(own) = sets /\ OwnId(own) = Len(hidden) + 1
      BY <1>2 DEF OwnSet, OwnId, set
    <2> HIDE DEF sets
    <2>4. Grown(S, hidden, S, sets)
      BY <1>1, <2>2 DEF Grown
    <2> QED BY <1>1, <2>1, <2>2, <2>3, <2>4 DEF set
  <1>3. CASE own.h # 0
    <2> DEFINE set == hidden[own.h] \cup {own.s}
               sets == [hidden EXCEPT ![own.h] = set]
    <2>1. own.h \in 1 .. Len(hidden) /\ own.from \subseteq hidden[own.h]
      BY <1>1, <1>3 DEF HiddenBy
    <2>2. hidden[own.h] \in SUBSET S
      BY <2>1
    <2>3. set \in SUBSET S /\ hidden[own.h] \subseteq set /\ own.from \cup {own.s} \subseteq set
      BY <1>1, <2>1, <2>2
    <2>4. OwnSet(own) = sets /\ OwnId(own) = own.h
      BY <1>3 DEF OwnSet, OwnId
    <2> HIDE DEF set
    <2>5. /\ sets \in Seq(SUBSET S) /\ Len(sets) = Len(hidden) /\ sets[own.h] = set
          /\ \A n \in 1 .. Len(hidden) : n # own.h => sets[n] = hidden[n]
      BY <2>1, <2>3
    <2> HIDE DEF sets
    <2>6. \A n \in 1 .. Len(hidden) : hidden[n] \subseteq sets[n]
      <3> TAKE n \in 1 .. Len(hidden)
      <3>1. CASE n = own.h
        BY <2>3, <2>5, <3>1
      <3>2. CASE n # own.h
        BY <2>5, <3>2
      <3> QED BY <3>1, <3>2
    <2>7. Grown(S, hidden, S, sets)
      BY <1>1, <2>5, <2>6 DEF Grown
    <2> QED BY <2>1, <2>3, <2>4, <2>5, <2>7
  <1> QED BY <1>2, <1>3

\* Each token that wants a set gets one of those that are made.
LEMMA WantingFact ==
  ASSUME NEW tks, NEW N \in Nat
  PROVE  /\ Wanting(tks, N) \in Nat
         /\ \A n \in 1 .. N : Wants(tks[n]) => Wanting(tks, n) \in 1 .. Wanting(tks, N)
  <1> DEFINE W(n) == {k \in 1 .. n : Wants(tks[k])}
  <1>1. \A n \in Nat : IsFiniteSet(W(n)) /\ Cardinality(W(n)) \in Nat
    <2> TAKE n \in Nat
    <2>1. IsFiniteSet(1 .. n)
      BY FS_Interval
    <2>2. W(n) \subseteq 1 .. n
      OBVIOUS
    <2> HIDE DEF W
    <2>3. IsFiniteSet(W(n))
      BY <2>1, <2>2, FS_Subset
    <2> QED BY <2>3, FS_CardinalityType
  <1>2. \A n : Wanting(tks, n) = Cardinality(W(n))
    BY DEF Wanting
  <1>3. ASSUME NEW n \in 1 .. N, Wants(tks[n])
        PROVE  Wanting(tks, n) \in 1 .. Wanting(tks, N)
    <2>1. W(n) \subseteq W(N) /\ n \in W(n) /\ n \in Nat
      BY <1>3
    <2> HIDE DEF W
    <2>2. Cardinality(W(n)) <= Cardinality(W(N))
      BY <1>1, <2>1, FS_Subset
    <2>3. Cardinality(W(n)) # 0
      BY <1>1, <2>1, FS_EmptySet
    <2>4. Cardinality(W(n)) \in Nat /\ Cardinality(W(N)) \in Nat
      BY <1>1, <2>1
    <2>5. Cardinality(W(n)) \in 1 .. Cardinality(W(N))
      BY <2>2, <2>3, <2>4
    <2> QED BY <1>2, <2>5
  <1> QED BY <1>1, <1>2, <1>3

\* What Distributed makes of a replacement is hidden by where it comes from.
LEMMA DistributedFact ==
  ASSUME NEW S, NEW own, NEW sets, NEW id, Grown(S, hidden, S, sets),
         id \in 1 .. Len(sets), own.from \cup {own.s} \subseteq sets[id],
         NEW tks \in Seq(Made(S, hidden, macros, own))
  PROVE  LET d == Distributed(sets, id, tks) IN
         /\ Grown(S, hidden, S, d.sets)
         /\ d.tks \in Seq(Good(S, d.sets, macros))
  <1> DEFINE d == Distributed(sets, id, tks)
             N == Len(tks)
             W == Wanting(tks, N)
             new == [k \in 1 .. W |-> sets[id]]
             all == sets \o new
             tk(n) == IF Wants(tks[n]) THEN [tks[n] EXCEPT !.h = Len(sets) + Wanting(tks, n)]
                      ELSE tks[n]
  <1>1. d = [sets |-> all, tks |-> [n \in DOMAIN tks |-> tk(n)]]
    BY DEF Distributed, CopiedSet
  <1>2. /\ sets \in Seq(SUBSET S) /\ hidden \in Seq(SUBSET S) /\ Len(hidden) <= Len(sets)
        /\ \A n \in 1 .. Len(hidden) : hidden[n] \subseteq sets[n]
    BY DEF Grown
  <1>3. N \in Nat /\ DOMAIN tks = 1 .. N /\ \A n \in 1 .. N : tks[n] \in Made(S, hidden, macros, own)
    OBVIOUS
  <1> HIDE DEF N
  <1>4. W \in Nat /\ \A n \in 1 .. N : Wants(tks[n]) => Wanting(tks, n) \in 1 .. W
    BY <1>3, WantingFact
  <1>5. sets[id] \in SUBSET S
    BY <1>2
  <1> HIDE DEF W
  <1>6. new \in Seq(SUBSET S) /\ Len(new) = W /\ \A k \in 1 .. W : new[k] = sets[id]
    BY <1>4, <1>5
  <1> HIDE DEF new
  <1>7. /\ all \in Seq(SUBSET S) /\ Len(all) = Len(sets) + W
        /\ \A n \in 1 .. Len(sets) : all[n] = sets[n]
        /\ \A k \in 1 .. W : all[Len(sets) + k] = sets[id]
    <2>1. Len(sets) \in Nat
      BY <1>2
    <2>2. /\ all \in Seq(SUBSET S) /\ Len(all) = Len(sets) + Len(new)
          /\ \A i \in 1 .. Len(sets) + Len(new) :
               all[i] = IF i <= Len(sets) THEN sets[i] ELSE new[i - Len(sets)]
      BY <1>2, <1>6, ConcatProperties
    <2> HIDE DEF all
    <2>3. ASSUME NEW n \in 1 .. Len(sets) PROVE all[n] = sets[n]
      <3>1. n \in 1 .. Len(sets) + Len(new) /\ n <= Len(sets)
        BY <1>4, <1>6, <2>1
      <3> QED BY <2>2, <3>1
    <2>4. ASSUME NEW k \in 1 .. W PROVE all[Len(sets) + k] = sets[id]
      <3> DEFINE n == Len(sets) + k
      <3>1. n \in 1 .. Len(sets) + Len(new) /\ ~(n <= Len(sets)) /\ n - Len(sets) = k
        BY <1>4, <1>6, <2>1
      <3> HIDE DEF n
      <3>2. all[n] = new[k]
        BY <2>2, <3>1
      <3> QED BY <1>6, <3>2 DEF n
    <2> QED BY <1>6, <2>2, <2>3, <2>4
  <1> HIDE DEF all
  <1>8. Grown(S, hidden, S, all)
    <2>1. Len(hidden) \in Nat /\ Len(sets) \in Nat
      BY <1>2
    <2>2. Len(hidden) <= Len(all)
      BY <1>2, <1>4, <1>7, <2>1
    <2>3. ASSUME NEW n \in 1 .. Len(hidden) PROVE hidden[n] \subseteq all[n]
      <3>1. n \in 1 .. Len(sets)
        BY <1>2, <2>1
      <3> QED BY <1>2, <1>7, <3>1
    <2> QED BY <1>2, <1>7, <2>2, <2>3 DEF Grown
  <1>9. ASSUME NEW n \in 1 .. N PROVE tk(n) \in Good(S, all, macros)
    <2> DEFINE old == tks[n]
    <2>1. old \in Made(S, hidden, macros, own)
      BY <1>3
    <2>2. old \in Tokens(S)
      BY <2>1, MadeTokens
    <2>3. CASE Wants(old)
      <3> DEFINE h == Len(sets) + Wanting(tks, n)
                 made == [old EXCEPT !.h = h]
      <3>1. tk(n) = made
        BY <2>3
      <3>2. Wanting(tks, n) \in 1 .. W
        BY <1>4, <2>3
      <3>3. h \in Nat /\ h # 0 /\ h \in 0 .. Len(all) /\ all[h] = sets[id]
        <4>1. Len(sets) \in Nat
          BY <1>2
        <4> DEFINE k == Wanting(tks, n)
        <4>2. all[Len(sets) + k] = sets[id]
          BY <1>7, <3>2
        <4> HIDE DEF k
        <4>3. k \in 1 .. W
          BY <3>2 DEF k
        <4>4. Len(sets) + k \in 1 .. Len(all)
          BY <1>4, <1>7, <4>1, <4>3
        <4>5. h = Len(sets) + k
          BY DEF k
        <4> HIDE DEF h
        <4> QED BY <1>4, <1>7, <4>1, <4>2, <4>4, <4>5
      <3>4. old.from \subseteq sets[id]
        <4>1. old.h = 0 /\ old.t = "id" /\ old.s \in DOMAIN macros
          BY <2>3 DEF Wants, Defined, IsId
        <4>2. CASE old \in Good(S, hidden, macros)
          <5>1. old.from \subseteq HiddenBy(hidden, old)
            BY <4>1, <4>2 DEF Good
          <5> QED BY <4>1, <5>1 DEF HiddenBy
        <4>3. CASE old.from \subseteq own.from \cup {own.s}
          BY <4>3
        <4> QED BY <2>1, <4>2, <4>3 DEF Made
      <3>5. /\ old = [t |-> old.t, s |-> old.s, h |-> old.h, from |-> old.from]
            /\ old.t \in S /\ old.s \in S /\ old.from \in SUBSET S
        BY <2>2 DEF Tokens
      <3> HIDE DEF h, old
      <3>6. made = [t |-> old.t, s |-> old.s, h |-> h, from |-> old.from]
        BY <3>5
      <3>7. [t |-> old.t, s |-> old.s, h |-> h, from |-> old.from] \in Tokens(S)
        BY <3>3, <3>5 DEF Tokens
      <3>8. made \in Tokens(S) /\ made.h = h /\ made.from = old.from
        BY <3>6, <3>7
      <3> HIDE DEF made
      <3>9. made.from \subseteq HiddenBy(all, made) /\ made.h \in 0 .. Len(all)
        BY <3>3, <3>4, <3>8 DEF HiddenBy
      <3>10. made \in Good(S, all, macros)
        BY <3>8, <3>9 DEF Good
      <3> QED BY <3>1, <3>10
    <2>4. CASE ~Wants(old)
      <3>1. tk(n) = old
        BY <2>4
      <3>2. CASE old \in Good(S, hidden, macros)
        BY <1>8, <3>1, <3>2, GoodFact
      <3>3. CASE old.h = 0
        <4>1. ~(old.t = "id" /\ old.s \in DOMAIN macros)
          BY <2>4, <3>3 DEF Wants, Defined, IsId
        <4>2. Len(all) \in Nat
          BY <1>7
        <4>3. old.h \in 0 .. Len(all)
          BY <3>3, <4>2
        <4>4. old \in Good(S, all, macros)
          BY <2>2, <4>1, <4>3 DEF Good
        <4> QED BY <3>1, <4>4
      <3> QED BY <2>1, <3>2, <3>3 DEF Made
    <2> QED BY <2>3, <2>4
  <1>10. [n \in DOMAIN tks |-> tk(n)] \in Seq(Good(S, all, macros))
    <2> HIDE DEF tk
    <2>1. [n \in 1 .. N |-> tk(n)] \in Seq(Good(S, all, macros))
      BY <1>3, <1>9
    <2> QED BY <1>3, <2>1
  <1> HIDE DEF tk
  <1>11. d.sets = all /\ d.tks \in Seq(Good(S, all, macros))
    BY <1>1, <1>10
  <1> QED BY <1>8, <1>11

LEMMA CleanedFact ==
  ASSUME NEW T, NEW done \in Seq(T)
  PROVE  Cleaned(done) \in Seq(T)
  <1>1. CASE done = <<>>
    BY <1>1 DEF Cleaned
  <1>2. CASE done # <<>>
    <2>1. Head(done) \in T /\ Tail(done) \in Seq(T)
      BY <1>2, EndsFact
    <2>2. Without(Tail(done), "none") \in Seq(T)
      BY <2>1, WithoutFact
    <2>3. <<Head(done)>> \in Seq(T)
      BY <2>1
    <2>4. <<Head(done)>> \o Without(Tail(done), "none") \in Seq(T)
      BY <2>2, <2>3, ConcatProperties
    <2> QED BY <1>2, <2>4 DEF Cleaned
  <1> QED BY <1>1, <1>2

\* The replacement takes the place of the call.
LEMMA ReplaceKeeps == ASSUME MInv, Replace PROVE MInv'
  <1> DEFINE own == Top.tk
             tks == Cleaned(Top.done)
             d == Distributed(OwnSet(own), OwnId(own), tks)
             list == stack[Len(stack) - 1]
             rest == d.tks \o list.rest
             f == [list EXCEPT !.rest = rest]
  <1>1. /\ Substituting /\ hidden' = d.sets
        /\ stack' = SubSeq(stack, 1, Len(stack) - 2) \o <<f>>
        /\ rows' = rows /\ macros' = macros /\ phase' = phase
    BY DEF Replace
  <1>2. PICK S : Stacked(S, stack, hidden, macros)
    BY <1>1, InRow DEF Substituting
  <1>3. /\ own \in Good(S, hidden, macros) /\ own.t = "id" /\ own.s \in DOMAIN macros
        /\ Top.kind = "body" /\ phase = "row" /\ rows \in Seq(ReadRows)
        /\ Top.done \in Seq(Made(S, hidden, macros, own)) /\ hidden \in Seq(SUBSET S)
    BY <1>1, <1>2, BodyFact
  <1>4. tks \in Seq(Made(S, hidden, macros, own))
    BY <1>3, CleanedFact
  <1>5. /\ Grown(S, hidden, S, OwnSet(own))
        /\ OwnId(own) \in 1 .. Len(OwnSet(own))
        /\ own.from \cup {own.s} \subseteq OwnSet(own)[OwnId(own)]
    BY <1>3, OwnFact
  <1> HIDE DEF own, tks
  <1>6. Grown(S, hidden, S, d.sets) /\ d.tks \in Seq(Good(S, d.sets, macros))
    BY <1>4, <1>5, DistributedFact
  <1> DEFINE sets == d.sets
             new == d.tks
  <1>7. /\ Grown(S, hidden, S, sets) /\ new \in Seq(Good(S, sets, macros))
        /\ rest = new \o list.rest /\ hidden' = sets
    BY <1>1, <1>6
  <1> HIDE DEF d
  <1> HIDE DEF sets, new
  <1>8. Stacked(S, stack, sets, macros)
    BY <1>2, <1>7, StackedGrows
  <1>9. Len(stack) >= 2
    <2> DEFINE len == Len(stack)
    <2>1. len \in Nat /\ len >= 1 /\ stack[1].kind = "scan" /\ Top = stack[len]
      <3>1. stack \in Seq(Frames(S, hidden, macros)) /\ Len(stack) >= 1 /\ Alternate(stack)
        BY <1>2 DEF Stacked, Sound
      <3>2. stack[1].kind = "scan"
        BY <3>1 DEF Alternate
      <3> QED BY <3>1, <3>2 DEF Top, Last
    <2> HIDE DEF len
    <2>2. len # 1
      BY <1>3, <2>1
    <2>3. len >= 2
      BY <2>1, <2>2
    <2> QED BY <2>3 DEF len
  <1>10. list \in Frames(S, sets, macros) /\ list.kind # Last(stack).kind
    BY <1>8, <1>9, BackFact
  <1>11. list \in Lists(S, sets, macros) /\ list.kind = "scan"
    BY <1>3, <1>10, ListParts, BodyParts DEF Frames, Top
  <1>12. list = stack[Len(stack) - 1]
    OBVIOUS
  <1> HIDE DEF list
  <1>13. rest \in Seq(Good(S, sets, macros))
    <2>1. list.rest \in Seq(Good(S, sets, macros))
      BY <1>11, ListParts
    <2>2. new \o list.rest \in Seq(Good(S, sets, macros))
      BY <1>7, <2>1, ConcatProperties
    <2> QED BY <1>7, <2>2
  <1>14. f = [list EXCEPT !.rest = rest]
    OBVIOUS
  <1> HIDE DEF rest
  <1>15. f \in Lists(S, sets, macros) /\ f.kind = "scan"
    BY <1>11, <1>13, RestOn
  <1> HIDE DEF f
  <1>16. f \in Frames(S, sets, macros) /\ f.kind = stack[Len(stack) - 1].kind
    BY <1>11, <1>12, <1>15 DEF Frames
  <1>17. Stacked(S, SubSeq(stack, 1, Len(stack) - 2) \o <<f>>, sets, macros)
    BY <1>8, <1>9, <1>16, BackFact
  <1>18. Stacked(S, stack', hidden', macros)
    BY <1>1, <1>7, <1>17
  <1>19. rows' \in Seq(ReadRows) /\ macros' = macros /\ phase' = phase /\ phase = "row"
    BY <1>1, <1>3
  <1> QED BY <1>18, <1>19, RowKept


-----------------------------------------------------------------------------
(* Rows, and the whole.                                                    *)

LEMMA InitHolds == ASSUME Init PROVE MInv
  <1> DEFINE line == Macro(-1, <<>>, FALSE, TRUE, <<Token("num", "7")>>)
  <1>1. /\ rows \in Seq(ReadRows) /\ phase = "rows" /\ stack = <<>> /\ hidden = <<>>
        /\ macros = [s \in {"LINE"} |-> line]
    BY MacroAssumption DEF Init
  <1>2. line \in Macros /\ (line.body # <<>> => line.body[1].t # "##")
    <2> DEFINE tk == Token("num", "7")
               body == <<tk>>
    <2>1. "num" \in Words /\ "7" \in Words
      BY DEF Words
    <2>2. tk \in ReadTokens
      BY <2>1, TokenFact
    <2>3. tk.t # "##"
      BY DEF Token
    <2>4. line = [argc |-> -1, params |-> <<>>, vararg |-> FALSE, builtin |-> TRUE, body |-> body]
      BY DEF Macro
    <2> HIDE DEF tk
    <2>5. body \in Seq(ReadTokens) /\ body[1] = tk
      BY <2>2
    <2> HIDE DEF body, line
    <2>6. -1 \in Int /\ <<>> \in Seq(Words)
      OBVIOUS
    <2>7. [argc |-> -1, params |-> <<>>, vararg |-> FALSE, builtin |-> TRUE, body |-> body]
            \in Macros
      BY <2>5, <2>6 DEF Macros
    <2>8. line.body = body
      BY <2>4
    <2> QED BY <2>3, <2>4, <2>5, <2>7, <2>8
  <1> HIDE DEF line
  <1>3. IsTable(macros)
    BY <1>1, <1>2 DEF IsTable
  <1>4. Alternate(stack)
    BY <1>1 DEF Alternate
  <1>5. Sound(Words, stack, hidden, macros)
    <2>1. stack \in Seq(Frames(Words, hidden, macros)) /\ hidden \in Seq(SUBSET Words)
      BY <1>1
    <2> QED BY <2>1 DEF Sound
  <1>6. \E S : Sound(S, stack, hidden, macros)
    BY <1>5
  <1> QED BY <1>1, <1>3, <1>4, <1>6 DEF MInv

LEMMA RowKeeps == ASSUME MInv, Row PROVE MInv'
  <1> DEFINE toks == Head(rows).toks
             f == Scan(toks, TRUE)
  <1>1. /\ rows # <<>> /\ Head(rows).kind = "text" /\ rows' = Tail(rows) /\ macros' = macros
        /\ hidden' = <<>> /\ stack' = <<f>> /\ phase' = "row"
    BY DEF Row
  <1>2. rows \in Seq(ReadRows) /\ IsTable(macros)
    BY DEF MInv
  <1>3. Head(rows) \in ReadRows /\ Tail(rows) \in Seq(ReadRows)
    BY <1>1, <1>2, EndsFact
  <1>4. toks \in Seq(ReadTokens)
    BY <1>1, <1>3 DEF ReadRows
  <1> DEFINE T == Good(Words, <<>>, macros)
  <1>5. toks \in Seq(T)
    <2>1. Words \subseteq Words /\ <<>> \in Seq(SUBSET Words)
      OBVIOUS
    <2>2. ReadTokens \subseteq T
      BY <2>1, ReadGood
    <2> HIDE DEF T, toks
    <2> QED BY <1>4, <2>2, SeqMonotonic
  <1> HIDE DEF toks
  <1>6. f = [kind |-> "scan", done |-> <<>>, rest |-> toks, linked |-> TRUE, look |-> TRUE]
    BY DEF Scan
  <1>7. f.kind = "scan"
    BY DEF Scan
  <1>8. <<>> \in Seq(T)
    OBVIOUS
  <1>9. [kind |-> "scan", done |-> <<>>, rest |-> toks, linked |-> TRUE, look |-> TRUE]
          \in Lists(Words, <<>>, macros)
    BY <1>5, <1>8, NewList
  <1> HIDE DEF f
  <1>10. f \in Frames(Words, <<>>, macros)
    BY <1>6, <1>9 DEF Frames
  <1>11. Sound(Words, stack', hidden', macros')
    <2>1. stack' \in Seq(Frames(Words, <<>>, macros))
      BY <1>1, <1>10
    <2>2. <<>> \in Seq(SUBSET Words)
      OBVIOUS
    <2> QED BY <1>1, <2>1, <2>2 DEF Sound
  <1>12. Alternate(stack') /\ Len(stack') = 1
    <2>1. Len(stack') = 1 /\ stack'[1] = f
      BY <1>1
    <2> QED BY <1>7, <2>1 DEF Alternate
  <1>13. \E S : Sound(S, stack', hidden', macros')
    BY <1>11
  <1>14. rows' \in Seq(ReadRows) /\ IsTable(macros')
    BY <1>1, <1>2, <1>3
  <1> QED BY <1>1, <1>12, <1>13, <1>14 DEF MInv

LEMMA NoRowKeeps == ASSUME MInv, NoRow PROVE MInv'
  <1>1. /\ phase' = "done" /\ rows' = rows /\ macros' = macros /\ hidden' = hidden /\ stack' = stack
    BY DEF NoRow
  <1>2. IsTable(macros') /\ rows' \in Seq(ReadRows) /\ Alternate(stack')
    BY <1>1 DEF MInv
  <1>3. PICK S : Sound(S, stack, hidden, macros)
    BY DEF MInv
  <1>4. Sound(S, stack', hidden', macros')
    BY <1>1, <1>3
  <1>5. \E T : Sound(T, stack', hidden', macros')
    BY <1>4
  <1> QED BY <1>1, <1>2, <1>5 DEF MInv

\* Between rows the table may change: no token of a list is left.
LEMMA TableKeeps ==
  ASSUME MInv, phase = "rows", rows # <<>>, rows' = Tail(rows), UNCHANGED <<hidden, stack, phase>>,
         IsTable(macros')
  PROVE  MInv'
  <1>1. stack = <<>> /\ rows \in Seq(ReadRows)
    BY DEF MInv
  <1>2. PICK S : Sound(S, stack, hidden, macros)
    BY DEF MInv
  <1>3. Sound(S, stack', hidden', macros')
    <2>1. stack' \in Seq(Frames(S, hidden', macros'))
      BY <1>1
    <2> QED BY <1>2, <2>1 DEF Sound
  <1>4. \E T : Sound(T, stack', hidden', macros')
    BY <1>3
  <1>5. rows' \in Seq(ReadRows)
    BY <1>1, EndsFact
  <1>6. Alternate(stack')
    BY DEF MInv
  <1> QED BY <1>1, <1>4, <1>5, <1>6 DEF MInv

LEMMA DefineKeeps == ASSUME MInv, Define PROVE MInv'
  <1> DEFINE name == Head(rows).name
             m == Head(rows).macro
             more == [s \in DOMAIN macros \cup {name} |-> IF s \in DOMAIN macros THEN macros[s] ELSE m]
  <1>1. /\ phase = "rows" /\ rows # <<>> /\ Head(rows).kind = "define"
        /\ \/ Fail
           \/ /\ WellFormed(m) /\ macros' = more /\ rows' = Tail(rows)
              /\ UNCHANGED <<hidden, stack, phase>>
    BY DEF Define
  <1>2. CASE Fail
    BY <1>2, FailKeeps
  <1>3. CASE /\ WellFormed(m) /\ macros' = more /\ rows' = Tail(rows)
             /\ UNCHANGED <<hidden, stack, phase>>
    <2>1. rows \in Seq(ReadRows) /\ IsTable(macros)
      BY DEF MInv
    <2>2. Head(rows) \in ReadRows
      BY <1>1, <2>1, EndsFact
    <2>3. m \in Macros
      BY <1>1, <2>2 DEF ReadRows
    <2>4. m.body # <<>> => m.body[1].t # "##"
      BY <1>3 DEF WellFormed
    <2> HIDE DEF name, m
    <2>5. IsTable(more)
      BY <2>1, <2>3, <2>4 DEF IsTable
    <2>6. IsTable(macros')
      BY <1>3, <2>5
    <2> HIDE DEF more
    <2> QED BY <1>1, <1>3, <2>6, TableKeeps
  <1> QED BY <1>1, <1>2, <1>3

LEMMA UndefKeeps == ASSUME MInv, Undef PROVE MInv'
  <1> DEFINE name == Head(rows).name
             less == [s \in DOMAIN macros \ {name} |-> macros[s]]
  <1>1. /\ phase = "rows" /\ rows # <<>>
        /\ \/ Fail
           \/ macros' = less /\ rows' = Tail(rows) /\ UNCHANGED <<hidden, stack, phase>>
    BY DEF Undef
  <1>2. CASE Fail
    BY <1>2, FailKeeps
  <1>3. CASE macros' = less /\ rows' = Tail(rows) /\ UNCHANGED <<hidden, stack, phase>>
    <2>1. IsTable(macros)
      BY DEF MInv
    <2> HIDE DEF name
    <2>2. IsTable(less)
      BY <2>1 DEF IsTable
    <2>3. IsTable(macros')
      BY <1>3, <2>2
    <2> HIDE DEF less
    <2> QED BY <1>1, <1>3, <2>3, TableKeeps
  <1> QED BY <1>1, <1>2, <1>3

LEMMA StepKeeps == ASSUME MInv, [Next]_vars PROVE MInv'
  <1>1. CASE UNCHANGED vars
    <2>1. /\ phase' = phase /\ rows' = rows /\ macros' = macros /\ hidden' = hidden /\ stack' = stack
      BY <1>1 DEF vars
    <2>2. /\ rows' \in Seq(ReadRows) /\ IsTable(macros') /\ Alternate(stack')
          /\ phase' \in {"rows", "row", "done", "failed"}
          /\ phase' = "rows" => stack' = <<>>
          /\ phase' = "row" => Len(stack') >= 1
      BY <2>1 DEF MInv
    <2>3. PICK S : Sound(S, stack, hidden, macros)
      BY DEF MInv
    <2>4. Sound(S, stack', hidden', macros')
      BY <2>1, <2>3
    <2>5. \E T : Sound(T, stack', hidden', macros')
      BY <2>4
    <2> QED BY <2>2, <2>5 DEF MInv
  <1>2. CASE Row \/ NoRow \/ Define \/ Undef
    BY <1>2, RowKeeps, NoRowKeeps, DefineKeeps, UndefKeeps
  <1>3. CASE PassToken \/ IsDefined \/ Builtin \/ ExpandObject
    BY <1>3, PassTokenKeeps, IsDefinedKeeps, BuiltinKeeps, ExpandObjectKeeps
  <1>4. CASE ExpandCall \/ NotACall \/ EndOfList
    BY <1>4, ExpandCallKeeps, NotACallKeeps, EndOfListKeeps
  <1>5. CASE CopyToken \/ MakeString \/ MakeConcat \/ ExpandArg \/ Replace
    BY <1>5, CopyTokenKeeps, MakeStringKeeps, MakeConcatKeeps, ExpandArgKeeps, ReplaceKeeps
  <1> QED BY <1>1, <1>2, <1>3, <1>4, <1>5 DEF Next

\* Whatever the rows and the macros are, lists and bodies alternate on the
\* stack of macro_expand_inner and macro_expand_userdefined, a ## always has an
\* operand on its left, every hidden set that a token names exists, and each
\* token is hidden by where it comes from, or will be when its replacement is
\* put back into the list.
THEOREM MacroInductive == Spec => []MInv
  <1>1. Init => MInv
    BY InitHolds
  <1>2. MInv /\ [Next]_vars => MInv'
    BY StepKeeps
  <1> QED BY <1>1, <1>2, PTL DEF Spec

\* A macro's name that came out of the macro's own replacement is not expanded
\* again ("distribute hidden-set", macro.c:869), for any rows, any macros and
\* any depth of calls, arguments and replacements within one another.
THEOREM NamesHidden == Spec => []OwnNameHidden
  <1>1. MInv => OwnNameHidden
    <2> SUFFICES ASSUME MInv, NEW n \in DOMAIN stack, stack[n].kind = "scan",
                        NEW k \in DOMAIN stack[n].rest, Defined(stack[n].rest[k])
                 PROVE  stack[n].rest[k].from \subseteq Hidden(stack[n].rest[k])
      BY DEF OwnNameHidden
    <2>1. PICK S : Sound(S, stack, hidden, macros)
      BY DEF MInv
    <2> DEFINE F == Frames(S, hidden, macros)
               T == Good(S, hidden, macros)
               f == stack[n]
    <2>2. f \in F
      <3>1. stack \in Seq(F)
        BY <2>1 DEF Sound
      <3> HIDE DEF F
      <3> QED BY <3>1
    <2>3. f \in Lists(S, hidden, macros)
      BY <2>2, BodyParts DEF Frames
    <2>4. f.rest \in Seq(T)
      BY <2>3, ListParts
    <2> DEFINE tk == f.rest[k]
    <2>5. tk \in T
      <3> HIDE DEF T, f
      <3> QED BY <2>4 DEF f
    <2>6. tk.t = "id" /\ tk.s \in DOMAIN macros
      BY DEF Defined, IsId
    <2>7. tk.from \subseteq HiddenBy(hidden, tk)
      BY <2>5, <2>6 DEF Good
    <2> QED BY <2>7 DEF Hidden, HiddenBy
  <1> QED BY <1>1, MacroInductive, PTL
=============================================================================
