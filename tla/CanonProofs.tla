----------------------------- MODULE CanonProofs -----------------------------
(***************************************************************************)
(* Theorems about the passes over the code list: whatever list the parser  *)
(* makes, what is left of its blocks nests, every label stays in one place *)
(* and every round of the simplification leaves less to simplify.          *)
(***************************************************************************)
EXTENDS Canon, WellFoundedInduction, TLAPS

-----------------------------------------------------------------------------
(* Induction over the naturals.                                            *)

\* A set of naturals has a least element.
LEMMA LeastFact ==
  ASSUME NEW S \in SUBSET Nat, S # {}
  PROVE  \E m \in S : \A k \in S : m <= k
  <1>1. PICK m \in S : \A k \in S : <<k, m>> \notin OpToRel(<, Nat)
    BY NatLessThanWellFounded, WFMin
  <1>2. \A k \in S : ~(k < m)
    BY <1>1 DEF OpToRel
  <1>3. \A k \in S : m <= k
    BY <1>2
  <1> QED BY <1>3

\* What holds of 0, and of each number up to N if it does of the one before.
LEMMA Steps ==
  ASSUME NEW N \in Nat, NEW P, 0 \in P, \A n \in 1 .. N : n - 1 \in P => n \in P
  PROVE  \A n \in 0 .. N : n \in P
  <1> DEFINE Bad == {n \in 0 .. N : n \notin P}
  <1> SUFFICES ASSUME Bad # {} PROVE FALSE
    OBVIOUS
  <1>1. Bad \in SUBSET Nat
    OBVIOUS
  <1>2. PICK b \in Bad : \A k \in Bad : b <= k
    BY <1>1, LeastFact
  <1>3. b \in 1 .. N /\ b - 1 \in 0 .. N /\ ~(b <= b - 1)
    BY <1>2
  <1>4. b - 1 \in P
    BY <1>2, <1>3
  <1> QED BY <1>2, <1>3, <1>4

\* c has the first value a, and goes on by the steps g.
Recurs(c, N, a, g) == \A n \in 0 .. N : c[n] = IF n = 0 THEN a ELSE g[<<n, c[n - 1]>>]

\* A function that is given by its first value and by steps exists.
LEMMA Recursion ==
  ASSUME NEW N \in Nat, NEW S, NEW a \in S, NEW g \in [(1 .. N) \X S -> S]
  PROVE  \E c \in [0 .. N -> S] : Recurs(c, N, a, g)
  <1> DEFINE Is(c, m) == \A n \in 0 .. m : c[n] = IF n = 0 THEN a ELSE g[<<n, c[n - 1]>>]
             P == {m \in 0 .. N : \E c \in [0 .. m -> S] : Is(c, m)}
  <1>1. 0 \in P
    <2> DEFINE c == [n \in 0 .. 0 |-> a]
    <2>1. c \in [0 .. 0 -> S]
      OBVIOUS
    <2>2. Is(c, 0)
      OBVIOUS
    <2> HIDE DEF Is, c
    <2>3. \E d \in [0 .. 0 -> S] : Is(d, 0)
      BY <2>1, <2>2
    <2> QED BY <2>3
  <1>2. ASSUME NEW m \in 1 .. N, m - 1 \in P PROVE m \in P
    <2>1. m \in Nat /\ m - 1 \in Nat /\ m - 1 \in 0 .. m - 1 /\ m \notin 0 .. m - 1
      OBVIOUS
    <2>2. PICK p \in [0 .. m - 1 -> S] : Is(p, m - 1)
      BY <1>2
    <2>3. g[<<m, p[m - 1]>>] \in S
      <3>1. <<m, p[m - 1]>> \in (1 .. N) \X S
        BY <2>1
      <3> QED BY <3>1
    <2> DEFINE c == [n \in 0 .. m |-> IF n = m THEN g[<<m, p[m - 1]>>] ELSE p[n]]
    <2>4. \A n \in 0 .. m : n # m => n \in 0 .. m - 1
      BY <2>1
    <2>5. c \in [0 .. m -> S]
      BY <2>3, <2>4
    <2>6. Is(c, m)
      <3>1. c[m] = g[<<m, c[m - 1]>>] /\ m # 0
        BY <2>1
      <3>2. ASSUME NEW n \in 0 .. m - 1 PROVE c[n] = IF n = 0 THEN a ELSE g[<<n, c[n - 1]>>]
        <4>1. c[n] = p[n]
          BY <2>1
        <4>2. n # 0 => n - 1 \in 0 .. m /\ n - 1 # m
          BY <2>1
        <4>3. n # 0 => c[n - 1] = p[n - 1]
          BY <4>2
        <4> QED BY <2>2, <4>1, <4>3
      <3> QED BY <2>4, <3>1, <3>2
    <2> HIDE DEF Is, c
    <2>7. \E d \in [0 .. m -> S] : Is(d, m)
      BY <2>5, <2>6
    <2> QED BY <2>7
  <1> HIDE DEF P
  <1>3. \A m \in 0 .. N : m \in P
    BY <1>1, <1>2, Steps
  <1>4. N \in P
    BY <1>3
  <1> QED BY <1>4 DEF P, Recurs

-----------------------------------------------------------------------------
(* Sums of numbers.                                                        *)

LEMMA SumsFact ==
  ASSUME NEW ws \in Seq(Int)
  PROVE  /\ Sums(ws) \in [0 .. Len(ws) -> Int] /\ Sums(ws)[0] = 0
         /\ \A n \in 1 .. Len(ws) : Sums(ws)[n] = Sums(ws)[n - 1] + ws[n]
  <1> DEFINE N == Len(ws)
             Is(c) == c = [n \in 0 .. N |-> IF n = 0 THEN 0 ELSE c[n - 1] + ws[n]]
             s == CHOOSE c : Is(c)
             g == [p \in (1 .. N) \X Int |-> p[2] + ws[p[1]]]
  <1>1. Sums(ws) = s
    BY DEF Sums
  <1>2. N \in Nat /\ \A n \in 1 .. N : ws[n] \in Int
    OBVIOUS
  <1> HIDE DEF N
  <1>3. g \in [(1 .. N) \X Int -> Int]
    BY <1>2
  <1>4. \A n \in 1 .. N : \A x \in Int : g[<<n, x>>] = x + ws[n]
    OBVIOUS
  <1> HIDE DEF g
  <1>5. PICK c \in [0 .. N -> Int] : Recurs(c, N, 0, g)
    <2>1. 0 \in Int
      OBVIOUS
    <2> QED BY <1>2, <1>3, <2>1, Recursion
  <1>6. \A n \in 0 .. N : c[n] = IF n = 0 THEN 0 ELSE c[n - 1] + ws[n]
    <2>1. ASSUME NEW n \in 0 .. N, n # 0 PROVE c[n] = c[n - 1] + ws[n]
      <3>1. n \in 1 .. N /\ n - 1 \in 0 .. N
        BY <1>2, <2>1
      <3>2. c[n - 1] \in Int /\ c[n] = g[<<n, c[n - 1]>>]
        BY <1>5, <3>1, <2>1 DEF Recurs
      <3> QED BY <1>4, <3>1, <3>2
    <2>2. 0 \in 0 .. N => c[0] = 0
      BY <1>5 DEF Recurs
    <2> QED BY <2>1, <2>2
  <1>7. Is(c)
    <2>1. c = [n \in 0 .. N |-> c[n]]
      OBVIOUS
    <2> QED BY <1>6, <2>1
  <1> HIDE DEF Is
  <1>8. Is(s)
    BY <1>7
  <1> HIDE DEF s
  <1>9. s = [n \in 0 .. N |-> IF n = 0 THEN 0 ELSE s[n - 1] + ws[n]]
    BY <1>8 DEF Is
  <1>10. s[0] = 0 /\ \A n \in 1 .. N : s[n] = s[n - 1] + ws[n]
    BY <1>2, <1>9
  <1>11. \A n \in 0 .. N : s[n] \in Int
    <2> DEFINE P == {n \in 0 .. N : s[n] \in Int}
    <2>1. 0 \in P
      BY <1>2, <1>10
    <2>2. ASSUME NEW n \in 1 .. N, n - 1 \in P PROVE n \in P
      <3>1. n \in 0 .. N /\ s[n - 1] \in Int /\ ws[n] \in Int
        BY <1>2, <2>2
      <3>2. s[n] = s[n - 1] + ws[n]
        BY <1>10
      <3> QED BY <3>1, <3>2
    <2> HIDE DEF P
    <2>3. \A n \in 0 .. N : n \in P
      BY <1>2, <2>1, <2>2, Steps
    <2> QED BY <2>3 DEF P
  <1>12. s \in [0 .. N -> Int]
    BY <1>9, <1>11
  <1> QED BY <1>1, <1>10, <1>12 DEF N

\* The sums are what goes on by the numbers of ws from 0.
LEMMA SumsAre ==
  ASSUME NEW ws \in Seq(Int), NEW D \in [0 .. Len(ws) -> Int],
         \A n \in 1 .. Len(ws) : D[n] = D[n - 1] + ws[n]
  PROVE  \A n \in 0 .. Len(ws) : Sums(ws)[n] = D[n] - D[0]
  <1> DEFINE s == Sums(ws)
             P == {n \in 0 .. Len(ws) : s[n] = D[n] - D[0]}
  <1>1. s \in [0 .. Len(ws) -> Int] /\ s[0] = 0
        /\ \A n \in 1 .. Len(ws) : s[n] = s[n - 1] + ws[n]
    BY SumsFact
  <1> HIDE DEF s
  <1>2. Len(ws) \in Nat /\ \A n \in 1 .. Len(ws) : ws[n] \in Int
    OBVIOUS
  <1>3. 0 \in P
    BY <1>1, <1>2
  <1>4. ASSUME NEW n \in 1 .. Len(ws), n - 1 \in P PROVE n \in P
    <2>1. n \in 0 .. Len(ws) /\ n - 1 \in 0 .. Len(ws) /\ s[n - 1] = D[n - 1] - D[0]
      BY <1>2, <1>4
    <2>2. s[n] = s[n - 1] + ws[n] /\ D[n] = D[n - 1] + ws[n]
      BY <1>1
    <2>3. D[0] \in Int /\ D[n - 1] \in Int /\ ws[n] \in Int
      <3>1. 0 \in 0 .. Len(ws)
        BY <1>2
      <3> QED BY <1>2, <2>1, <3>1
    <2> QED BY <2>1, <2>2, <2>3
  <1> HIDE DEF P
  <1>5. \A n \in 0 .. Len(ws) : n \in P
    BY <1>2, <1>3, <1>4, Steps
  <1> QED BY <1>5 DEF P, s

\* Larger numbers have a larger total.
LEMMA TotalsFact ==
  ASSUME NEW u \in Seq(Int), NEW v \in Seq(Int), Len(u) = Len(v),
         \A n \in 1 .. Len(v) : u[n] <= v[n]
  PROVE  /\ Total(u) \in Int /\ Total(v) \in Int /\ Total(u) <= Total(v)
         /\ (\E n \in 1 .. Len(v) : u[n] < v[n]) => Total(u) < Total(v)
  <1> DEFINE N == Len(v)
             s == Sums(u)
             t == Sums(v)
             P == {n \in 0 .. N : s[n] <= t[n] /\ ((\E i \in 1 .. n : u[i] < v[i]) => s[n] < t[n])}
  <1>1. N \in Nat /\ \A n \in 1 .. N : u[n] \in Int /\ v[n] \in Int
    OBVIOUS
  <1>2. s \in [0 .. N -> Int] /\ s[0] = 0 /\ \A n \in 1 .. N : s[n] = s[n - 1] + u[n]
    BY SumsFact
  <1>3. t \in [0 .. N -> Int] /\ t[0] = 0 /\ \A n \in 1 .. N : t[n] = t[n - 1] + v[n]
    BY SumsFact
  <1>4. Total(u) = s[N] /\ Total(v) = t[N]
    BY DEF Total
  <1> HIDE DEF N, s, t
  <1>5. 0 \in P
    BY <1>1, <1>2, <1>3
  <1>6. ASSUME NEW n \in 1 .. N, n - 1 \in P PROVE n \in P
    <2>1. n \in 0 .. N /\ n - 1 \in 0 .. N
      BY <1>1
    <2>2. s[n] = s[n - 1] + u[n] /\ t[n] = t[n - 1] + v[n] /\ u[n] <= v[n]
      BY <1>2, <1>3 DEF N
    <2>3. s[n - 1] \in Int /\ t[n - 1] \in Int /\ u[n] \in Int /\ v[n] \in Int
      BY <1>1, <1>2, <1>3, <2>1
    <2>4. s[n - 1] <= t[n - 1]
      BY <1>6
    <2>5. s[n] <= t[n]
      BY <2>2, <2>3, <2>4
    <2>6. ASSUME NEW i \in 1 .. n, u[i] < v[i] PROVE s[n] < t[n]
      <3>1. CASE i = n
        BY <2>2, <2>3, <2>4, <2>6, <3>1
      <3>2. CASE i # n
        <4>1. i \in 1 .. n - 1
          BY <2>1, <3>2
        <4>2. s[n - 1] < t[n - 1]
          BY <1>6, <2>6, <4>1
        <4> QED BY <2>2, <2>3, <4>2
      <3> QED BY <3>1, <3>2
    <2> QED BY <2>1, <2>5, <2>6
  <1> HIDE DEF P
  <1>7. \A n \in 0 .. N : n \in P
    BY <1>1, <1>5, <1>6, Steps
  <1>8. N \in P
    BY <1>1, <1>7
  <1>9. s[N] \in Int /\ t[N] \in Int
    BY <1>1, <1>2, <1>3
  <1> QED BY <1>4, <1>8, <1>9 DEF P, N

-----------------------------------------------------------------------------
(* Code lists that are joined.                                             *)

LEMMA JoinedSteps ==
  ASSUME NEW S, NEW ss \in Seq(Seq(S))
  PROVE  \E j \in [0 .. Len(ss) -> Seq(S)] :
           /\ j[0] = <<>> /\ \A n \in 1 .. Len(ss) : j[n] = j[n - 1] \o ss[n]
           /\ Joined(ss) = j[Len(ss)]
  <1> DEFINE N == Len(ss)
             Is(c) == c = [n \in 0 .. N |-> IF n = 0 THEN <<>> ELSE c[n - 1] \o ss[n]]
             s == CHOOSE c : Is(c)
             g == [p \in (1 .. N) \X Seq(S) |-> p[2] \o ss[p[1]]]
  <1>1. Joined(ss) = s[N]
    BY DEF Joined
  <1>2. N \in Nat /\ (\A n \in 1 .. N : ss[n] \in Seq(S)) /\ <<>> \in Seq(S)
    OBVIOUS
  <1> HIDE DEF N
  <1>3. g \in [(1 .. N) \X Seq(S) -> Seq(S)]
    <2>1. ASSUME NEW p \in (1 .. N) \X Seq(S) PROVE p[2] \o ss[p[1]] \in Seq(S)
      <3>1. p[2] \in Seq(S) /\ ss[p[1]] \in Seq(S)
        BY <1>2
      <3> QED BY <3>1
    <2> QED BY <2>1
  <1>4. \A n \in 1 .. N : \A x \in Seq(S) : g[<<n, x>>] = x \o ss[n]
    OBVIOUS
  <1> HIDE DEF g
  <1>5. PICK c \in [0 .. N -> Seq(S)] : Recurs(c, N, <<>>, g)
    BY <1>2, <1>3, Recursion
  <1>6. \A n \in 0 .. N : c[n] = IF n = 0 THEN <<>> ELSE c[n - 1] \o ss[n]
    <2>1. ASSUME NEW n \in 0 .. N, n # 0 PROVE c[n] = c[n - 1] \o ss[n]
      <3>1. n \in 1 .. N /\ n - 1 \in 0 .. N
        BY <1>2, <2>1
      <3>2. c[n - 1] \in Seq(S) /\ c[n] = g[<<n, c[n - 1]>>]
        BY <1>5, <3>1, <2>1 DEF Recurs
      <3> QED BY <1>4, <3>1, <3>2
    <2>2. 0 \in 0 .. N => c[0] = <<>>
      BY <1>5 DEF Recurs
    <2> QED BY <2>1, <2>2
  <1>7. Is(c)
    <2>1. c = [n \in 0 .. N |-> c[n]]
      OBVIOUS
    <2> QED BY <1>6, <2>1
  <1> HIDE DEF Is
  <1>8. Is(s)
    BY <1>7
  <1> HIDE DEF s
  <1>9. s = [n \in 0 .. N |-> IF n = 0 THEN <<>> ELSE s[n - 1] \o ss[n]]
    BY <1>8 DEF Is
  <1>10. s[0] = <<>>
    BY <1>2, <1>9
  <1>11. ASSUME NEW n \in 1 .. N PROVE s[n] = s[n - 1] \o ss[n]
    <2>1. n \in 0 .. N /\ n # 0
      BY <1>2
    <2> QED BY <1>9, <2>1, Zenon
  <1>12. \A n \in 0 .. N : s[n] \in Seq(S)
    <2> DEFINE P == {n \in 0 .. N : s[n] \in Seq(S)}
    <2>0. 0 \in 0 .. N /\ s[0] \in Seq(S)
      BY <1>2, <1>10
    <2>1. 0 \in P
      BY <2>0
    <2>2. ASSUME NEW n \in 1 .. N, n - 1 \in P PROVE n \in P
      <3>1. n \in 0 .. N /\ s[n - 1] \in Seq(S) /\ ss[n] \in Seq(S)
        BY <1>2, <2>2
      <3>2. s[n - 1] \o ss[n] \in Seq(S)
        BY <3>1
      <3>3. s[n] \in Seq(S)
        BY <1>11, <3>2
      <3> QED BY <3>1, <3>3
    <2> HIDE DEF P
    <2>3. \A n \in 0 .. N : n \in P
      BY <1>2, <2>1, <2>2, Steps
    <2> QED BY <2>3 DEF P
  <1>13. s \in [0 .. N -> Seq(S)]
    BY <1>9, <1>12
  <1> QED BY <1>1, <1>10, <1>11, <1>13 DEF N

LEMMA JoinedIs ==
  ASSUME NEW S, NEW ss \in Seq(Seq(S)), NEW j \in [0 .. Len(ss) -> Seq(S)],
         j[0] = <<>>, \A n \in 1 .. Len(ss) : j[n] = j[n - 1] \o ss[n]
  PROVE  Joined(ss) = j[Len(ss)]
  <1> DEFINE N == Len(ss)
  <1>1. PICK k \in [0 .. N -> Seq(S)] :
          /\ k[0] = <<>> /\ \A n \in 1 .. N : k[n] = k[n - 1] \o ss[n]
          /\ Joined(ss) = k[N]
    BY JoinedSteps
  <1> DEFINE P == {n \in 0 .. N : k[n] = j[n]}
  <1>2. N \in Nat
    OBVIOUS
  <1>3. \A n \in 1 .. N : j[n] = j[n - 1] \o ss[n]
    OBVIOUS
  <1> HIDE DEF N
  <1>4. 0 \in P
    BY <1>1, <1>2
  <1>5. ASSUME NEW n \in 1 .. N, n - 1 \in P PROVE n \in P
    <2>1. n \in 0 .. N /\ k[n - 1] = j[n - 1]
      BY <1>2, <1>5
    <2> QED BY <1>1, <1>3, <2>1
  <1> HIDE DEF P
  <1>6. \A n \in 0 .. N : n \in P
    BY <1>2, <1>4, <1>5, Steps
  <1>7. N \in P
    BY <1>2, <1>6
  <1> QED BY <1>1, <1>7 DEF P, N

LEMMA JoinedTyped ==
  ASSUME NEW S, NEW ss \in Seq(Seq(S))
  PROVE  Joined(ss) \in Seq(S) /\ (ss = <<>> => Joined(ss) = <<>>)
  <1>1. PICK j \in [0 .. Len(ss) -> Seq(S)] : j[0] = <<>> /\ Joined(ss) = j[Len(ss)]
    BY JoinedSteps
  <1>2. Len(ss) \in 0 .. Len(ss) /\ (ss = <<>> => Len(ss) = 0)
    OBVIOUS
  <1> QED BY <1>1, <1>2

LEMMA JoinedAppend ==
  ASSUME NEW S, NEW ss \in Seq(Seq(S)), NEW s \in Seq(S)
  PROVE  Joined(Append(ss, s)) = Joined(ss) \o s
  <1> DEFINE N == Len(ss)
             tt == Append(ss, s)
  <1>1. PICK j \in [0 .. N -> Seq(S)] :
          /\ j[0] = <<>> /\ \A n \in 1 .. N : j[n] = j[n - 1] \o ss[n]
          /\ Joined(ss) = j[N]
    BY JoinedSteps
  <1> DEFINE k == [n \in 0 .. N + 1 |-> IF n = N + 1 THEN j[N] \o s ELSE j[n]]
  <1>2. /\ N \in Nat /\ tt \in Seq(Seq(S)) /\ Len(tt) = N + 1 /\ tt[N + 1] = s
        /\ \A n \in 1 .. N : tt[n] = ss[n]
    OBVIOUS
  <1> HIDE DEF N, tt
  <1>3. \A n \in 0 .. N : n \in 0 .. N + 1 /\ n # N + 1
    BY <1>2
  <1>4. (\A n \in 0 .. N : k[n] = j[n]) /\ k[N + 1] = j[N] \o s
    BY <1>2, <1>3
  <1>5. k \in [0 .. N + 1 -> Seq(S)]
    <2>1. N \in 0 .. N /\ j[N] \o s \in Seq(S)
      BY <1>1, <1>2
    <2>2. \A n \in 0 .. N + 1 : n # N + 1 => n \in 0 .. N
      BY <1>2
    <2> QED BY <1>1, <2>1, <2>2
  <1> HIDE DEF k
  <1>6. k[0] = <<>>
    BY <1>1, <1>2, <1>4
  <1>7. ASSUME NEW n \in 1 .. Len(tt) PROVE k[n] = k[n - 1] \o tt[n]
    <2>1. CASE n = N + 1
      <3>1. n - 1 = N /\ N \in 0 .. N
        <4>1. N \in Nat
          BY <1>2
        <4> QED BY <2>1, <4>1
      <3> QED BY <1>2, <1>4, <2>1, <3>1
    <2>2. CASE n # N + 1
      <3>1. n \in 1 .. N /\ n \in 0 .. N /\ n - 1 \in 0 .. N
        BY <1>2, <2>2
      <3> QED BY <1>1, <1>2, <1>4, <3>1
    <2> QED BY <2>1, <2>2
  <1>8. Joined(tt) = k[Len(tt)]
    BY <1>2, <1>5, <1>6, <1>7, JoinedIs
  <1> QED BY <1>1, <1>2, <1>4, <1>8 DEF tt

\* Codes one by one are the code list.
LEMMA JoinedSingles ==
  ASSUME NEW S, NEW codes \in Seq(S)
  PROVE  Joined([i \in DOMAIN codes |-> <<codes[i]>>]) = codes
  <1> DEFINE N == Len(codes)
             ss == [i \in DOMAIN codes |-> <<codes[i]>>]
             j == [n \in 0 .. N |-> SubSeq(codes, 1, n)]
  <1>a. DOMAIN codes = 1 .. N /\ N \in Nat /\ \A n \in 1 .. N : <<codes[n]>> \in Seq(S)
    OBVIOUS
  <1>b. ss = [i \in 1 .. N |-> <<codes[i]>>]
    BY <1>a
  <1>c. ss \in [1 .. N -> Seq(S)]
    BY <1>a, <1>b
  <1>d. ss \in Seq(Seq(S)) /\ Len(ss) = N
    BY <1>a, <1>b, <1>c
  <1>1. ss \in Seq(Seq(S)) /\ Len(ss) = N /\ N \in Nat /\ \A n \in 1 .. N : ss[n] = <<codes[n]>>
    BY <1>a, <1>b, <1>d
  <1>2. j \in [0 .. N -> Seq(S)] /\ j[0] = <<>> /\ j[N] = codes
    OBVIOUS
  <1>3. ASSUME NEW n \in 1 .. N PROVE j[n] = j[n - 1] \o ss[n]
    <2>1. SubSeq(codes, 1, n) = SubSeq(codes, 1, n - 1) \o <<codes[n]>>
      OBVIOUS
    <2>2. n \in 0 .. N /\ n - 1 \in 0 .. N
      OBVIOUS
    <2> QED BY <1>1, <2>1, <2>2
  <1> HIDE DEF j, ss, N
  <1>4. Joined(ss) = j[Len(ss)]
    <2>1. ss \in Seq(Seq(S)) /\ j \in [0 .. Len(ss) -> Seq(S)] /\ j[0] = <<>>
      BY <1>1, <1>2
    <2>2. \A n \in 1 .. Len(ss) : j[n] = j[n - 1] \o ss[n]
      BY <1>1, <1>3
    <2> QED BY <2>1, <2>2, JoinedIs
  <1> QED BY <1>1, <1>2, <1>4 DEF ss

-----------------------------------------------------------------------------
(* The weight of a code list, when w gives the weight of a code.           *)

Weights(w, codes) == [i \in DOMAIN codes |-> w[codes[i]]]
Weighed(w, codes) == Total(Weights(w, codes))

LEMMA WeightsFact ==
  ASSUME NEW S, NEW w \in [S -> Int], NEW codes \in Seq(S)
  PROVE  /\ Weights(w, codes) \in Seq(Int) /\ Len(Weights(w, codes)) = Len(codes)
         /\ \A n \in 1 .. Len(codes) : Weights(w, codes)[n] = w[codes[n]]
         /\ Weighed(w, codes) = Sums(Weights(w, codes))[Len(codes)]
         /\ Weighed(w, codes) \in Int
  <1> DEFINE N == Len(codes)
             ws == Weights(w, codes)
  <1>1. DOMAIN codes = 1 .. N /\ N \in Nat /\ \A n \in 1 .. N : w[codes[n]] \in Int
    OBVIOUS
  <1>2. ws = [n \in 1 .. N |-> w[codes[n]]]
    BY <1>1 DEF Weights
  <1>3. ws \in [1 .. N -> Int]
    BY <1>1, <1>2
  <1>4. ws \in Seq(Int) /\ Len(ws) = N
    BY <1>1, <1>2, <1>3
  <1>5. \A n \in 1 .. N : ws[n] = w[codes[n]]
    BY <1>2
  <1> HIDE DEF ws
  <1>6. Weighed(w, codes) = Sums(ws)[N]
    BY <1>4 DEF Weighed, Total, ws
  <1>7. Sums(ws) \in [0 .. N -> Int]
    BY <1>4, SumsFact
  <1>8. N \in 0 .. N
    BY <1>1
  <1> QED BY <1>4, <1>5, <1>6, <1>7, <1>8 DEF ws

LEMMA WeighedShort ==
  ASSUME NEW S, NEW w \in [S -> Int]
  PROVE  Weighed(w, <<>>) = 0 /\ \A x \in S : Weighed(w, <<x>>) = w[x]
  <1>1. Weighed(w, <<>>) = 0
    <2>1. <<>> \in Seq(S) /\ Len(<<>>) = 0
      OBVIOUS
    <2>2. Weights(w, <<>>) \in Seq(Int) /\ Weighed(w, <<>>) = Sums(Weights(w, <<>>))[0]
      BY <2>1, WeightsFact
    <2> QED BY <2>2, SumsFact
  <1>2. ASSUME NEW x \in S PROVE Weighed(w, <<x>>) = w[x]
    <2> DEFINE c == <<x>>
               ws == Weights(w, c)
    <2>1. c \in Seq(S) /\ Len(c) = 1 /\ c[1] = x
      OBVIOUS
    <2> HIDE DEF c
    <2>2. ws \in Seq(Int) /\ Len(ws) = 1 /\ ws[1] = w[x] /\ Weighed(w, c) = Sums(ws)[1]
      BY <2>1, WeightsFact
    <2> HIDE DEF ws
    <2>3. Sums(ws)[0] = 0 /\ Sums(ws)[1] = Sums(ws)[1 - 1] + ws[1]
      BY <2>2, SumsFact
    <2>4. 1 - 1 = 0 /\ w[x] \in Int
      OBVIOUS
    <2>5. Weighed(w, c) = w[x]
      BY <2>2, <2>3, <2>4
    <2> QED BY <2>5 DEF c
  <1> QED BY <1>1, <1>2

LEMMA WeighedConcat ==
  ASSUME NEW S, NEW w \in [S -> Int], NEW c \in Seq(S), NEW d \in Seq(S)
  PROVE  Weighed(w, c \o d) = Weighed(w, c) + Weighed(w, d)
  <1> DEFINE M == Len(c)
             N == Len(d)
             e == c \o d
             u == Weights(w, c)
             v == Weights(w, d)
             ws == Weights(w, e)
             D == [n \in 0 .. M + N |-> IF n <= M THEN Sums(u)[n] ELSE Sums(u)[M] + Sums(v)[n - M]]
  <1>1. /\ M \in Nat /\ N \in Nat /\ e \in Seq(S) /\ Len(e) = M + N
        /\ (\A n \in 1 .. M : e[n] = c[n]) /\ \A n \in 1 .. N : e[n + M] = d[n]
    <2>1. M \in Nat /\ N \in Nat /\ e \in Seq(S) /\ Len(e) = M + N
      OBVIOUS
    <2>2. \A n \in 1 .. M : e[n] = c[n]
      OBVIOUS
    <2>3. \A n \in 1 .. N : e[n + M] = d[n]
      OBVIOUS
    <2> QED BY <2>1, <2>2, <2>3
  <1> HIDE DEF e
  <1>2. u \in Seq(Int) /\ Len(u) = M /\ (\A n \in 1 .. M : u[n] = w[c[n]]) /\ Weighed(w, c) = Sums(u)[M]
    <2> HIDE DEF u, M
    <2>1. u \in Seq(Int) /\ Len(u) = M
      BY WeightsFact, SMTT(30) DEF u, M
    <2>2. \A n \in 1 .. M : u[n] = w[c[n]]
      BY WeightsFact, SMTT(30) DEF u, M
    <2>3. Weighed(w, c) = Sums(u)[M]
      BY WeightsFact, SMTT(30) DEF u, M
    <2> QED BY <2>1, <2>2, <2>3
  <1>3. v \in Seq(Int) /\ Len(v) = N /\ (\A n \in 1 .. N : v[n] = w[d[n]]) /\ Weighed(w, d) = Sums(v)[N]
    BY WeightsFact
  <1>4. ws \in Seq(Int) /\ Len(ws) = M + N /\ (\A n \in 1 .. M + N : ws[n] = w[e[n]])
        /\ Weighed(w, e) = Sums(ws)[M + N]
    <2> HIDE DEF M, N
    <2>0. e \in Seq(S)
      BY <1>1
    <2>1. /\ ws \in Seq(Int) /\ Len(ws) = Len(e) /\ \A n \in 1 .. Len(e) : ws[n] = w[e[n]]
          /\ Weighed(w, e) = Sums(ws)[Len(e)]
      BY <2>0, WeightsFact, SMTT(30)
    <2> QED BY <1>1, <2>1
  <1> HIDE DEF u, v, ws, M, N
  <1>5. Sums(u) \in [0 .. M -> Int] /\ Sums(u)[0] = 0
        /\ \A n \in 1 .. M : Sums(u)[n] = Sums(u)[n - 1] + u[n]
    BY <1>2, SumsFact
  <1>6. Sums(v) \in [0 .. N -> Int] /\ Sums(v)[0] = 0
        /\ \A n \in 1 .. N : Sums(v)[n] = Sums(v)[n - 1] + v[n]
    BY <1>3, SumsFact
  <1> DEFINE s == Sums(u)
             t == Sums(v)
  <1> HIDE DEF s, t
  <1>7. D \in [0 .. M + N -> Int]
    <2>1. ASSUME NEW n \in 0 .. M + N, ~(n <= M) PROVE n - M \in 0 .. N
      BY <1>1, <2>1
    <2>2. ASSUME NEW n \in 0 .. M + N, n <= M PROVE n \in 0 .. M
      BY <1>1, <2>2
    <2>3. M \in 0 .. M
      BY <1>1
    <2> QED BY <1>5, <1>6, <2>1, <2>2, <2>3
  <1>8. ASSUME NEW n \in 1 .. M + N PROVE D[n] = D[n - 1] + ws[n]
    <2>1. n \in 0 .. M + N /\ n - 1 \in 0 .. M + N
      BY <1>1
    <2>2. CASE n <= M
      <3>1. n \in 1 .. M /\ n - 1 <= M
        BY <1>1, <2>2
      <3>2. D[n] = Sums(u)[n] /\ D[n - 1] = Sums(u)[n - 1]
        BY <2>1, <2>2, <3>1
      <3>3. ws[n] = u[n]
        <4>1. ws[n] = w[e[n]]
          BY <1>4
        <4>2. e[n] = c[n] /\ u[n] = w[c[n]]
          BY <1>1, <1>2, <3>1
        <4> QED BY <4>1, <4>2
      <3>4. Sums(u)[n] = Sums(u)[n - 1] + u[n]
        BY <1>5, <3>1
      <3> QED BY <3>2, <3>3, <3>4
    <2>3. CASE ~(n <= M)
      <3> DEFINE m == n - M
      <3>1. m \in 1 .. N /\ n = m + M /\ m \in 0 .. N /\ m - 1 \in 0 .. N /\ n - 1 - M = m - 1
        BY <1>1, <2>3
      <3>2. D[n] = Sums(u)[M] + Sums(v)[m]
        BY <2>1, <2>3
      <3>3. D[n - 1] = Sums(u)[M] + Sums(v)[m - 1]
        <4>1. CASE n - 1 <= M
          <5>1. n - 1 = M /\ m - 1 = 0 /\ M \in 0 .. M
            BY <1>1, <2>3, <4>1
          <5>2. D[n - 1] = Sums(u)[M] /\ Sums(u)[M] \in Int /\ Sums(v)[m - 1] = 0
            BY <1>5, <1>6, <2>1, <5>1
          <5> QED BY <5>2
        <4>2. CASE ~(n - 1 <= M)
          BY <2>1, <3>1, <4>2
        <4> QED BY <4>1, <4>2
      <3>4. ws[n] = v[m]
        <4>1. e[n] = d[m]
          BY <1>1, <3>1
        <4>2. n \in 1 .. M + N
          OBVIOUS
        <4> QED BY <1>3, <1>4, <3>1, <4>1, <4>2
      <3> HIDE DEF m, D
      <3>5. Sums(v)[m] = Sums(v)[m - 1] + v[m]
        BY <1>6, <3>1
      <3>6. M \in 0 .. M
        BY <1>1
      <3>7. Sums(u)[M] \in Int /\ Sums(v)[m - 1] \in Int
        BY <1>5, <1>6, <3>1, <3>6
      <3>8. v[m] \in Int
        BY <1>3, <3>1
      <3> QED BY <3>2, <3>3, <3>4, <3>5, <3>7, <3>8
    <2> QED BY <2>2, <2>3
  <1>9. D[0] = 0 /\ D[M + N] = Sums(u)[M] + Sums(v)[N]
    <2>1. 0 \in 0 .. M + N /\ M + N \in 0 .. M + N /\ 0 <= M /\ M \in 0 .. M /\ M + N - M = N
      BY <1>1
    <2>2. D[0] = 0
      BY <1>5, <2>1
    <2>3. CASE N = 0
      <3>1. M + N = M /\ Sums(v)[N] = 0 /\ Sums(u)[M] \in Int
        BY <1>1, <1>5, <1>6, <2>1, <2>3
      <3> QED BY <2>1, <2>2, <3>1
    <2>4. CASE N # 0
      <3>1. ~(M + N <= M)
        BY <1>1, <2>4
      <3>2. PICK k \in 0 .. M + N : k = M + N
        BY <2>1
      <3>3. ~(k <= M) /\ k - M = N
        <4>1. M \in Nat /\ N \in Nat
          BY <1>1
        <4> HIDE DEF D
        <4> QED BY <2>4, <3>2, <4>1
      <3>4. D[k] = Sums(u)[M] + Sums(v)[k - M]
        BY <3>3
      <3> HIDE DEF D
      <3> QED BY <2>2, <3>2, <3>3, <3>4
    <2> QED BY <2>3, <2>4
  <1> HIDE DEF D
  <1>10. Sums(ws)[M + N] = D[M + N] - D[0]
    <2>1. M + N \in 0 .. Len(ws)
      BY <1>1, <1>4
    <2> QED BY <1>4, <1>7, <1>8, <2>1, SumsAre
  <1>11. D[M + N] - D[0] = D[M + N]
    <2>1. M + N \in 0 .. M + N
      BY <1>1
    <2> QED BY <1>7, <1>9, <2>1
  <1> QED BY <1>2, <1>3, <1>4, <1>9, <1>10, <1>11 DEF e

\* The weight of lists that are joined is the sum of theirs.
LEMMA WeighedJoined ==
  ASSUME NEW S, NEW w \in [S -> Int], NEW ss \in Seq(Seq(S)), NEW ws \in Seq(Int),
         Len(ws) = Len(ss), \A n \in 1 .. Len(ss) : ws[n] = Weighed(w, ss[n])
  PROVE  Weighed(w, Joined(ss)) = Total(ws)
  <1> DEFINE N == Len(ss)
  <1>1. PICK j \in [0 .. N -> Seq(S)] :
          /\ j[0] = <<>> /\ \A n \in 1 .. N : j[n] = j[n - 1] \o ss[n]
          /\ Joined(ss) = j[N]
    BY JoinedSteps
  <1> DEFINE D == [n \in 0 .. N |-> Weighed(w, j[n])]
  <1>2. N \in Nat /\ Len(ws) = N /\ \A n \in 1 .. N : ss[n] \in Seq(S) /\ ws[n] = Weighed(w, ss[n])
    OBVIOUS
  <1> HIDE DEF N
  <1>3. D \in [0 .. N -> Int]
    BY <1>1, WeightsFact
  <1>4. D[0] = 0
    BY <1>1, <1>2, WeighedShort
  <1>5. ASSUME NEW n \in 1 .. N PROVE D[n] = D[n - 1] + ws[n]
    <2>1. n \in 0 .. N /\ n - 1 \in 0 .. N /\ j[n - 1] \in Seq(S) /\ ss[n] \in Seq(S)
      BY <1>1, <1>2
    <2>2. Weighed(w, j[n - 1] \o ss[n]) = Weighed(w, j[n - 1]) + Weighed(w, ss[n])
      BY <2>1, WeighedConcat
    <2> QED BY <1>1, <1>2, <2>1, <2>2
  <1>6. D[N] = Weighed(w, Joined(ss)) /\ N \in 0 .. N
    BY <1>1, <1>2
  <1> HIDE DEF D
  <1>7. Sums(ws)[N] = D[N] - D[0]
    BY <1>2, <1>3, <1>5, <1>6, SumsAre
  <1>8. D[N] \in Int
    BY <1>3, <1>6
  <1> QED BY <1>2, <1>4, <1>6, <1>7, <1>8 DEF Total

\* Lists that are joined weigh no more than others when each of them does not.
LEMMA LighterJoined ==
  ASSUME NEW S, NEW w \in [S -> Int], NEW ss \in Seq(Seq(S)), NEW tt \in Seq(Seq(S)),
         Len(ss) = Len(tt), \A n \in 1 .. Len(tt) : Weighed(w, ss[n]) <= Weighed(w, tt[n])
  PROVE  /\ Weighed(w, Joined(ss)) <= Weighed(w, Joined(tt))
         /\ (\E n \in 1 .. Len(tt) : Weighed(w, ss[n]) < Weighed(w, tt[n]))
            => Weighed(w, Joined(ss)) < Weighed(w, Joined(tt))
  <1> DEFINE N == Len(tt)
             u == [n \in 1 .. N |-> Weighed(w, ss[n])]
             v == [n \in 1 .. N |-> Weighed(w, tt[n])]
  <1>1. N \in Nat /\ \A n \in 1 .. N : ss[n] \in Seq(S) /\ tt[n] \in Seq(S)
    OBVIOUS
  <1>2. \A n \in 1 .. N : Weighed(w, ss[n]) \in Int /\ Weighed(w, tt[n]) \in Int
    BY <1>1, WeightsFact
  <1>3. u \in Seq(Int) /\ Len(u) = N /\ v \in Seq(Int) /\ Len(v) = N
    BY <1>1, <1>2
  <1>4. \A n \in 1 .. N : u[n] = Weighed(w, ss[n]) /\ v[n] = Weighed(w, tt[n]) /\ u[n] <= v[n]
    OBVIOUS
  <1> HIDE DEF u, v
  <1>5. Weighed(w, Joined(ss)) = Total(u) /\ Weighed(w, Joined(tt)) = Total(v)
    BY <1>3, <1>4, WeighedJoined
  <1> QED BY <1>3, <1>4, <1>5, TotalsFact

-----------------------------------------------------------------------------
(* Depths of blocks.                                                       *)

\* The codes lead from depth a to depth b, and never below 0.
Along(D, codes) == \A n \in 1 .. Len(codes) : D[n] = D[n - 1] + Rise(codes[n])
Path(codes, a, b) ==
  \E D \in [0 .. Len(codes) -> Nat] : D[0] = a /\ D[Len(codes)] = b /\ Along(D, codes)

LEMMA RiseFact == \A c : Rise(c) \in Int
  BY DEF Rise

LEMMA NestsIsPath ==
  ASSUME NEW codes \in Seq(CodeSet)
  PROVE  Nests(codes) <=> Path(codes, 0, 0)
  <1> DEFINE N == Len(codes)
             ws == [i \in DOMAIN codes |-> Rise(codes[i])]
             s == Depths(codes)
  <1>1. N \in Nat /\ DOMAIN codes = 1 .. N /\ 0 \in 0 .. N /\ N \in 0 .. N
    OBVIOUS
  <1>2. \A n \in 1 .. N : Rise(codes[n]) \in Int
    BY RiseFact
  <1>3. ws = [i \in 1 .. N |-> Rise(codes[i])]
    BY <1>1
  <1>4. ws \in [1 .. N -> Int]
    BY <1>2, <1>3
  <1>5. ws \in Seq(Int) /\ Len(ws) = N
    BY <1>1, <1>3, <1>4
  <1>6. \A n \in 1 .. N : ws[n] = Rise(codes[n])
    BY <1>3
  <1>7. s = Sums(ws)
    BY DEF Depths
  <1> HIDE DEF ws, N, s
  <1>8. s \in [0 .. N -> Int] /\ s[0] = 0 /\ \A n \in 1 .. N : s[n] = s[n - 1] + ws[n]
    BY <1>5, <1>7, SumsFact
  <1>9. Nests(codes) <=> (\A n \in 0 .. N : s[n] >= 0) /\ s[N] = 0
    BY DEF Nests, N, s
  <1>10. ASSUME Nests(codes) PROVE Path(codes, 0, 0)
    <2>1. s \in [0 .. N -> Nat]
      <3>1. \A n \in 0 .. N : s[n] \in Int /\ s[n] >= 0
        BY <1>8, <1>9, <1>10
      <3>2. \A n \in 0 .. N : s[n] \in Nat
        BY <3>1
      <3> QED BY <1>8, <3>2
    <2>2. Along(s, codes)
      BY <1>6, <1>8 DEF Along, N
    <2>3. s[0] = 0 /\ s[N] = 0
      BY <1>8, <1>9, <1>10
    <2> QED BY <2>1, <2>2, <2>3 DEF Path, N
  <1>11. ASSUME Path(codes, 0, 0) PROVE Nests(codes)
    <2>1. PICK D \in [0 .. N -> Nat] : D[0] = 0 /\ D[N] = 0 /\ Along(D, codes)
      BY <1>11 DEF Path, N
    <2>2. D \in [0 .. N -> Int]
      OBVIOUS
    <2>3. \A n \in 1 .. N : D[n] = D[n - 1] + ws[n]
      BY <1>6, <2>1 DEF Along, N
    <2>4. \A n \in 0 .. N : s[n] = D[n] - D[0]
      BY <1>5, <1>7, <2>2, <2>3, SumsAre
    <2>5. \A n \in 0 .. N : s[n] = D[n]
      BY <2>1, <2>2, <2>4
    <2> QED BY <1>1, <1>9, <2>1, <2>5
  <1> QED BY <1>10, <1>11

LEMMA PathShort ==
  ASSUME NEW a \in Nat, NEW b \in Nat, NEW x
  PROVE  Path(<<>>, a, a) /\ (b = a + Rise(x) => Path(<<x>>, a, b))
  <1>1. Path(<<>>, a, a)
    <2> DEFINE D == [n \in 0 .. 0 |-> a]
    <2>1. D \in [0 .. Len(<<>>) -> Nat] /\ D[0] = a /\ D[Len(<<>>)] = a
      OBVIOUS
    <2>2. Along(D, <<>>)
      BY DEF Along
    <2> HIDE DEF D
    <2> QED BY <2>1, <2>2 DEF Path
  <1>2. ASSUME b = a + Rise(x) PROVE Path(<<x>>, a, b)
    <2> DEFINE c == <<x>>
               D == [n \in 0 .. 1 |-> IF n = 0 THEN a ELSE b]
    <2>1. Len(c) = 1 /\ c[1] = x
      OBVIOUS
    <2>2. D \in [0 .. 1 -> Nat] /\ D[0] = a /\ D[1] = b
      OBVIOUS
    <2> HIDE DEF c, D
    <2>3. \A n \in 1 .. 1 : n = 1 /\ n - 1 = 0
      OBVIOUS
    <2>4. Along(D, c)
      BY <1>2, <2>1, <2>2, <2>3 DEF Along
    <2>5. Path(c, a, b)
      BY <2>1, <2>2, <2>4 DEF Path
    <2> QED BY <2>5 DEF c
  <1> QED BY <1>1, <1>2

LEMMA PathConcat ==
  ASSUME NEW S, NEW c \in Seq(S), NEW d \in Seq(S), NEW a, NEW m, NEW b,
         Path(c, a, m), Path(d, m, b)
  PROVE  Path(c \o d, a, b)
  <1> DEFINE M == Len(c)
             N == Len(d)
             e == c \o d
  <1>1. /\ M \in Nat /\ N \in Nat /\ e \in Seq(S) /\ Len(e) = M + N
        /\ (\A n \in 1 .. M : e[n] = c[n]) /\ \A n \in 1 .. N : e[n + M] = d[n]
    <2>1. M \in Nat /\ N \in Nat /\ e \in Seq(S) /\ Len(e) = M + N
      OBVIOUS
    <2>2. \A n \in 1 .. M : e[n] = c[n]
      OBVIOUS
    <2>3. \A n \in 1 .. N : e[n + M] = d[n]
      OBVIOUS
    <2> QED BY <2>1, <2>2, <2>3
  <1> HIDE DEF e
  <1>2. PICK C \in [0 .. M -> Nat] : C[0] = a /\ C[M] = m /\ Along(C, c)
    BY DEF Path
  <1>3. PICK E \in [0 .. N -> Nat] : E[0] = m /\ E[N] = b /\ Along(E, d)
    BY DEF Path
  <1>4. \A n \in 1 .. M : C[n] = C[n - 1] + Rise(c[n])
    BY <1>2 DEF Along
  <1>5. \A n \in 1 .. N : E[n] = E[n - 1] + Rise(d[n])
    BY <1>3 DEF Along
  <1> HIDE DEF M, N
  <1> DEFINE D == [n \in 0 .. M + N |-> IF n <= M THEN C[n] ELSE E[n - M]]
  <1>6. \A n \in 0 .. M + N : IF n <= M THEN n \in 0 .. M ELSE n - M \in 0 .. N
    BY <1>1
  <1>7. D \in [0 .. M + N -> Nat]
    BY <1>6
  <1>8. \A n \in 0 .. M : D[n] = C[n]
    <2>1. ASSUME NEW n \in 0 .. M PROVE n \in 0 .. M + N /\ n <= M
      BY <1>1
    <2> QED BY <2>1
  <1>9. \A n \in 0 .. N : D[n + M] = E[n]
    <2>1. ASSUME NEW n \in 0 .. N PROVE D[n + M] = E[n]
      <3>1. PICK k \in 0 .. M + N : k = n + M
        BY <1>1
      <3>2. k - M = n /\ (k <= M => n = 0 /\ k = M)
        <4> HIDE DEF D
        <4> QED BY <1>1, <3>1
      <3>3. D[k] = IF k <= M THEN C[k] ELSE E[k - M]
        OBVIOUS
      <3> HIDE DEF D
      <3> QED BY <1>2, <1>3, <3>1, <3>2, <3>3
    <2> QED BY <2>1
  <1> HIDE DEF D
  <1>10. ASSUME NEW n \in 1 .. M + N PROVE D[n] = D[n - 1] + Rise(e[n])
    <2>1. CASE n <= M
      <3>1. n \in 1 .. M /\ n \in 0 .. M /\ n - 1 \in 0 .. M
        BY <1>1, <2>1
      <3> QED BY <1>1, <1>4, <1>8, <3>1
    <2>2. CASE ~(n <= M)
      <3>1. PICK k \in 1 .. N : n = k + M
        <4>1. n - M \in 1 .. N /\ n = (n - M) + M
          BY <1>1, <2>2
        <4> QED BY <4>1
      <3>2. k \in 0 .. N /\ k - 1 \in 0 .. N /\ n - 1 = (k - 1) + M
        BY <1>1, <3>1
      <3>3. D[n] = E[k] /\ D[n - 1] = E[k - 1]
        BY <1>9, <3>1, <3>2
      <3>4. e[n] = d[k]
        BY <1>1, <3>1
      <3> QED BY <1>5, <3>1, <3>3, <3>4
    <2> QED BY <2>1, <2>2
  <1>11. D[0] = a /\ D[M + N] = b
    <2>1. 0 \in 0 .. M /\ N \in 0 .. N /\ N + M = M + N
      BY <1>1
    <2> QED BY <1>2, <1>3, <1>8, <1>9, <2>1
  <1>12. Along(D, e)
    BY <1>1, <1>10 DEF Along
  <1>13. Path(e, a, b)
    BY <1>1, <1>7, <1>11, <1>12 DEF Path
  <1> QED BY <1>13 DEF e

LEMMA PathSplit ==
  ASSUME NEW S, NEW c \in Seq(S), NEW d \in Seq(S), NEW a, NEW b, Path(c \o d, a, b)
  PROVE  \E m \in Nat : Path(c, a, m) /\ Path(d, m, b)
  <1> DEFINE M == Len(c)
             N == Len(d)
             e == c \o d
  <1>1. /\ M \in Nat /\ N \in Nat /\ e \in Seq(S) /\ Len(e) = M + N
        /\ (\A n \in 1 .. M : e[n] = c[n]) /\ \A n \in 1 .. N : e[n + M] = d[n]
    OBVIOUS
  <1>2. Path(e, a, b)
    OBVIOUS
  <1> HIDE DEF e
  <1>3. PICK D \in [0 .. M + N -> Nat] : D[0] = a /\ D[M + N] = b /\ Along(D, e)
    BY <1>1, <1>2 DEF Path
  <1>4. \A n \in 1 .. M + N : D[n] = D[n - 1] + Rise(e[n])
    BY <1>1, <1>3 DEF Along
  <1> DEFINE C == [n \in 0 .. M |-> D[n]]
             E == [n \in 0 .. N |-> D[n + M]]
  <1>5. M \in 0 .. M + N /\ 0 \in 0 .. M /\ 0 \in 0 .. N /\ N \in 0 .. N /\ M \in 0 .. M
        /\ N + M = M + N /\ 0 + M = M
    BY <1>1
  <1>6. Path(c, a, D[M])
    <2>1. \A n \in 0 .. M : n \in 0 .. M + N
      BY <1>1
    <2>2. C \in [0 .. M -> Nat]
      BY <2>1
    <2>3. ASSUME NEW n \in 1 .. M PROVE C[n] = C[n - 1] + Rise(c[n])
      <3>1. n \in 0 .. M /\ n - 1 \in 0 .. M /\ n \in 1 .. M + N
        BY <1>1
      <3> QED BY <1>1, <1>4, <3>1
    <2>4. Along(C, c)
      BY <2>3 DEF Along
    <2>5. C[0] = a /\ C[M] = D[M]
      BY <1>3, <1>5
    <2> HIDE DEF C
    <2> QED BY <2>2, <2>4, <2>5 DEF Path
  <1>7. Path(d, D[M], b)
    <2>1. \A n \in 0 .. N : n + M \in 0 .. M + N
      BY <1>1
    <2>2. E \in [0 .. N -> Nat]
      BY <2>1
    <2>3. ASSUME NEW n \in 1 .. N PROVE E[n] = E[n - 1] + Rise(d[n])
      <3>1. n \in 0 .. N /\ n - 1 \in 0 .. N /\ n + M \in 1 .. M + N /\ (n - 1) + M = (n + M) - 1
        BY <1>1
      <3>2. E[n] = D[n + M] /\ E[n - 1] = D[(n + M) - 1]
        BY <3>1
      <3> HIDE DEF E, M, N
      <3>3. D[n + M] = D[(n + M) - 1] + Rise(e[n + M]) /\ e[n + M] = d[n]
        BY <1>1, <1>4, <3>1
      <3> QED BY <3>2, <3>3
    <2>4. Along(E, d)
      BY <2>3 DEF Along
    <2>5. E[0] = D[M] /\ E[N] = b
      BY <1>3, <1>5
    <2> HIDE DEF E
    <2> QED BY <2>2, <2>4, <2>5 DEF Path
  <1>8. D[M] \in Nat
    BY <1>5
  <1> QED BY <1>6, <1>7, <1>8

\* Lists that lead from E[n - 1] to E[n] lead all along E when they are joined.
LEMMA PathJoined ==
  ASSUME NEW S, NEW ss \in Seq(Seq(S)), NEW E \in [0 .. Len(ss) -> Nat],
         \A n \in 1 .. Len(ss) : Path(ss[n], E[n - 1], E[n])
  PROVE  Path(Joined(ss), E[0], E[Len(ss)])
  <1> DEFINE N == Len(ss)
  <1>1. PICK j \in [0 .. N -> Seq(S)] :
          /\ j[0] = <<>> /\ \A n \in 1 .. N : j[n] = j[n - 1] \o ss[n]
          /\ Joined(ss) = j[N]
    BY JoinedSteps
  <1> DEFINE P == {n \in 0 .. N : Path(j[n], E[0], E[n])}
  <1>2. N \in Nat /\ 0 \in 0 .. N /\ N \in 0 .. N /\ \A n \in 1 .. N : ss[n] \in Seq(S)
    OBVIOUS
  <1>3. \A n \in 1 .. N : Path(ss[n], E[n - 1], E[n])
    OBVIOUS
  <1> HIDE DEF N
  <1>4. 0 \in P
    <2>1. E[0] \in Nat
      BY <1>2 DEF N
    <2>2. Path(<<>>, E[0], E[0])
      BY <2>1, PathShort
    <2> QED BY <1>1, <1>2, <2>2
  <1>5. ASSUME NEW n \in 1 .. N, n - 1 \in P PROVE n \in P
    <2>1. n \in 0 .. N /\ Path(j[n - 1], E[0], E[n - 1]) /\ j[n - 1] \in Seq(S)
      BY <1>1, <1>2, <1>5
    <2>2. Path(j[n - 1] \o ss[n], E[0], E[n])
      BY <1>2, <1>3, <2>1, PathConcat
    <2> QED BY <1>1, <2>1, <2>2
  <1> HIDE DEF P
  <1>6. \A n \in 0 .. N : n \in P
    BY <1>2, <1>4, <1>5, Steps
  <1>7. N \in P
    BY <1>2, <1>6
  <1> QED BY <1>1, <1>7 DEF P, N

\* E is where a path through the lists ss is between them.
Leads(E, ss, a, b) ==
  /\ E \in [0 .. Len(ss) -> Nat] /\ E[0] = a /\ E[Len(ss)] = b
  /\ \A n \in 1 .. Len(ss) : Path(ss[n], E[n - 1], E[n])

LEMMA PathSplitJoined ==
  ASSUME NEW S, NEW ss \in Seq(Seq(S)), NEW a \in Nat, NEW b \in Nat, Path(Joined(ss), a, b)
  PROVE  \E E : Leads(E, ss, a, b)
  <1> DEFINE N == Len(ss)
             Between0(E, n, d) ==
               E[0] = a /\ E[n] = d /\ \A i \in 1 .. n : Path(ss[i], E[i - 1], E[i])
  <1>1. PICK j \in [0 .. N -> Seq(S)] :
          /\ j[0] = <<>> /\ \A n \in 1 .. N : j[n] = j[n - 1] \o ss[n]
          /\ Joined(ss) = j[N]
    BY JoinedSteps
  <1> DEFINE P == {n \in 0 .. N : \A d \in Nat :
                     Path(j[n], a, d) => \E E \in [0 .. n -> Nat] : Between0(E, n, d)}
  <1>2. N \in Nat /\ 0 \in 0 .. N /\ N \in 0 .. N /\ \A n \in 1 .. N : ss[n] \in Seq(S)
    OBVIOUS
  <1> HIDE DEF N
  <1>3. 0 \in P
    <2> SUFFICES ASSUME NEW d \in Nat, Path(j[0], a, d)
                 PROVE  \E E \in [0 .. 0 -> Nat] : Between0(E, 0, d)
      BY <1>2
    <2>1. a = d
      BY <1>1 DEF Path
    <2> DEFINE E0 == [n \in 0 .. 0 |-> a]
    <2>2. E0 \in [0 .. 0 -> Nat] /\ E0[0] = a
      OBVIOUS
    <2> HIDE DEF E0
    <2>3. Between0(E0, 0, d)
      BY <2>1, <2>2
    <2> HIDE DEF Between0
    <2> QED BY <2>2, <2>3
  <1>4. ASSUME NEW n \in 1 .. N, n - 1 \in P PROVE n \in P
    <2>1. n \in 0 .. N /\ n - 1 \in 0 .. N /\ n \in Nat /\ n - 1 \in Nat
      BY <1>2
    <2> SUFFICES ASSUME NEW d \in Nat, Path(j[n], a, d)
                 PROVE  \E E \in [0 .. n -> Nat] : Between0(E, n, d)
      BY <2>1
    <2>2. j[n - 1] \in Seq(S) /\ ss[n] \in Seq(S) /\ Path(j[n - 1] \o ss[n], a, d)
      BY <1>1, <1>2, <2>1
    <2>3. PICK m \in Nat : Path(j[n - 1], a, m) /\ Path(ss[n], m, d)
      BY <2>2, PathSplit
    <2> HIDE DEF Between0
    <2>4. PICK F \in [0 .. n - 1 -> Nat] : Between0(F, n - 1, m)
      BY <1>4, <2>3
    <2> DEFINE E0 == [i \in 0 .. n |-> IF i = n THEN d ELSE F[i]]
    <2>5. \A i \in 0 .. n : i # n => i \in 0 .. n - 1
      BY <2>1
    <2>6. E0 \in [0 .. n -> Nat]
      BY <2>5
    <2>7. E0[n] = d /\ \A i \in 0 .. n - 1 : E0[i] = F[i]
      BY <2>1
    <2> HIDE DEF E0
    <2>8. 0 \in 0 .. n - 1 /\ n - 1 \in 0 .. n - 1
      BY <2>1
    <2>9. F[0] = a /\ F[n - 1] = m /\ \A i \in 1 .. n - 1 : Path(ss[i], F[i - 1], F[i])
      BY <2>4 DEF Between0
    <2>10. ASSUME NEW i \in 1 .. n PROVE Path(ss[i], E0[i - 1], E0[i])
      <3>1. CASE i = n
        BY <2>3, <2>7, <2>8, <2>9, <3>1
      <3>2. CASE i # n
        <4>1. i \in 1 .. n - 1 /\ i \in 0 .. n - 1 /\ i - 1 \in 0 .. n - 1
          BY <2>1, <3>2
        <4> QED BY <2>7, <2>9, <4>1
      <3> QED BY <3>1, <3>2
    <2>11. Between0(E0, n, d)
      BY <2>7, <2>8, <2>9, <2>10 DEF Between0
    <2> QED BY <2>6, <2>11
  <1> HIDE DEF P, Between0
  <1>5. \A n \in 0 .. N : n \in P
    BY <1>2, <1>3, <1>4, Steps
  <1>6. N \in P
    BY <1>2, <1>5
  <1>7. \E E \in [0 .. N -> Nat] : Between0(E, N, b)
    BY <1>1, <1>6 DEF P
  <1> QED BY <1>7 DEF N, Between0, Leads

-----------------------------------------------------------------------------
(* What a pass makes of a code list.                                       *)

Heft == [c \in CodeSet |-> Weight(c)]
Mark(l) == [c \in CodeSet |-> IF c.op = "LABEL" /\ c.t = l THEN 1 ELSE 0]

LEMMA HeftFact ==
  /\ \A c : Weight(c) \in 1 .. 3
  /\ Heft \in [CodeSet -> Int]
  /\ \A c \in CodeSet : Heft[c] = Weight(c)
  /\ \A l : Mark(l) \in [CodeSet -> Int]
  /\ \A l : \A c \in CodeSet : Mark(l)[c] \in 0 .. 1
  <1>1. \A c : Weight(c) \in 1 .. 3
    BY DEF Weight
  <1>2. \A c \in CodeSet : Heft[c] = Weight(c)
    BY DEF Heft
  <1>3. Heft \in [CodeSet -> Int]
    BY <1>1 DEF Heft
  <1>4. \A l : Mark(l) \in [CodeSet -> Int]
    BY DEF Mark
  <1>5. \A l : \A c \in CodeSet : Mark(l)[c] \in 0 .. 1
    BY DEF Mark
  <1> QED BY <1>1, <1>2, <1>3, <1>4, <1>5

LEMMA SizeFact ==
  ASSUME NEW codes \in Seq(CodeSet)
  PROVE  Size(codes) = Weighed(Heft, codes)
  <1>1. \A i \in DOMAIN codes : Heft[codes[i]] = Weight(codes[i])
    BY HeftFact
  <1>2. Weights(Heft, codes) = [i \in DOMAIN codes |-> Weight(codes[i])]
    BY <1>1 DEF Weights
  <1> QED BY <1>2 DEF Size, Weighed

\* c nests as d does and has no label that d has not.
Tidier(c, d) ==
  /\ c \in Seq(CodeSet)
  /\ \A a \in Nat : \A b \in Nat : Path(d, a, b) => Path(c, a, b)
  /\ \A l \in Labels : Weighed(Mark(l), c) <= Weighed(Mark(l), d)

\* p is what is left of code c, which is less.
Fits(p, c) ==
  \/ p = <<>> /\ Rise(c) = 0
  \/ \E y \in CodeSet :
       p = <<y>> /\ Rise(y) = Rise(c) /\ Weight(y) <= Weight(c) /\ (y.op = "LABEL" => y = c)
IsLess(p, c) == p = <<>> \/ \E y \in CodeSet : p = <<y>> /\ Weight(y) < Weight(c)

LEMMA FitsFact ==
  ASSUME NEW p, NEW c \in CodeSet, Fits(p, c)
  PROVE  /\ p \in Seq(CodeSet)
         /\ \A a \in Nat : \A b \in Nat : b = a + Rise(c) => Path(p, a, b)
         /\ \A l \in Labels : Weighed(Mark(l), p) <= Weighed(Mark(l), <<c>>)
         /\ Weighed(Heft, p) <= Weighed(Heft, <<c>>)
         /\ IsLess(p, c) => Weighed(Heft, p) < Weighed(Heft, <<c>>)
  <1>1. Weighed(Heft, <<c>>) = Weight(c) /\ Weighed(Heft, <<>>) = 0 /\ Weight(c) \in 1 .. 3
    BY HeftFact, WeighedShort
  <1>2. \A l : Weighed(Mark(l), <<c>>) = Mark(l)[c] /\ Weighed(Mark(l), <<>>) = 0
               /\ Mark(l)[c] \in 0 .. 1
    BY HeftFact, WeighedShort
  <1>3. CASE p = <<>> /\ Rise(c) = 0
    <2>1. \A a \in Nat : \A b \in Nat : b = a + Rise(c) => Path(p, a, b)
      <3> SUFFICES ASSUME NEW a \in Nat, NEW b \in Nat, b = a + Rise(c) PROVE Path(p, a, b)
        OBVIOUS
      <3>1. b = a
        BY <1>3
      <3> QED BY <1>3, <3>1, PathShort
    <2>2. p \in Seq(CodeSet)
      BY <1>3
    <2> QED BY <1>1, <1>2, <1>3, <2>1, <2>2
  <1>4. CASE p # <<>>
    <2>1. PICK y \in CodeSet :
            p = <<y>> /\ Rise(y) = Rise(c) /\ Weight(y) <= Weight(c) /\ (y.op = "LABEL" => y = c)
      BY <1>4 DEF Fits
    <2>2. p \in Seq(CodeSet)
      BY <2>1
    <2>3. \A a \in Nat : \A b \in Nat : b = a + Rise(c) => Path(p, a, b)
      BY <2>1, PathShort
    <2>4. Weighed(Heft, p) = Weight(y)
      BY <2>1, HeftFact, WeighedShort
    <2>5. ASSUME NEW l \in Labels PROVE Weighed(Mark(l), p) <= Weighed(Mark(l), <<c>>)
      <3>1. Weighed(Mark(l), p) = Mark(l)[y]
        BY <2>1, HeftFact, WeighedShort
      <3>2. CASE y.op = "LABEL"
        BY <1>2, <2>1, <3>1, <3>2
      <3>3. CASE y.op # "LABEL"
        <4>1. Mark(l)[y] = 0
          BY <3>3 DEF Mark
        <4> QED BY <1>2, <3>1, <4>1
      <3> QED BY <3>2, <3>3
    <2>6. ASSUME IsLess(p, c) PROVE Weight(y) < Weight(c)
      <3>1. PICK z \in CodeSet : p = <<z>> /\ Weight(z) < Weight(c)
        BY <1>4, <2>6 DEF IsLess
      <3>2. z = y
        BY <2>1, <3>1
      <3> QED BY <3>1, <3>2
    <2> QED BY <1>1, <2>1, <2>2, <2>3, <2>4, <2>5, <2>6
  <1> QED BY <1>3, <1>4 DEF Fits

\* A pass that leaves of each code what fits.
LEMMA PassFact ==
  ASSUME NEW codes \in Seq(CodeSet), NEW ss, DOMAIN ss = DOMAIN codes,
         ss = [i \in DOMAIN codes |-> ss[i]],
         \A i \in DOMAIN codes : Fits(ss[i], codes[i])
  PROVE  /\ Joined(ss) \in Seq(CodeSet)
         /\ Tidier(Joined(ss), codes)
         /\ Size(Joined(ss)) \in Int /\ Size(codes) \in Int
         /\ Size(Joined(ss)) <= Size(codes)
         /\ (\E i \in DOMAIN codes : IsLess(ss[i], codes[i])) => Size(Joined(ss)) < Size(codes)
  <1> DEFINE N == Len(codes)
             tt == [i \in DOMAIN codes |-> <<codes[i]>>]
  <1>1. N \in Nat /\ DOMAIN codes = 1 .. N /\ \A n \in 1 .. N : codes[n] \in CodeSet
    OBVIOUS
  <1> HIDE DEF N
  <1>2. \A n \in 1 .. N : ss[n] \in Seq(CodeSet)
    BY <1>1, FitsFact
  <1>3. ss \in [1 .. N -> Seq(CodeSet)]
    BY <1>1, <1>2
  <1>4. ss \in Seq(Seq(CodeSet)) /\ Len(ss) = N
    BY <1>1, <1>3
  <1>5. \A n \in 1 .. N : <<codes[n]>> \in Seq(CodeSet) /\ tt[n] = <<codes[n]>>
    BY <1>1
  <1>6. tt \in [1 .. N -> Seq(CodeSet)]
    BY <1>1, <1>5
  <1>a. DOMAIN tt = 1 .. N
    BY <1>1
  <1> HIDE DEF tt
  <1>7. tt \in Seq(Seq(CodeSet)) /\ Len(tt) = N
    BY <1>1, <1>6, <1>a
  <1>8. Joined(tt) = codes
    BY JoinedSingles DEF tt
  <1>9. Joined(ss) \in Seq(CodeSet)
    BY <1>4, JoinedTyped
  <1>10. ASSUME NEW l \in Labels PROVE Weighed(Mark(l), Joined(ss)) <= Weighed(Mark(l), codes)
    <2>1. \A n \in 1 .. N : Weighed(Mark(l), ss[n]) <= Weighed(Mark(l), tt[n])
      BY <1>1, <1>5, FitsFact
    <2>2. Mark(l) \in [CodeSet -> Int]
      BY HeftFact
    <2> QED BY <1>4, <1>7, <1>8, <2>1, <2>2, LighterJoined
  <1>11. /\ Weighed(Heft, Joined(ss)) <= Weighed(Heft, codes)
         /\ (\E i \in 1 .. N : IsLess(ss[i], codes[i])) =>
               Weighed(Heft, Joined(ss)) < Weighed(Heft, codes)
    <2>1. \A n \in 1 .. N : Weighed(Heft, ss[n]) <= Weighed(Heft, tt[n])
      BY <1>1, <1>5, FitsFact
    <2>2. \A n \in 1 .. N : IsLess(ss[n], codes[n]) => Weighed(Heft, ss[n]) < Weighed(Heft, tt[n])
      BY <1>1, <1>5, FitsFact
    <2>3. Heft \in [CodeSet -> Int]
      BY HeftFact
    <2> QED BY <1>4, <1>7, <1>8, <2>1, <2>2, <2>3, LighterJoined
  <1>12. ASSUME NEW a \in Nat, NEW b \in Nat, Path(codes, a, b) PROVE Path(Joined(ss), a, b)
    <2>1. PICK D \in [0 .. N -> Nat] : D[0] = a /\ D[N] = b /\ Along(D, codes)
      BY <1>12 DEF Path, N
    <2>2. ASSUME NEW n \in 1 .. N PROVE Path(ss[n], D[n - 1], D[n])
      <3>1. D[n] = D[n - 1] + Rise(codes[n])
        BY <2>1 DEF Along, N
      <3>2. D[n] \in Nat /\ D[n - 1] \in Nat
        <4>1. n \in 0 .. N /\ n - 1 \in 0 .. N
          BY <1>1
        <4> QED BY <4>1
      <3> QED BY <1>1, <3>1, <3>2, FitsFact
    <2> QED BY <1>4, <2>1, <2>2, PathJoined
  <1>13. Size(Joined(ss)) = Weighed(Heft, Joined(ss)) /\ Size(codes) = Weighed(Heft, codes)
         /\ Weighed(Heft, Joined(ss)) \in Int /\ Weighed(Heft, codes) \in Int
    BY <1>9, SizeFact, HeftFact, WeightsFact
  <1>14. Tidier(Joined(ss), codes)
    BY <1>9, <1>10, <1>12 DEF Tidier
  <1> QED BY <1>1, <1>9, <1>11, <1>13, <1>14

LEMMA TidierTwice ==
  ASSUME NEW c \in Seq(CodeSet), NEW d \in Seq(CodeSet), NEW e \in Seq(CodeSet),
         Tidier(c, d), Tidier(d, e)
  PROVE  Tidier(c, e)
  <1>1. ASSUME NEW l \in Labels PROVE Weighed(Mark(l), c) <= Weighed(Mark(l), e)
    <2>1. Mark(l) \in [CodeSet -> Int]
      BY HeftFact
    <2>2. Weighed(Mark(l), c) \in Int /\ Weighed(Mark(l), d) \in Int /\ Weighed(Mark(l), e) \in Int
      BY <2>1, WeightsFact
    <2>3. Weighed(Mark(l), c) <= Weighed(Mark(l), d) /\ Weighed(Mark(l), d) <= Weighed(Mark(l), e)
      BY DEF Tidier
    <2> QED BY <2>2, <2>3
  <1>2. \A a \in Nat : \A b \in Nat : Path(e, a, b) => Path(c, a, b)
    BY DEF Tidier
  <1> QED BY <1>1, <1>2 DEF Tidier

LEMMA TidierJoined ==
  ASSUME NEW ss \in Seq(Seq(CodeSet)), NEW tt \in Seq(Seq(CodeSet)), Len(ss) = Len(tt),
         \A n \in 1 .. Len(tt) : Tidier(ss[n], tt[n])
  PROVE  Tidier(Joined(ss), Joined(tt))
  <1>1. Joined(ss) \in Seq(CodeSet)
    BY JoinedTyped
  <1>2. ASSUME NEW l \in Labels PROVE Weighed(Mark(l), Joined(ss)) <= Weighed(Mark(l), Joined(tt))
    <2>1. \A n \in 1 .. Len(tt) : Weighed(Mark(l), ss[n]) <= Weighed(Mark(l), tt[n])
      BY DEF Tidier
    <2>2. Mark(l) \in [CodeSet -> Int]
      BY HeftFact
    <2> QED BY <2>1, <2>2, LighterJoined
  <1>3. ASSUME NEW a \in Nat, NEW b \in Nat, Path(Joined(tt), a, b) PROVE Path(Joined(ss), a, b)
    <2>0. PICK E : Leads(E, tt, a, b)
      BY <1>3, PathSplitJoined
    <2>1. E \in [0 .. Len(tt) -> Nat] /\ E[0] = a /\ E[Len(tt)] = b
          /\ \A n \in 1 .. Len(tt) : Path(tt[n], E[n - 1], E[n])
      BY <2>0 DEF Leads
    <2>2. ASSUME NEW n \in 1 .. Len(tt) PROVE Path(ss[n], E[n - 1], E[n])
      <3>1. n \in 0 .. Len(tt) /\ n - 1 \in 0 .. Len(tt)
        OBVIOUS
      <3>2. E[n] \in Nat /\ E[n - 1] \in Nat
        BY <2>1, <3>1
      <3> QED BY <2>1, <3>2 DEF Tidier
    <2> QED BY <2>1, <2>2, PathJoined
  <1> QED BY <1>1, <1>2, <1>3 DEF Tidier

-----------------------------------------------------------------------------
(* The passes.                                                             *)

JumpOps == {"JMP", "CJMP", "RET"}

LEMMA CodeFact ==
  ASSUME NEW c \in CodeSet
  PROVE  /\ c \in [op : Ops, x : Trees, t : Labels, f : Labels]
         /\ c.op = "LABEL" => c.t # NoLabel
         /\ c.op = "JMP" => c = Jump(c.t)
  BY DEF CodeSet

LEMMA JumpFact ==
  ASSUME NEW l \in Labels
  PROVE  /\ Jump(l) \in CodeSet /\ Jump(l).op = "JMP" /\ Jump(l).t = l
         /\ Weight(Jump(l)) = 1 /\ Rise(Jump(l)) = 0
  <1>1. NoTree \in Trees
    BY CanonAssumption
  <1>2. NoLabel \in Labels
    BY DEF NoLabel, Labels
  <1>3. Jump(l) = [op |-> "JMP", x |-> NoTree, t |-> l, f |-> NoLabel]
    BY DEF Jump, Code
  <1>4. Jump(l) \in [op : Ops, x : Trees, t : Labels, f : Labels]
    BY <1>1, <1>2, <1>3 DEF Ops
  <1>5. Jump(l).op = "JMP" /\ Jump(l).t = l
    BY <1>3
  <1>6. Jump(l) \in CodeSet
    BY <1>4, <1>5 DEF CodeSet
  <1> QED BY <1>5, <1>6 DEF Weight, Rise

LEMMA JumpOpsFact ==
  ASSUME NEW c, c.op \in JumpOps
  PROVE  Rise(c) = 0 /\ c.op # "LABEL"
  BY DEF JumpOps, Rise

\* A code that a pass leaves as it is.
LEMMA SameFits ==
  ASSUME NEW c \in CodeSet
  PROVE  Fits(<<c>>, c) /\ ((c.op = "LABEL" \/ c.op \in JumpOps) => Fits(<<>>, c)) /\ IsLess(<<>>, c)
  <1>1. Weight(c) <= Weight(c)
    BY HeftFact
  <1>2. Fits(<<c>>, c)
    BY <1>1 DEF Fits
  <1>3. (c.op = "LABEL" \/ c.op \in JumpOps) => Rise(c) = 0
    BY JumpOpsFact DEF Rise
  <1> QED BY <1>2, <1>3 DEF Fits, IsLess

\* A jump that a pass makes another jump of.
LEMMA JumpFits ==
  ASSUME NEW c \in CodeSet, c.op \in JumpOps, NEW y \in CodeSet, y.op \in JumpOps,
         Weight(y) <= Weight(c)
  PROVE  Fits(<<y>>, c) /\ (Weight(y) < Weight(c) => IsLess(<<y>>, c))
  <1>1. Rise(y) = Rise(c) /\ y.op # "LABEL"
    BY JumpOpsFact
  <1> QED BY <1>1 DEF Fits, IsLess

\* Pass 1 leaves a code as it is, or less of it.
LEMMA ShortFact ==
  ASSUME NEW codes \in Seq(CodeSet), NEW i \in DOMAIN codes
  PROVE  /\ Fits(Short(codes, i), codes[i])
         /\ Short(codes, i) # <<codes[i]>> => IsLess(Short(codes, i), codes[i])
  <1> DEFINE c == codes[i]
             labels == Falls(codes, i)
             p == Short(codes, i)
  <1>1. c \in CodeSet /\ NoLabel \in Labels
    BY DEF NoLabel, Labels
  <1>2. p = CASE c.op = "JMP" -> ShortJump(c.t, labels)
              [] c.op = "CJMP" /\ IsConstant(c.x) -> ShortJump(JumpOf(c), labels)
              [] c.op = "CJMP" /\ ~IsConstant(c.x) ->
                   IF Without(c.f, labels) = NoLabel /\ c.t \in labels THEN <<>>
                   ELSE <<[c EXCEPT !.f = Without(c.f, labels)]>>
              [] c.op = "RET" -> <<[c EXCEPT !.t = Without(c.t, labels)]>>
              [] OTHER -> <<c>>
    BY DEF Short
  <1> HIDE DEF c, labels, p
  <1>3. c \in [op : Ops, x : Trees, t : Labels, f : Labels] /\ (c.op = "JMP" => c = Jump(c.t))
    BY <1>1, CodeFact
  <1>4. Weight(c) \in 1 .. 3
    BY HeftFact
  <1>5. CASE c.op = "JMP"
    <2>1. p = <<>> \/ p = <<c>>
      <3>1. p = ShortJump(c.t, labels)
        BY <1>2, <1>5
      <3>2. CASE Without(c.t, labels) = NoLabel
        BY <3>1, <3>2 DEF ShortJump
      <3>3. CASE Without(c.t, labels) # NoLabel
        <4>1. p = <<Jump(c.t)>>
          BY <3>1, <3>3 DEF ShortJump
        <4> QED BY <1>3, <1>5, <4>1
      <3> QED BY <3>2, <3>3
    <2>2. c.op \in JumpOps
      BY <1>5 DEF JumpOps
    <2> QED BY <1>1, <2>1, <2>2, SameFits DEF c, p
  <1>6. CASE c.op = "CJMP" /\ IsConstant(c.x)
    <2>1. JumpOf(c) \in Labels /\ c.op \in JumpOps
      BY <1>3, <1>6 DEF JumpOf, JumpOps
    <2>2. p = ShortJump(JumpOf(c), labels)
      BY <1>2, <1>6
    <2>3. CASE p = <<>>
      BY <1>1, <2>1, <2>3, SameFits DEF c, p
    <2>4. CASE p # <<>>
      <3> DEFINE y == Jump(JumpOf(c))
      <3>1. p = <<y>>
        BY <2>2, <2>4 DEF ShortJump
      <3>3. y \in CodeSet /\ y.op \in JumpOps /\ Weight(y) = 1
        BY <2>1, JumpFact DEF JumpOps
      <3> HIDE DEF y
      <3>4. Weight(c) > 1
        BY <1>6 DEF Weight
      <3>5. Weight(y) < Weight(c) /\ Weight(y) <= Weight(c)
        BY <1>4, <3>3, <3>4
      <3> QED BY <1>1, <2>1, <3>1, <3>3, <3>5, JumpFits DEF c, p
    <2> QED BY <2>3, <2>4
  <1>7. CASE c.op = "CJMP" /\ ~IsConstant(c.x)
    <2> DEFINE f == Without(c.f, labels)
               y == [c EXCEPT !.f = f]
    <2>1. c.op \in JumpOps
      BY <1>7 DEF JumpOps
    <2>2. p = <<>> \/ p = <<y>>
      BY <1>2, <1>7
    <2>3. CASE p = <<>>
      BY <1>1, <2>1, <2>3, SameFits DEF c, p
    <2>4. CASE p = <<y>> /\ f = c.f
      <3>1. y = c
        BY <1>3, <2>4
      <3> QED BY <1>1, <2>4, <3>1, SameFits DEF c, p
    <2>5. CASE p = <<y>> /\ f # c.f
      <3>1. f = NoLabel /\ c.f # NoLabel
        BY <2>5 DEF Without
      <3> HIDE DEF f
      <3>2. /\ y \in [op : Ops, x : Trees, t : Labels, f : Labels]
            /\ y.op = "CJMP" /\ y.f = NoLabel
        BY <1>1, <1>3, <1>7, <3>1
      <3> HIDE DEF y
      <3>3. y \in CodeSet /\ y.op \in JumpOps
        BY <3>2 DEF CodeSet, JumpOps
      <3>4. Weight(y) = 2 /\ Weight(c) = 3
        BY <1>7, <3>1, <3>2 DEF Weight
      <3>5. Weight(y) < Weight(c) /\ Weight(y) <= Weight(c)
        BY <3>4
      <3> QED BY <1>1, <2>1, <2>5, <3>3, <3>5, JumpFits DEF c, p
    <2> QED BY <2>2, <2>3, <2>4, <2>5
  <1>8. CASE c.op = "RET"
    <2> DEFINE l == Without(c.t, labels)
               y == [c EXCEPT !.t = l]
    <2>1. c.op \in JumpOps
      BY <1>8 DEF JumpOps
    <2>2. p = <<y>>
      BY <1>2, <1>8
    <2>3. CASE l = c.t
      <3>1. y = c
        BY <1>3, <2>3
      <3> QED BY <1>1, <2>2, <3>1, SameFits DEF c, p
    <2>4. CASE l # c.t
      <3>1. l = NoLabel /\ c.t # NoLabel
        BY <2>4 DEF Without
      <3> HIDE DEF l
      <3>2. /\ y \in [op : Ops, x : Trees, t : Labels, f : Labels]
            /\ y.op = "RET" /\ y.t = NoLabel
        BY <1>1, <1>3, <1>8, <3>1
      <3> HIDE DEF y
      <3>3. y \in CodeSet /\ y.op \in JumpOps
        BY <3>2 DEF CodeSet, JumpOps
      <3>4. Weight(y) = 1 /\ Weight(c) = 2
        BY <1>8, <3>1, <3>2 DEF Weight
      <3>5. Weight(y) < Weight(c) /\ Weight(y) <= Weight(c)
        BY <3>4
      <3> QED BY <1>1, <2>1, <2>2, <3>3, <3>5, JumpFits DEF c, p
    <2> QED BY <2>3, <2>4
  <1>9. CASE c.op \notin JumpOps
    <2>1. p = <<c>>
      BY <1>2, <1>9 DEF JumpOps
    <2> QED BY <1>1, <2>1, SameFits DEF c, p
  <1> QED BY <1>5, <1>6, <1>7, <1>8, <1>9 DEF JumpOps

\* A set of places has a last one.
LEMMA LastPlace ==
  ASSUME NEW N \in Nat, NEW S \in SUBSET (1 .. N), S # {}
  PROVE  Max(S) \in S /\ \A k \in S : k <= Max(S)
  <1> DEFINE P == {N - k : k \in S}
  <1>1. \A k \in S : k \in Nat /\ k <= N
    OBVIOUS
  <1>2. \A k \in S : N - k \in Nat
    BY <1>1
  <1>3. P \in SUBSET Nat /\ P # {}
    BY <1>2
  <1>4. PICK m \in P : \A k \in P : m <= k
    BY <1>3, LeastFact
  <1>5. PICK g \in S : m = N - g
    BY <1>4
  <1>6. \A k \in S : N - g <= N - k
    BY <1>4, <1>5
  <1>7. \A k \in S : g >= k
    BY <1>1, <1>5, <1>6
  <1>8. Max(S) \in S /\ \A k \in S : Max(S) >= k
    BY <1>5, <1>7 DEF Max
  <1> QED BY <1>1, <1>8

\* The labels next to the one at place i.
RunOf(codes, i) == {j \in i .. Len(codes) : codes[j].op = "LABEL" /\ Between(codes, i, j)}

LEMMA RunFact ==
  ASSUME NEW codes \in Seq(CodeSet), NEW i \in DOMAIN codes, codes[i].op = "LABEL"
  PROVE  /\ i \in RunOf(codes, i) /\ RunOf(codes, i) \in SUBSET (1 .. Len(codes))
         /\ Max(RunOf(codes, i)) \in RunOf(codes, i)
         /\ \A j \in RunOf(codes, i) : j <= Max(RunOf(codes, i))
  <1>1. i \in 1 .. Len(codes) /\ Len(codes) \in Nat
    OBVIOUS
  <1>2. Between(codes, i, i)
    BY <1>1 DEF Between, Markers
  <1>3. i \in RunOf(codes, i)
    BY <1>1, <1>2 DEF RunOf
  <1>4. RunOf(codes, i) \in SUBSET (1 .. Len(codes))
    BY <1>1 DEF RunOf
  <1> QED BY <1>1, <1>3, <1>4, LastPlace

\* The labels next to one of them are the same from there on.
LEMMA RunsOn ==
  ASSUME NEW codes \in Seq(CodeSet), NEW i \in DOMAIN codes, codes[i].op = "LABEL",
         NEW k \in RunOf(codes, i)
  PROVE  RunOf(codes, k) \subseteq RunOf(codes, i)
  <1> SUFFICES ASSUME NEW j \in RunOf(codes, k) PROVE j \in RunOf(codes, i)
    OBVIOUS
  <1>1. i \in Nat /\ k \in i .. Len(codes) /\ Between(codes, i, k) /\ Len(codes) \in Nat
    BY DEF RunOf
  <1>2. j \in k .. Len(codes) /\ codes[j].op = "LABEL" /\ Between(codes, k, j)
    BY DEF RunOf
  <1>3. \A n \in i .. j : n \in i .. k \/ n \in k .. j
    BY <1>1, <1>2
  <1>4. Between(codes, i, j)
    BY <1>1, <1>2, <1>3 DEF Between
  <1>5. j \in i .. Len(codes)
    BY <1>1, <1>2
  <1> QED BY <1>2, <1>4, <1>5 DEF RunOf

LEMMA LabelAtFact ==
  ASSUME NEW codes \in Seq(CodeSet), NEW l
  PROVE  /\ LabelAt(codes, l) # 0 =>
              LabelAt(codes, l) \in DOMAIN codes /\ codes[LabelAt(codes, l)].op = "LABEL"
              /\ codes[LabelAt(codes, l)].t = l
         /\ LabelAt(codes, l) = 0 => \A i \in DOMAIN codes : codes[i].op = "LABEL" => codes[i].t # l
  <1>1. LabelsAt(codes, l) \subseteq DOMAIN codes /\ 0 \notin DOMAIN codes
    BY DEF LabelsAt
  <1>2. CASE LabelsAt(codes, l) = {}
    BY <1>2 DEF LabelAt, LabelsAt
  <1>3. CASE LabelsAt(codes, l) # {}
    <2>1. LabelAt(codes, l) \in LabelsAt(codes, l)
      BY <1>3 DEF LabelAt
    <2> QED BY <1>1, <2>1 DEF LabelsAt
  <1> QED BY <1>2, <1>3

LEMMA RedirectFact ==
  ASSUME NEW codes \in Seq(CodeSet), NEW l \in Labels
  PROVE  /\ Redirect(codes, l) \in Labels
         /\ l = NoLabel => Redirect(codes, l) = l
         /\ Redirect(codes, l) # l =>
              \E i \in DOMAIN codes : codes[i].op = "LABEL" /\ codes[i].t = l
                /\ Redirect(codes, l) = codes[Max(RunOf(codes, i))].t
  <1> DEFINE i == LabelAt(codes, l)
  <1>1. Redirect(codes, l) = IF i = 0 THEN l ELSE codes[Max(RunOf(codes, i))].t
    BY DEF Redirect, RunOf
  <1>2. i # 0 => i \in DOMAIN codes /\ codes[i].op = "LABEL" /\ codes[i].t = l
    BY LabelAtFact
  <1> HIDE DEF i
  <1>3. CASE i = 0
    BY <1>1, <1>3
  <1>4. CASE i # 0
    <2>1. Redirect(codes, l) = codes[Max(RunOf(codes, i))].t
      BY <1>1, <1>4
    <2>2. Max(RunOf(codes, i)) \in DOMAIN codes
      BY <1>2, <1>4, RunFact
    <2>3. codes[Max(RunOf(codes, i))] \in CodeSet /\ codes[i] \in CodeSet
      BY <1>2, <1>4, <2>2
    <2>4. codes[Max(RunOf(codes, i))].t \in Labels /\ l # NoLabel
      BY <1>2, <1>4, <2>3, CodeFact
    <2> QED BY <1>2, <1>4, <2>1, <2>4
  <1> QED BY <1>3, <1>4

\* Pass 2 leaves no more of a code than there was.
LEMMA RedirectedFact ==
  ASSUME NEW codes \in Seq(CodeSet), NEW c \in CodeSet
  PROVE  Redirected(codes, c) \in CodeSet /\ Fits(<<Redirected(codes, c)>>, c)
  <1> DEFINE t == Redirect(codes, c.t)
             f == Redirect(codes, c.f)
             y == [c EXCEPT !.t = t, !.f = f]
  <1>1. Redirected(codes, c) = IF c.op \notin JumpOps THEN c
                               ELSE IF c.op = "CJMP" /\ t = f THEN Jump(t) ELSE y
    BY DEF Redirected, JumpOps
  <1>2. c \in [op : Ops, x : Trees, t : Labels, f : Labels] /\ (c.op = "JMP" => c = Jump(c.t))
    BY CodeFact
  <1>3. t \in Labels /\ f \in Labels /\ (c.t = NoLabel => t = NoLabel)
        /\ (c.f = NoLabel => f = NoLabel)
    BY <1>2, RedirectFact
  <1> HIDE DEF t, f
  <1>4. CASE c.op \notin JumpOps
    BY <1>1, <1>4, SameFits
  <1>5. CASE c.op = "CJMP" /\ t = f
    <2>1. Redirected(codes, c) = Jump(t) /\ c.op \in JumpOps
      BY <1>1, <1>5 DEF JumpOps
    <2>2. Jump(t) \in CodeSet /\ Jump(t).op \in JumpOps /\ Weight(Jump(t)) = 1
      BY <1>3, JumpFact DEF JumpOps
    <2>3. Weight(Jump(t)) <= Weight(c)
      BY <2>2, HeftFact
    <2> QED BY <2>1, <2>2, <2>3, JumpFits
  <1>6. CASE c.op \in JumpOps /\ ~(c.op = "CJMP" /\ t = f)
    <2>1. Redirected(codes, c) = y
      BY <1>1, <1>6
    <2>2. /\ y \in [op : Ops, x : Trees, t : Labels, f : Labels]
          /\ y.op = c.op /\ y.x = c.x /\ y.t = t /\ y.f = f
      BY <1>2, <1>3
    <2> HIDE DEF y
    <2>3. c.op = "JMP" => y = Jump(y.t)
      <3> SUFFICES ASSUME c.op = "JMP" PROVE y = Jump(y.t)
        OBVIOUS
      <3>1. c = Jump(c.t) /\ c.x = NoTree /\ c.f = NoLabel
        BY <1>2 DEF Jump, Code
      <3>2. y = [op |-> "JMP", x |-> NoTree, t |-> y.t, f |-> NoLabel]
        BY <1>3, <2>2, <3>1
      <3> QED BY <3>2 DEF Jump, Code
    <2>4. y \in CodeSet /\ y.op \in JumpOps
      BY <1>6, <2>2, <2>3, JumpOpsFact DEF CodeSet
    <2>5. Weight(y) <= Weight(c)
      BY <1>3, <1>6, <2>2 DEF Weight, JumpOps
    <2> QED BY <1>6, <2>1, <2>4, <2>5, JumpFits
  <1> QED BY <1>4, <1>5, <1>6

\* What stays of a code list when only labels and jumps leave it.
LEMMA KeepFact ==
  ASSUME NEW codes \in Seq(CodeSet), NEW kept,
         \A i \in DOMAIN codes : i \in kept \/ Fits(<<>>, codes[i])
  PROVE  /\ Keep(codes, kept) \in Seq(CodeSet)
         /\ Tidier(Keep(codes, kept), codes)
         /\ Size(Keep(codes, kept)) \in Int /\ Size(codes) \in Int
         /\ Size(Keep(codes, kept)) <= Size(codes)
         /\ (\E i \in DOMAIN codes : i \notin kept) => Size(Keep(codes, kept)) < Size(codes)
  <1> DEFINE ss == [i \in DOMAIN codes |-> IF i \in kept THEN <<codes[i]>> ELSE <<>>]
  <1>1. Keep(codes, kept) = Joined(ss)
    BY DEF Keep
  <1>2. \A i \in DOMAIN codes : codes[i] \in CodeSet
    OBVIOUS
  <1>3. DOMAIN ss = DOMAIN codes /\ ss = [i \in DOMAIN codes |-> ss[i]]
    OBVIOUS
  <1>4. \A i \in DOMAIN codes :
          (i \in kept => ss[i] = <<codes[i]>>) /\ (i \notin kept => ss[i] = <<>>)
    OBVIOUS
  <1> HIDE DEF ss
  <1>5. \A i \in DOMAIN codes : Fits(ss[i], codes[i])
    BY <1>2, <1>4, SameFits
  <1>6. \A i \in DOMAIN codes : i \notin kept => IsLess(ss[i], codes[i])
    BY <1>2, <1>4, SameFits
  <1> QED BY <1>1, <1>3, <1>5, <1>6, PassFact

LEMMA FirstPass ==
  ASSUME NEW codes \in Seq(CodeSet), NEW p1, p1 = Joined([i \in DOMAIN codes |-> Short(codes, i)])
  PROVE  /\ p1 \in Seq(CodeSet) /\ Tidier(p1, codes)
         /\ Size(p1) \in Int /\ Size(codes) \in Int /\ Size(p1) <= Size(codes)
         /\ (\E i \in DOMAIN codes : Short(codes, i) # <<codes[i]>>) => Size(p1) < Size(codes)
         /\ (\A i \in DOMAIN codes : Short(codes, i) = <<codes[i]>>) => p1 = codes
  <1> DEFINE ss == [i \in DOMAIN codes |-> Short(codes, i)]
  <1>1. DOMAIN ss = DOMAIN codes /\ ss = [i \in DOMAIN codes |-> ss[i]]
        /\ \A i \in DOMAIN codes : ss[i] = Short(codes, i)
    OBVIOUS
  <1>2. ASSUME \A i \in DOMAIN codes : Short(codes, i) = <<codes[i]>> PROVE p1 = codes
    <2>1. ss = [i \in DOMAIN codes |-> <<codes[i]>>]
      BY <1>2
    <2> QED BY <2>1, JoinedSingles
  <1>3. p1 = Joined(ss)
    OBVIOUS
  <1> HIDE DEF ss
  <1>4. \A i \in DOMAIN codes : Fits(ss[i], codes[i])
    BY <1>1, ShortFact
  <1>5. \A i \in DOMAIN codes : Short(codes, i) # <<codes[i]>> => IsLess(ss[i], codes[i])
    BY <1>1, ShortFact
  <1> QED BY <1>1, <1>2, <1>3, <1>4, <1>5, PassFact

LEMMA SecondPass ==
  ASSUME NEW from \in Seq(CodeSet), NEW codes \in Seq(CodeSet), NEW p2,
         p2 = [i \in DOMAIN codes |-> Redirected(from, codes[i])]
  PROVE  /\ p2 \in Seq(CodeSet) /\ Tidier(p2, codes)
         /\ Size(p2) \in Int /\ Size(codes) \in Int /\ Size(p2) <= Size(codes)
  <1> DEFINE ss == [i \in DOMAIN p2 |-> <<p2[i]>>]
  <1>1. DOMAIN codes = 1 .. Len(codes) /\ Len(codes) \in Nat
        /\ \A i \in DOMAIN codes : codes[i] \in CodeSet
    OBVIOUS
  <1>2. DOMAIN p2 = DOMAIN codes /\ \A i \in DOMAIN codes : p2[i] = Redirected(from, codes[i])
    OBVIOUS
  <1>3. \A i \in DOMAIN codes : p2[i] \in CodeSet /\ Fits(<<p2[i]>>, codes[i])
    BY <1>1, <1>2, RedirectedFact
  <1>4. p2 \in [1 .. Len(codes) -> CodeSet]
    <2>1. p2 = [i \in 1 .. Len(codes) |-> p2[i]]
      BY <1>1, <1>2
    <2> QED BY <1>1, <1>3, <2>1
  <1>5. p2 \in Seq(CodeSet)
    BY <1>1, <1>4
  <1>6. Joined(ss) = p2
    BY <1>5, JoinedSingles
  <1>7. DOMAIN ss = DOMAIN codes /\ ss = [i \in DOMAIN codes |-> ss[i]]
        /\ \A i \in DOMAIN codes : ss[i] = <<p2[i]>>
    BY <1>2
  <1> HIDE DEF ss
  <1>8. \A i \in DOMAIN codes : Fits(ss[i], codes[i])
    BY <1>3, <1>7
  <1> QED BY <1>5, <1>6, <1>7, <1>8, PassFact

LEMMA ThirdPass ==
  ASSUME NEW codes \in Seq(CodeSet)
  PROVE  /\ RemoveLabels(codes) \in Seq(CodeSet) /\ Tidier(RemoveLabels(codes), codes)
         /\ Size(RemoveLabels(codes)) \in Int /\ Size(codes) \in Int
         /\ Size(RemoveLabels(codes)) <= Size(codes)
         /\ (\E i \in DOMAIN codes : codes[i].op = "LABEL" /\ codes[i].t \notin Mentioned(codes))
            => Size(RemoveLabels(codes)) < Size(codes)
  <1> DEFINE kept == {i \in DOMAIN codes : codes[i].op = "LABEL" => codes[i].t \in Mentioned(codes)}
  <1>1. RemoveLabels(codes) = Keep(codes, kept)
    BY DEF RemoveLabels
  <1>2. \A i \in DOMAIN codes : codes[i] \in CodeSet
    OBVIOUS
  <1>3. \A i \in DOMAIN codes :
          i \in kept \/ (codes[i].op = "LABEL" /\ codes[i].t \notin Mentioned(codes))
    OBVIOUS
  <1>4. \A i \in DOMAIN codes :
          codes[i].op = "LABEL" /\ codes[i].t \notin Mentioned(codes) => i \notin kept
    OBVIOUS
  <1> HIDE DEF kept
  <1>5. \A i \in DOMAIN codes : i \in kept \/ Fits(<<>>, codes[i])
    BY <1>2, <1>3, SameFits
  <1> QED BY <1>1, <1>4, <1>5, KeepFact

\* A round of cc_canon_codelist_simplify_inner.
LEMMA SimplifiedFact ==
  ASSUME NEW codes \in Seq(CodeSet)
  PROVE  /\ Simplified(codes) \in Seq(CodeSet) /\ Tidier(Simplified(codes), codes)
         /\ Size(Simplified(codes)) \in Int /\ Size(codes) \in Int
         /\ (\E i \in DOMAIN codes : Short(codes, i) # <<codes[i]>>)
            => Size(Simplified(codes)) < Size(codes)
  <1> DEFINE p1 == Joined([i \in DOMAIN codes |-> Short(codes, i)])
             p2 == [i \in DOMAIN p1 |-> Redirected(codes, p1[i])]
  <1>1. Simplified(codes) = RemoveLabels(p2)
    BY DEF Simplified
  <1>2. /\ p1 \in Seq(CodeSet) /\ Tidier(p1, codes)
        /\ Size(p1) \in Int /\ Size(codes) \in Int /\ Size(p1) <= Size(codes)
        /\ (\E i \in DOMAIN codes : Short(codes, i) # <<codes[i]>>) => Size(p1) < Size(codes)
    BY FirstPass
  <1> HIDE DEF p1
  <1>3. p2 \in Seq(CodeSet) /\ Tidier(p2, p1) /\ Size(p2) \in Int /\ Size(p2) <= Size(p1)
    BY <1>2, SecondPass
  <1> HIDE DEF p2
  <1>4. /\ RemoveLabels(p2) \in Seq(CodeSet) /\ Tidier(RemoveLabels(p2), p2)
        /\ Size(RemoveLabels(p2)) \in Int /\ Size(RemoveLabels(p2)) <= Size(p2)
    BY <1>3, ThirdPass
  <1>5. Tidier(p2, codes)
    BY <1>2, <1>3, TidierTwice
  <1>6. Tidier(RemoveLabels(p2), codes)
    BY <1>3, <1>4, <1>5, TidierTwice
  <1> QED BY <1>1, <1>2, <1>3, <1>4, <1>6

\* A round that finds something to do, and labels in one place each.
LEMMA SimplifiedSmaller ==
  ASSUME NEW codes \in Seq(CodeSet), LabelsOnce(codes), IsModified(codes)
  PROVE  Size(Simplified(codes)) < Size(codes)
  <1>1. CASE \E i \in DOMAIN codes : Short(codes, i) # <<codes[i]>>
    BY <1>1, SimplifiedFact
  <1>2. CASE \A i \in DOMAIN codes : Short(codes, i) = <<codes[i]>>
    <2> DEFINE p1 == Joined([i \in DOMAIN codes |-> Short(codes, i)])
               p2 == [i \in DOMAIN p1 |-> Redirected(codes, p1[i])]
    <2>1. Simplified(codes) = RemoveLabels(p2)
      BY DEF Simplified
    <2>2. p1 = codes
      BY <1>2, FirstPass
    <2> HIDE DEF p1
    <2>3. p2 = [i \in DOMAIN codes |-> Redirected(codes, codes[i])]
      BY <2>2
    <2> HIDE DEF p2
    <2>4. p2 \in Seq(CodeSet) /\ Size(p2) \in Int /\ Size(codes) \in Int /\ Size(p2) <= Size(codes)
      BY <2>3, SecondPass
    <2>5. PICK i \in DOMAIN codes : codes[i].op = "LABEL" /\ Redirect(codes, codes[i].t) # codes[i].t
      BY <1>2 DEF IsModified
    <2> DEFINE l == codes[i].t
    <2>6. codes[i] \in CodeSet /\ l \in Labels /\ l # NoLabel
      BY <2>5, CodeFact
    <2>7. \A k \in DOMAIN codes : codes[k].op = "LABEL" /\ codes[k].t = l => k = i
      BY <2>5 DEF LabelsOnce
    <2>8. Redirect(codes, l) = codes[Max(RunOf(codes, i))].t
      BY <2>5, <2>6, <2>7, RedirectFact
    <2>9. ASSUME NEW m \in Labels, Redirect(codes, m) = l PROVE FALSE
      <3>1. m # l
        BY <2>5, <2>9
      <3>2. PICK k \in DOMAIN codes : codes[k].op = "LABEL" /\ codes[k].t = m
                                     /\ l = codes[Max(RunOf(codes, k))].t
        BY <2>9, <3>1, RedirectFact
      <3> DEFINE n == Max(RunOf(codes, k))
      <3>3. n \in RunOf(codes, k) /\ \A j \in RunOf(codes, k) : j <= n
        BY <3>2, RunFact
      <3>4. n \in DOMAIN codes /\ codes[n].op = "LABEL" /\ codes[n].t = l
        BY <3>2, <3>3, RunFact DEF RunOf
      <3>5. n = i
        BY <2>7, <3>4
      <3> HIDE DEF n
      <3>6. RunOf(codes, i) \subseteq RunOf(codes, k)
        BY <3>2, <3>3, <3>5, RunsOn
      <3>7. Max(RunOf(codes, i)) \in RunOf(codes, i) /\ i <= Max(RunOf(codes, i))
            /\ Max(RunOf(codes, i)) \in Nat /\ i \in Nat
        BY <2>5, RunFact
      <3>8. Max(RunOf(codes, i)) <= i
        BY <3>3, <3>5, <3>6, <3>7
      <3>9. Max(RunOf(codes, i)) = i
        BY <3>7, <3>8
      <3> QED BY <2>5, <2>8, <3>9
    <2> HIDE DEF l
    <2>10. ASSUME NEW c \in CodeSet, Redirected(codes, c).op \in JumpOps
           PROVE  Redirected(codes, c).t # l /\ Redirected(codes, c).f # l
      <3> DEFINE t == Redirect(codes, c.t)
                 f == Redirect(codes, c.f)
                 y == [c EXCEPT !.t = t, !.f = f]
      <3>1. Redirected(codes, c) = IF c.op \notin JumpOps THEN c
                                   ELSE IF c.op = "CJMP" /\ t = f THEN Jump(t) ELSE y
        BY DEF Redirected, JumpOps
      <3>2. c \in [op : Ops, x : Trees, t : Labels, f : Labels]
        BY CodeFact
      <3>3. t # l /\ f # l
        BY <2>9, <3>2
      <3> HIDE DEF t, f
      <3>4. y.t = t /\ y.f = f
        BY <3>2
      <3> HIDE DEF y
      <3>5. Jump(t).t = t /\ Jump(t).f = NoLabel
        BY DEF Jump, Code
      <3>6. c.op \in JumpOps
        BY <2>10, <3>1
      <3> QED BY <2>6, <3>1, <3>3, <3>4, <3>5, <3>6
    <2>11. l \notin Mentioned(p2)
      <3> SUFFICES ASSUME NEW n \in DOMAIN p2, p2[n].op \in JumpOps
                   PROVE  p2[n].t # l /\ p2[n].f # l
        BY DEF Mentioned, JumpOps
      <3>1. n \in DOMAIN codes /\ p2[n] = Redirected(codes, codes[n]) /\ codes[n] \in CodeSet
        BY <2>3
      <3> QED BY <2>10, <3>1
    <2>12. i \in DOMAIN p2 /\ p2[i] = codes[i]
      BY <2>3, <2>5 DEF Redirected
    <2>13. Size(RemoveLabels(p2)) < Size(p2) /\ Size(RemoveLabels(p2)) \in Int
      BY <2>4, <2>5, <2>11, <2>12, ThirdPass DEF l
    <2> QED BY <2>1, <2>4, <2>13
  <1> QED BY <1>1, <1>2

LEMMA TidierSame ==
  ASSUME NEW c \in Seq(CodeSet)
  PROVE  Tidier(c, c)
  <1>1. ASSUME NEW l \in Labels PROVE Weighed(Mark(l), c) <= Weighed(Mark(l), c)
    <2>1. Mark(l) \in [CodeSet -> Int]
      BY HeftFact
    <2>2. Weighed(Mark(l), c) \in Int
      BY <2>1, WeightsFact
    <2> QED BY <2>2
  <1> QED BY <1>1 DEF Tidier

LEMMA SeqOfFunction ==
  ASSUME NEW S, NEW n \in Nat, NEW f \in [1 .. n -> S]
  PROVE  f \in Seq(S) /\ Len(f) = n
  OBVIOUS

LEMMA SameSeq ==
  ASSUME NEW S, NEW a \in Seq(S), NEW b \in Seq(S), Len(a) = Len(b),
         \A i \in 1 .. Len(a) : a[i] = b[i]
  PROVE  a = b
  <1>1. a = [i \in 1 .. Len(a) |-> a[i]] /\ b = [i \in 1 .. Len(a) |-> b[i]]
    OBVIOUS
  <1> QED BY <1>1

LEMMA ErasedFact ==
  ASSUME NEW bs \in Seq(Seq(CodeSet))
  PROVE  Erased(bs) \in Seq(Seq(CodeSet)) /\ Tidier(Joined(Erased(bs)), Joined(bs))
  <1> DEFINE alive == Reachable(bs)
             Brackets(b) == {i \in DOMAIN b : b[i].op \in {"BLKBEG", "BLKEND"}}
             es == [n \in DOMAIN bs |-> IF n \in alive THEN bs[n] ELSE Keep(bs[n], Brackets(bs[n]))]
  <1>1. Erased(bs) = es
    BY DEF Erased
  <1>2. DOMAIN bs = 1 .. Len(bs) /\ Len(bs) \in Nat /\ \A n \in 1 .. Len(bs) : bs[n] \in Seq(CodeSet)
    OBVIOUS
  <1> HIDE DEF alive
  <1>3. ASSUME NEW b \in Seq(CodeSet)
        PROVE  Keep(b, Brackets(b)) \in Seq(CodeSet) /\ Tidier(Keep(b, Brackets(b)), b)
    <2>1. \A i \in DOMAIN b : i \in Brackets(b) \/ Fits(<<>>, b[i])
      BY DEF Fits, Rise
    <2> HIDE DEF Brackets
    <2> QED BY <2>1, KeepFact
  <1> HIDE DEF Brackets
  <1>4. DOMAIN es = 1 .. Len(bs)
        /\ \A n \in 1 .. Len(bs) : es[n] = bs[n] \/ es[n] = Keep(bs[n], Brackets(bs[n]))
    BY <1>2
  <1>5. es = [n \in 1 .. Len(bs) |-> es[n]]
    BY <1>2
  <1> HIDE DEF es
  <1>6. \A n \in 1 .. Len(bs) : es[n] \in Seq(CodeSet) /\ Tidier(es[n], bs[n])
    BY <1>2, <1>3, <1>4, TidierSame
  <1>7. es \in [1 .. Len(bs) -> Seq(CodeSet)]
    BY <1>5, <1>6
  <1>8. es \in Seq(Seq(CodeSet)) /\ Len(es) = Len(bs)
    <2> DEFINE N == Len(bs)
    <2>1. N \in Nat /\ es \in [1 .. N -> Seq(CodeSet)]
      BY <1>2, <1>7
    <2> HIDE DEF N
    <2>2. es \in Seq(Seq(CodeSet)) /\ Len(es) = N
      BY <2>1, SeqOfFunction
    <2> QED BY <2>2 DEF N
  <1> QED BY <1>1, <1>6, <1>8, TidierJoined

LEMMA FrontFact ==
  ASSUME NEW S, NEW s \in Seq(S), Len(s) > 0
  PROVE  /\ SubSeq(s, 1, Len(s) - 1) \in Seq(S) /\ Len(SubSeq(s, 1, Len(s) - 1)) = Len(s) - 1
         /\ \A n \in 1 .. Len(s) - 1 : SubSeq(s, 1, Len(s) - 1)[n] = s[n]
  <1>1. PICK m \in Nat : Len(s) = m + 1
    <2>1. Len(s) - 1 \in Nat /\ Len(s) = (Len(s) - 1) + 1
      OBVIOUS
    <2> QED BY <2>1
  <1>2. SubSeq(s, 1, m) \in Seq(S) /\ Len(SubSeq(s, 1, m)) = m
    BY <1>1, SMTT(30)
  <1>3. \A n \in 1 .. m : SubSeq(s, 1, m)[n] = s[n]
    BY <1>1, SMTT(30)
  <1>4. Len(s) - 1 = m
    BY <1>1
  <1> QED BY <1>2, <1>3, <1>4

\* A code goes to the end of the last block, or starts one.
LEMMA ExtendedFact ==
  ASSUME NEW bs \in Seq(Seq(CodeSet)), Len(bs) > 0, NEW c \in CodeSet
  PROVE  /\ Extended(bs, c) \in Seq(Seq(CodeSet)) /\ Len(Extended(bs, c)) > 0
         /\ Joined(Extended(bs, c)) = Joined(bs) \o <<c>>
  <1>1. ASSUME NEW fs \in Seq(Seq(CodeSet)), Len(fs) > 0
        PROVE  /\ [fs EXCEPT ![Len(fs)] = Append(@, c)] \in Seq(Seq(CodeSet))
               /\ Len([fs EXCEPT ![Len(fs)] = Append(@, c)]) = Len(fs)
               /\ Joined([fs EXCEPT ![Len(fs)] = Append(@, c)]) = Joined(fs) \o <<c>>
    <2> DEFINE N == Len(fs)
               front == SubSeq(fs, 1, N - 1)
               with == [fs EXCEPT ![N] = Append(@, c)]
               longer == Append(fs[N], c)
    <2>1. N \in Nat /\ N > 0 /\ N \in 1 .. N /\ fs[N] \in Seq(CodeSet) /\ front \in Seq(Seq(CodeSet))
      BY <1>1
    <2>2. fs = Append(front, fs[N])
      BY <1>1
    <2>3. longer \in Seq(CodeSet) /\ longer = fs[N] \o <<c>>
      BY <2>1
    <2>4. Len(with) = N /\ \A n \in 1 .. N : with[n] = IF n = N THEN longer ELSE fs[n]
      BY <1>1
    <2>5. with \in Seq(Seq(CodeSet))
      BY <1>1, <2>1, <2>3
    <2>6. with = Append(front, longer)
      <3>1. Len(front) = N - 1 /\ \A n \in 1 .. N - 1 : front[n] = fs[n]
        BY <1>1, <2>1, FrontFact
      <3> DEFINE other == Append(front, longer)
      <3>2. other \in Seq(Seq(CodeSet)) /\ Len(other) = N /\ other[N] = longer
            /\ \A n \in 1 .. N - 1 : other[n] = front[n]
        BY <2>1, <2>3, <3>1
      <3> HIDE DEF other, with, front, longer
      <3>3. \A n \in 1 .. N : n = N \/ n \in 1 .. N - 1
        BY <2>1
      <3>4. \A n \in 1 .. N : with[n] = other[n]
        BY <2>4, <3>1, <3>2, <3>3
      <3>5. with = other
        <4>1. Len(with) = N /\ Len(other) = N /\ with \in Seq(Seq(CodeSet)) /\ other \in Seq(Seq(CodeSet))
          BY <2>4, <2>5, <3>2
        <4> HIDE DEF N
        <4> QED BY <4>1, <3>4, SameSeq
      <3> QED BY <3>5 DEF other
    <2> HIDE DEF with, front, longer
    <2>7. Joined(fs) = Joined(front) \o fs[N]
      BY <2>1, <2>2, JoinedAppend
    <2>8. Joined(with) = Joined(front) \o longer
      BY <2>1, <2>3, <2>6, JoinedAppend
    <2>9. Joined(front) \in Seq(CodeSet)
      BY <2>1, JoinedTyped
    <2>10. Joined(front) \o (fs[N] \o <<c>>) = (Joined(front) \o fs[N]) \o <<c>>
      <3> DEFINE u == Joined(front)
                 v == fs[N]
      <3>1. u \in Seq(CodeSet) /\ v \in Seq(CodeSet) /\ <<c>> \in Seq(CodeSet)
        BY <2>1, <2>9
      <3> HIDE DEF u, v
      <3>2. u \o (v \o <<c>>) = (u \o v) \o <<c>>
        BY <3>1
      <3> QED BY <3>2 DEF u, v
    <2> QED BY <2>3, <2>4, <2>5, <2>7, <2>8, <2>10 DEF with
  <1> DEFINE from == IF c.op = "LABEL" /\ Last(bs) # <<>> THEN Append(bs, <<>>) ELSE bs
             with == [from EXCEPT ![Len(from)] = Append(@, c)]
  <1>2. Extended(bs, c) = IF EndsBlock(c) THEN Append(with, <<>>) ELSE with
    BY DEF Extended
  <1>3. ASSUME NEW fs \in Seq(Seq(CodeSet))
        PROVE  /\ Append(fs, <<>>) \in Seq(Seq(CodeSet)) /\ Len(Append(fs, <<>>)) > 0
               /\ Joined(Append(fs, <<>>)) = Joined(fs)
    <2>1. <<>> \in Seq(CodeSet) /\ Joined(fs) \in Seq(CodeSet)
      BY JoinedTyped
    <2>2. Joined(Append(fs, <<>>)) = Joined(fs) \o <<>>
      BY <2>1, JoinedAppend
    <2>3. Joined(fs) \o <<>> = Joined(fs)
      BY <2>1
    <2> QED BY <2>2, <2>3
  <1>4. from \in Seq(Seq(CodeSet)) /\ Len(from) > 0 /\ Joined(from) = Joined(bs)
    BY <1>3
  <1> HIDE DEF from
  <1>5. with \in Seq(Seq(CodeSet)) /\ Len(with) > 0 /\ Joined(with) = Joined(bs) \o <<c>>
    BY <1>1, <1>4
  <1> HIDE DEF with
  <1> QED BY <1>2, <1>3, <1>5

\* Basic blocks are the code list in pieces.
LEMMA CutFact ==
  ASSUME NEW codes \in Seq(CodeSet)
  PROVE  Cut(codes) \in Seq(Seq(CodeSet)) /\ Joined(Cut(codes)) = codes
  <1> DEFINE N == Len(codes)
             T == {bs \in Seq(Seq(CodeSet)) : Len(bs) > 0}
             Is(c) == c = [n \in 0 .. N |-> IF n = 0 THEN <<<<>>>> ELSE Extended(c[n - 1], codes[n])]
             s == CHOOSE c : Is(c)
             g == [p \in (1 .. N) \X T |-> Extended(p[2], codes[p[1]])]
  <1>1. Cut(codes) = s[N]
    BY DEF Cut
  <1>2. N \in Nat /\ (\A n \in 1 .. N : codes[n] \in CodeSet) /\ <<<<>>>> \in T
    OBVIOUS
  <1> HIDE DEF N
  <1>3. g \in [(1 .. N) \X T -> T]
    <2>1. ASSUME NEW p \in (1 .. N) \X T PROVE Extended(p[2], codes[p[1]]) \in T
      <3>1. p[2] \in Seq(Seq(CodeSet)) /\ Len(p[2]) > 0 /\ codes[p[1]] \in CodeSet
        BY <1>2
      <3> QED BY <3>1, ExtendedFact
    <2> QED BY <2>1
  <1>4. \A n \in 1 .. N : \A x \in T : g[<<n, x>>] = Extended(x, codes[n])
    OBVIOUS
  <1> HIDE DEF g
  <1>5. PICK c \in [0 .. N -> T] : Recurs(c, N, <<<<>>>>, g)
    <2> HIDE DEF T
    <2> QED BY <1>2, <1>3, Recursion
  <1>6. \A n \in 0 .. N : c[n] = IF n = 0 THEN <<<<>>>> ELSE Extended(c[n - 1], codes[n])
    <2> HIDE DEF T
    <2>1. ASSUME NEW n \in 0 .. N, n # 0 PROVE c[n] = Extended(c[n - 1], codes[n])
      <3>1. n \in 1 .. N /\ n - 1 \in 0 .. N
        BY <1>2, <2>1
      <3>2. c[n - 1] \in T /\ c[n] = g[<<n, c[n - 1]>>]
        BY <1>5, <3>1, <2>1 DEF Recurs
      <3> QED BY <1>4, <3>1, <3>2
    <2>2. 0 \in 0 .. N => c[0] = <<<<>>>>
      BY <1>5 DEF Recurs
    <2> QED BY <2>1, <2>2
  <1>7. Is(c)
    <2>1. c = [n \in 0 .. N |-> c[n]]
      OBVIOUS
    <2> QED BY <1>6, <2>1
  <1> HIDE DEF Is
  <1>8. Is(s)
    BY <1>7
  <1> HIDE DEF s
  <1>9. s = [n \in 0 .. N |-> IF n = 0 THEN <<<<>>>> ELSE Extended(s[n - 1], codes[n])]
    BY <1>8 DEF Is
  <1>10. s[0] = <<<<>>>>
    BY <1>2, <1>9
  <1>11. ASSUME NEW n \in 1 .. N PROVE s[n] = Extended(s[n - 1], codes[n])
    <2>1. n \in 0 .. N /\ n # 0
      BY <1>2
    <2> QED BY <1>9, <2>1, Zenon
  <1> DEFINE P == {n \in 0 .. N : s[n] \in T /\ Joined(s[n]) = SubSeq(codes, 1, n)}
  <1>12. 0 \in P
    <2> DEFINE none == <<>>
    <2>1. none \in Seq(Seq(CodeSet)) /\ <<>> \in Seq(CodeSet) /\ Append(none, <<>>) = <<<<>>>>
      OBVIOUS
    <2>2. Joined(none) = <<>>
      BY <2>1, JoinedTyped
    <2>3. Joined(Append(none, <<>>)) = Joined(none) \o <<>>
      <3> HIDE DEF none
      <3> QED BY <2>1, JoinedAppend
    <2>4. Joined(<<<<>>>>) = <<>> \o <<>>
      BY <2>1, <2>2, <2>3
    <2>5. <<>> \o <<>> = <<>> /\ SubSeq(codes, 1, 0) = <<>>
      OBVIOUS
    <2>6. 0 \in 0 .. N /\ s[0] \in T
      BY <1>2, <1>10
    <2>7. Joined(s[0]) = SubSeq(codes, 1, 0)
      BY <1>10, <2>4, <2>5
    <2> HIDE DEF T
    <2> QED BY <2>6, <2>7
  <1>13. ASSUME NEW n \in 1 .. N, n - 1 \in P PROVE n \in P
    <2>1. n \in 0 .. N /\ codes[n] \in CodeSet /\ s[n - 1] \in Seq(Seq(CodeSet)) /\ Len(s[n - 1]) > 0
          /\ Joined(s[n - 1]) = SubSeq(codes, 1, n - 1)
      BY <1>2, <1>13
    <2>2. /\ s[n] \in Seq(Seq(CodeSet)) /\ Len(s[n]) > 0
          /\ Joined(s[n]) = Joined(s[n - 1]) \o <<codes[n]>>
      BY <1>11, <2>1, ExtendedFact
    <2>3. SubSeq(codes, 1, n - 1) \o <<codes[n]>> = SubSeq(codes, 1, n)
      BY <1>2 DEF N
    <2> QED BY <2>1, <2>2, <2>3
  <1> HIDE DEF P
  <1>14. \A n \in 0 .. N : n \in P
    BY <1>2, <1>12, <1>13, Steps
  <1>15. N \in P
    BY <1>2, <1>14
  <1>16. SubSeq(codes, 1, N) = codes
    BY DEF N
  <1> QED BY <1>1, <1>15, <1>16 DEF P


-----------------------------------------------------------------------------
(* Labels in one place are labels of weight 1 at most.                     *)

Hit(codes, l, i) == codes[i].op = "LABEL" /\ codes[i].t = l

LEMMA HitsFact ==
  ASSUME NEW codes \in Seq(CodeSet), NEW l \in Labels
  PROVE  \E s \in [0 .. Len(codes) -> Int] :
           /\ s[0] = 0 /\ s[Len(codes)] = Weighed(Mark(l), codes)
           /\ \A n \in 1 .. Len(codes) : s[n] = s[n - 1] + (IF Hit(codes, l, n) THEN 1 ELSE 0)
  <1> DEFINE ws == Weights(Mark(l), codes)
             s == Sums(ws)
  <1>1. Mark(l) \in [CodeSet -> Int]
    BY HeftFact
  <1>2. /\ ws \in Seq(Int) /\ Len(ws) = Len(codes)
        /\ \A n \in 1 .. Len(codes) : ws[n] = Mark(l)[codes[n]]
        /\ Weighed(Mark(l), codes) = s[Len(codes)]
    BY <1>1, WeightsFact
  <1>3. \A n \in 1 .. Len(codes) : Mark(l)[codes[n]] = IF Hit(codes, l, n) THEN 1 ELSE 0
    BY DEF Mark, Hit
  <1> HIDE DEF ws
  <1>4. s \in [0 .. Len(codes) -> Int] /\ s[0] = 0
        /\ \A n \in 1 .. Len(codes) : s[n] = s[n - 1] + ws[n]
    BY <1>2, SumsFact
  <1> HIDE DEF s
  <1>5. \A n \in 1 .. Len(codes) : s[n] = s[n - 1] + (IF Hit(codes, l, n) THEN 1 ELSE 0)
    BY <1>2, <1>3, <1>4
  <1> QED BY <1>2, <1>4, <1>5

LEMMA OnceIsLight ==
  ASSUME NEW codes \in Seq(CodeSet), LabelsOnce(codes), NEW l \in Labels
  PROVE  Weighed(Mark(l), codes) <= 1
  <1> DEFINE N == Len(codes)
  <1>1. PICK s \in [0 .. N -> Int] :
           /\ s[0] = 0 /\ s[N] = Weighed(Mark(l), codes)
           /\ \A n \in 1 .. N : s[n] = s[n - 1] + (IF Hit(codes, l, n) THEN 1 ELSE 0)
    BY HitsFact
  <1>2. N \in Nat /\ DOMAIN codes = 1 .. N
    OBVIOUS
  <1>3. \A i, j \in 1 .. N : Hit(codes, l, i) /\ Hit(codes, l, j) => i = j
    BY <1>2 DEF LabelsOnce, Hit
  <1> HIDE DEF N
  <1> DEFINE P == {n \in 0 .. N : s[n] \in 0 .. 1 /\ (s[n] = 1 => \E i \in 1 .. n : Hit(codes, l, i))}
  <1>4. 0 \in P
    BY <1>1, <1>2
  <1>5. ASSUME NEW n \in 1 .. N, n - 1 \in P PROVE n \in P
    <2>1. n \in 0 .. N /\ s[n - 1] \in 0 .. 1
          /\ (s[n - 1] = 1 => \E i \in 1 .. n - 1 : Hit(codes, l, i))
      BY <1>2, <1>5
    <2>2. CASE Hit(codes, l, n)
      <3>1. s[n - 1] # 1
        <4> SUFFICES ASSUME s[n - 1] = 1 PROVE FALSE
          OBVIOUS
        <4>1. PICK i \in 1 .. n - 1 : Hit(codes, l, i)
          BY <2>1
        <4>2. i \in 1 .. N /\ i # n
          BY <1>2
        <4> QED BY <1>3, <2>2, <4>1, <4>2
      <3>2. s[n] = s[n - 1] + 1
        BY <1>1, <2>2
      <3>3. s[n] = 1 /\ n \in 1 .. n
        BY <1>2, <2>1, <3>1, <3>2
      <3> QED BY <2>1, <2>2, <3>3
    <2>3. CASE ~Hit(codes, l, n)
      <3>1. s[n] = s[n - 1]
        BY <1>1, <2>1, <2>3
      <3>2. \A i \in 1 .. n - 1 : i \in 1 .. n
        BY <1>2
      <3> QED BY <2>1, <3>1, <3>2
    <2> QED BY <2>2, <2>3
  <1> HIDE DEF P
  <1>6. \A n \in 0 .. N : n \in P
    BY <1>2, <1>4, <1>5, Steps
  <1>7. N \in P
    BY <1>2, <1>6
  <1>8. s[N] \in 0 .. 1
    BY <1>7 DEF P
  <1> QED BY <1>1, <1>8

LEMMA LightIsOnce ==
  ASSUME NEW codes \in Seq(CodeSet), \A l \in Labels : Weighed(Mark(l), codes) <= 1
  PROVE  LabelsOnce(codes)
  <1> DEFINE N == Len(codes)
  <1>1. N \in Nat /\ DOMAIN codes = 1 .. N /\ \A n \in 1 .. N : codes[n] \in CodeSet
    OBVIOUS
  <1>2. ASSUME NEW i \in 1 .. N, NEW j \in 1 .. N, NEW l \in Labels, i < j,
               Hit(codes, l, i), Hit(codes, l, j)
        PROVE  FALSE
    <2>1. PICK s \in [0 .. N -> Int] :
             /\ s[0] = 0 /\ s[N] = Weighed(Mark(l), codes)
             /\ \A n \in 1 .. N : s[n] = s[n - 1] + (IF Hit(codes, l, n) THEN 1 ELSE 0)
      BY HitsFact
    <2> HIDE DEF N
    <2> DEFINE P == {n \in 0 .. N : s[n] >= 0 /\ (i <= n => s[n] >= 1) /\ (j <= n => s[n] >= 2)}
    <2>2. 0 \in P
      BY <1>1, <2>1
    <2>3. ASSUME NEW n \in 1 .. N, n - 1 \in P PROVE n \in P
      <3>1. n \in 0 .. N /\ n - 1 \in 0 .. N /\ s[n - 1] \in Int /\ s[n] \in Int
        BY <1>1, <2>1
      <3>2. s[n - 1] >= 0 /\ (i <= n - 1 => s[n - 1] >= 1) /\ (j <= n - 1 => s[n - 1] >= 2)
        BY <2>3
      <3>3. (n = i \/ n = j => s[n] = s[n - 1] + 1) /\ s[n] >= s[n - 1]
        BY <1>2, <2>1, <3>1
      <3>4. (i <= n => i <= n - 1 \/ n = i) /\ (j <= n => j <= n - 1 \/ n = j) /\ (n = j => i <= n - 1)
        BY <1>1, <1>2
      <3>5. s[n] >= 0 /\ (i <= n => s[n] >= 1) /\ (j <= n => s[n] >= 2)
        BY <3>1, <3>2, <3>3, <3>4
      <3> QED BY <3>1, <3>5
    <2> HIDE DEF P
    <2>4. \A n \in 0 .. N : n \in P
      BY <1>1, <2>2, <2>3, Steps
    <2>5. N \in P /\ j <= N
      BY <1>1, <2>4
    <2>6. s[N] >= 2 /\ s[N] \in Int
      BY <1>1, <2>1, <2>5 DEF P
    <2>7. s[N] <= 1
      BY <2>1
    <2> QED BY <2>6, <2>7
  <1>3. ASSUME NEW i \in 1 .. N, NEW j \in 1 .. N,
               codes[i].op = "LABEL", codes[j].op = "LABEL", codes[i].t = codes[j].t
        PROVE  i = j
    <2>1. codes[i].t \in Labels
      BY <1>1, CodeFact
    <2>2. Hit(codes, codes[i].t, i) /\ Hit(codes, codes[i].t, j)
      BY <1>3 DEF Hit
    <2>3. ~(i < j) /\ ~(j < i)
      BY <1>2, <2>1, <2>2
    <2> QED BY <1>1, <2>3
  <1> QED BY <1>1, <1>3 DEF LabelsOnce

LEMMA TidierKeeps ==
  ASSUME NEW c \in Seq(CodeSet), NEW d \in Seq(CodeSet), Tidier(c, d), Nests(d), LabelsOnce(d)
  PROVE  Nests(c) /\ LabelsOnce(c)
  <1>1. Nests(c)
    BY NestsIsPath DEF Tidier
  <1>2. ASSUME NEW l \in Labels PROVE Weighed(Mark(l), c) <= 1
    <2>1. Mark(l) \in [CodeSet -> Int]
      BY HeftFact
    <2>2. Weighed(Mark(l), c) \in Int /\ Weighed(Mark(l), d) \in Int
      BY <2>1, WeightsFact
    <2>3. Weighed(Mark(l), c) <= Weighed(Mark(l), d)
      BY DEF Tidier
    <2>4. Weighed(Mark(l), d) <= 1
      BY OnceIsLight
    <2> QED BY <2>2, <2>3, <2>4
  <1> QED BY <1>1, <1>2, LightIsOnce

-----------------------------------------------------------------------------
(* The invariant.                                                          *)

TypeOK ==
  /\ body \in Bodies
  /\ phase \in {"parsed", "cut", "erased", "joined", "final", "done"}
  /\ list \in Seq(CodeSet)
  /\ blocks \in Seq(Seq(CodeSet))
  /\ noret \in BOOLEAN

\* The codes are either in the list or in the blocks.
InOnePlace ==
  /\ phase \in {"parsed", "joined"} => blocks = <<>>
  /\ phase \notin {"parsed", "joined"} => list = <<>>

IInv == TypeOK /\ InOnePlace /\ Nests(AllCodes) /\ LabelsOnce(AllCodes)

LEMMA InList ==
  ASSUME NEW codes \in Seq(CodeSet)
  PROVE  codes \o Joined(<<>>) = codes /\ Joined(<<>>) \in Seq(CodeSet)
  <1>1. <<>> \in Seq(CodeSet) /\ <<>> \in Seq(Seq(CodeSet)) /\ codes \o <<>> = codes
    OBVIOUS
  <1>2. Joined(<<>>) = <<>>
    BY <1>1, JoinedTyped
  <1> QED BY <1>1, <1>2

LEMMA InBlocks ==
  ASSUME NEW bs \in Seq(Seq(CodeSet))
  PROVE  <<>> \o Joined(bs) = Joined(bs) /\ Joined(bs) \in Seq(CodeSet)
  <1>1. Joined(bs) \in Seq(CodeSet)
    BY JoinedTyped
  <1> DEFINE j == Joined(bs)
  <1> HIDE DEF j
  <1>2. j \in Seq(CodeSet) => <<>> \o j = j
    OBVIOUS
  <1> QED BY <1>1, <1>2 DEF j

LEMMA InitIInv == Init => IInv
  <1> SUFFICES ASSUME Init PROVE IInv
    OBVIOUS
  <1>1. body \in Bodies /\ list = CodesOf[body] /\ blocks = <<>> /\ phase = "parsed" /\ noret = FALSE
    BY DEF Init
  <1>2. list \in Seq(CodeSet) /\ Nests(list) /\ LabelsOnce(list)
    BY <1>1, CanonAssumption
  <1>3. blocks \in Seq(Seq(CodeSet))
    BY <1>1
  <1>4. AllCodes = list
    BY <1>1, <1>2, InList DEF AllCodes
  <1>5. TypeOK
    BY <1>1, <1>2, <1>3 DEF TypeOK
  <1>6. InOnePlace
    BY <1>1 DEF InOnePlace
  <1> QED BY <1>2, <1>4, <1>5, <1>6 DEF IInv

LEMMA NextIInv == IInv /\ [Next]_vars => IInv'
  <1> SUFFICES ASSUME IInv, [Next]_vars PROVE IInv'
    OBVIOUS
  <1>1. TypeOK /\ InOnePlace /\ Nests(AllCodes) /\ LabelsOnce(AllCodes)
    BY DEF IInv
  <1>2. list \in Seq(CodeSet) /\ blocks \in Seq(Seq(CodeSet))
    BY <1>1 DEF TypeOK
  <1>3. CASE Simplify
    <2>1. blocks = <<>> /\ blocks' = <<>> /\ list' = Simplified(list)
      BY <1>1, <1>3 DEF Simplify, InOnePlace
    <2>2. list' \in Seq(CodeSet) /\ Tidier(list', list)
      BY <1>2, <2>1, SimplifiedFact
    <2>3. AllCodes = list /\ AllCodes' = list'
      BY <1>2, <2>1, <2>2, InList DEF AllCodes
    <2>4. Nests(AllCodes') /\ LabelsOnce(AllCodes')
      BY <1>1, <1>2, <2>2, <2>3, TidierKeeps
    <2>5. TypeOK'
      BY <1>1, <1>3, <2>1, <2>2 DEF Simplify, TypeOK
    <2>6. InOnePlace'
      BY <1>1, <1>3, <2>1 DEF Simplify, InOnePlace
    <2> QED BY <2>4, <2>5, <2>6 DEF IInv, Nests, LabelsOnce
  <1>4. CASE GenBasicBlocks
    <2>1. blocks = <<>> /\ blocks' = Cut(list) /\ list' = <<>>
      BY <1>1, <1>4 DEF GenBasicBlocks, InOnePlace
    <2>2. blocks' \in Seq(Seq(CodeSet)) /\ Joined(blocks') = list
      BY <1>2, <2>1, CutFact
    <2>3. AllCodes = list /\ AllCodes' = list
      BY <1>2, <2>1, <2>2, InList, InBlocks DEF AllCodes
    <2>4. list' \in Seq(CodeSet)
      BY <2>1
    <2>5. TypeOK'
      BY <1>1, <1>4, <2>2, <2>4 DEF GenBasicBlocks, TypeOK
    <2>6. InOnePlace'
      BY <1>4, <2>1 DEF GenBasicBlocks, InOnePlace
    <2> QED BY <1>1, <2>3, <2>5, <2>6 DEF IInv, Nests, LabelsOnce
  <1>5. CASE EraseDeadBlocks
    <2>1. list = <<>> /\ list' = <<>> /\ blocks' = Erased(blocks)
      BY <1>1, <1>5 DEF EraseDeadBlocks, InOnePlace
    <2>2. blocks' \in Seq(Seq(CodeSet)) /\ Tidier(Joined(blocks'), Joined(blocks))
      BY <1>2, <2>1, ErasedFact
    <2>3. /\ AllCodes = Joined(blocks) /\ AllCodes' = Joined(blocks')
          /\ Joined(blocks) \in Seq(CodeSet) /\ Joined(blocks') \in Seq(CodeSet)
      BY <1>2, <2>1, <2>2, InBlocks DEF AllCodes
    <2>4. Nests(AllCodes') /\ LabelsOnce(AllCodes')
      BY <1>1, <2>2, <2>3, TidierKeeps
    <2>5. TypeOK'
      BY <1>1, <1>5, <2>2 DEF EraseDeadBlocks, TypeOK
    <2>6. InOnePlace'
      BY <1>1, <1>5, <2>1 DEF EraseDeadBlocks, InOnePlace
    <2> QED BY <2>4, <2>5, <2>6 DEF IInv, Nests, LabelsOnce
  <1>6. CASE JoinBlocks
    <2>1. list = <<>> /\ list' = Joined(blocks) /\ blocks' = <<>>
      BY <1>1, <1>6 DEF JoinBlocks, InOnePlace
    <2>2. list' \in Seq(CodeSet) /\ AllCodes = list'
      BY <1>2, <2>1, InBlocks DEF AllCodes
    <2>3. AllCodes' = list'
      BY <2>1, <2>2, InList DEF AllCodes
    <2>4. blocks' \in Seq(Seq(CodeSet))
      BY <2>1
    <2>5. TypeOK'
      BY <1>1, <1>6, <2>2, <2>4 DEF JoinBlocks, TypeOK
    <2>6. InOnePlace'
      BY <1>6, <2>1 DEF JoinBlocks, InOnePlace
    <2> QED BY <1>1, <2>2, <2>3, <2>5, <2>6 DEF IInv, Nests, LabelsOnce
  <1>7. CASE CheckReturn
    <2>1. list' = list /\ blocks' = blocks
      BY <1>7 DEF CheckReturn
    <2>2. AllCodes' = AllCodes
      BY <2>1 DEF AllCodes
    <2>3. noret' \in BOOLEAN
      BY <1>7 DEF CheckReturn, NoReturnPath
    <2>4. TypeOK'
      BY <1>1, <1>7, <2>3 DEF CheckReturn, TypeOK
    <2>5. InOnePlace'
      BY <1>1, <1>7 DEF CheckReturn, InOnePlace
    <2> QED BY <1>1, <2>2, <2>4, <2>5 DEF IInv, Nests, LabelsOnce
  <1>8. CASE UNCHANGED vars
    <2>1. list' = list /\ blocks' = blocks /\ AllCodes' = AllCodes
      BY <1>8 DEF vars, AllCodes
    <2>2. TypeOK' /\ InOnePlace'
      BY <1>1, <1>8 DEF vars, TypeOK, InOnePlace
    <2> QED BY <1>1, <2>1, <2>2 DEF IInv, Nests, LabelsOnce
  <1> QED BY <1>3, <1>4, <1>5, <1>6, <1>7, <1>8 DEF Next

\* Between the passes the codes are well formed, in one place, nested, and
\* every label is at one of them: nothing is emitted twice and no jump has
\* two targets.
THEOREM Invariant == Spec => []IInv
  BY InitIInv, NextIInv, PTL DEF Spec

\* The BLKBEG and BLKEND codes that are left nest, whatever jumped over them
\* and was erased: cc_canon_erease_deadbasicblocks keeps those of a dead
\* block, and the other passes move none of them.
THEOREM BlocksStayNested == Spec => []BlocksNest
  <1>1. IInv => BlocksNest
    BY DEF IInv, BlocksNest
  <1> QED BY <1>1, Invariant, PTL

\* A call of cc_canon_codelist_simplify_inner that asks for another one
\* leaves less to remove.  A round that only redirects jumps counts: the
\* label they went to is gone, for no other one is redirected to it.
THEOREM RoundsShrink == Spec => Shrinks
  <1>1. IInv /\ [Next]_vars => [Simplify => Size(list') < Size(list)]_vars
    <2> SUFFICES ASSUME IInv, Simplify PROVE Size(list') < Size(list)
      OBVIOUS
    <2>1. list \in Seq(CodeSet) /\ LabelsOnce(AllCodes) /\ blocks = <<>>
      BY DEF IInv, TypeOK, InOnePlace, Simplify
    <2>2. AllCodes = list
      BY <2>1, InList DEF AllCodes
    <2>3. IsModified(list) /\ list' = Simplified(list)
      BY DEF Simplify
    <2> QED BY <2>1, <2>2, <2>3, SimplifiedSmaller
  <1> QED BY <1>1, Invariant, PTL DEF Shrinks, Spec
=============================================================================
