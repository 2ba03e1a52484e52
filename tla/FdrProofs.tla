----------------------------- MODULE FdrProofs -----------------------------
(***************************************************************************)
(* Proofs about the finite-domain planner, for every task, every rule that *)
(* may discard a plan and every way of ranking and choosing flaws: its     *)
(* cache of threats and the form its children wait in.                     *)
(***************************************************************************)
EXTENDS FdrPocl, OrderingsProofs

-----------------------------------------------------------------------------
(* Sequences.                                                               *)

\* Induction up to a number.
LEMMA Stepwise ==
  ASSUME NEW n \in Nat, NEW G, 0 \in G, \A m \in 0 .. n - 1 : m \in G => m + 1 \in G
  PROVE  \A m \in 0 .. n : m \in G
<1> DEFINE D == {m \in 0 .. n : m \notin G}
<1>1. CASE D = {}
  BY <1>1
<1>2. CASE D # {}
  <2>1. D \subseteq Nat
    OBVIOUS
  <2>2. PICK m \in D : \A k \in D : m <= k
    BY <1>2, <2>1, LeastNatural
  <2>3. m # 0 /\ m - 1 \in 0 .. n - 1 /\ m - 1 \in 0 .. n /\ m - 1 \notin D /\ (m - 1) + 1 = m
    BY <2>2
  <2> QED BY <2>2, <2>3
<1> QED BY <1>1, <1>2

LEMMA InSeq ==
  ASSUME NEW S, NEW s \in Seq(S)
  PROVE  /\ Len(s) \in Nat /\ DOMAIN s = 1 .. Len(s) /\ ToSet(s) \subseteq S
         /\ \A x : x \in ToSet(s) <=> \E i \in 1 .. Len(s) : s[i] = x
  BY DEF ToSet

LEMMA NoMembers ==
  ToSet(<<>>) = {} /\ Len(<<>>) = 0 /\ \A S : <<>> \in Seq(S)
  BY DEF ToSet

LEMMA AppendMembers ==
  ASSUME NEW S, NEW s \in Seq(S), NEW x \in S
  PROVE  Append(s, x) \in Seq(S) /\ ToSet(Append(s, x)) = ToSet(s) \cup {x}
<1> DEFINE t == Append(s, x)
<1>1. t \in Seq(S) /\ Len(t) = Len(s) + 1 /\ t[Len(s) + 1] = x /\ Len(s) \in Nat
      /\ \A i \in 1 .. Len(s) : t[i] = s[i]
  OBVIOUS
<1> HIDE DEF t
<1>2. \A i : i \in 1 .. Len(t) <=> i \in 1 .. Len(s) \/ i = Len(s) + 1
  BY <1>1
<1>3. \A y : y \in ToSet(t) <=> y \in ToSet(s) \/ y = x
  BY <1>1, <1>2, InSeq
<1> QED BY <1>1, <1>3 DEF t

\* The filter, as a function that satisfies its recursion.
Keeps(s, T, f, n) ==
  f = [k \in 0 .. n |-> IF k = 0 THEN <<>>
                        ELSE IF s[k] \in T THEN Append(f[k - 1], s[k]) ELSE f[k - 1]]

LEMMA KeepsExists ==
  ASSUME NEW s, NEW T, NEW n \in Nat
  PROVE  \E f : Keeps(s, T, f, n)
<1> DEFINE D == {m \in Nat : ~ \E f : Keeps(s, T, f, m)}
<1>1. CASE D = {}
  BY <1>1
<1>2. CASE D # {}
  <2>1. PICK m \in D : \A k \in D : m <= k
    BY <1>2, LeastNatural
  <2>2. CASE m = 0
    <3> DEFINE f == [k \in 0 .. 0 |-> <<>>]
    <3>1. Keeps(s, T, f, 0)
      BY DEF Keeps
    <3> QED BY <2>1, <2>2, <3>1
  <2>3. CASE m # 0
    <3>1. m - 1 \in Nat /\ m - 1 \notin D
      BY <2>1, <2>3
    <3>2. PICK g : Keeps(s, T, g, m - 1)
      BY <3>1
    <3> DEFINE f == [k \in 0 .. m |-> IF k = 0 THEN <<>>
                       ELSE IF s[k] \in T THEN Append(g[k - 1], s[k]) ELSE g[k - 1]]
    <3>3. \A k \in 0 .. m - 1 : f[k] = g[k]
      <4>1. \A k \in 0 .. m - 1 : k \in 0 .. m
        BY <3>1
      <4>2. \A k \in 0 .. m - 1 : g[k] = IF k = 0 THEN <<>>
                       ELSE IF s[k] \in T THEN Append(g[k - 1], s[k]) ELSE g[k - 1]
        BY <3>2 DEF Keeps
      <4> QED BY <4>1, <4>2
    <3>4. \A k \in 0 .. m : k # 0 => k - 1 \in 0 .. m - 1
      BY <3>1
    <3>5. Keeps(s, T, f, m)
      BY <3>3, <3>4 DEF Keeps
    <3> QED BY <2>1, <3>5
  <2> QED BY <2>2, <2>3
<1> QED BY <1>1, <1>2

LEMMA AmongRecursion ==
  ASSUME NEW s, NEW T, Len(s) \in Nat
  PROVE  \E f : Keeps(s, T, f, Len(s)) /\ Among(s, T) = f[Len(s)]
<1> DEFINE f == CHOOSE f : Keeps(s, T, f, Len(s))
<1>1. Keeps(s, T, f, Len(s))
  BY KeepsExists
<1>2. Among(s, T) = f[Len(s)]
  BY DEF Among, Keeps
<1> HIDE DEF f
<1> QED BY <1>1, <1>2

\* r holds what the first m elements of s have in T.
KeptTo(S, s, T, r, m) ==
  r \in Seq(S) /\ \A x : x \in ToSet(r) <=> x \in T /\ \E i \in 1 .. m : s[i] = x

LEMMA KeepsMembers ==
  ASSUME NEW S, NEW s \in Seq(S), NEW T, NEW f, Keeps(s, T, f, Len(s))
  PROVE  \A m \in 0 .. Len(s) : KeptTo(S, s, T, f[m], m)
<1> DEFINE n == Len(s)
           Good(m) == KeptTo(S, s, T, f[m], m)
           G == {m \in 0 .. n : Good(m)}
<1>1. n \in Nat
  OBVIOUS
<1>2. \A k \in 0 .. n : f[k] = IF k = 0 THEN <<>>
                               ELSE IF s[k] \in T THEN Append(f[k - 1], s[k]) ELSE f[k - 1]
  BY DEF Keeps
<1>3. Good(0)
  <2>1. f[0] = <<>> /\ <<>> \in Seq(S) /\ Len(<<>>) = 0
    BY <1>1, <1>2
  <2>2. ToSet(f[0]) = {}
    BY <2>1, NoMembers
  <2>3. \A i : i \notin 1 .. 0
    OBVIOUS
  <2> QED BY <2>1, <2>2, <2>3 DEF KeptTo
<1>4. ASSUME NEW m \in 0 .. n - 1, Good(m) PROVE Good(m + 1)
  <2>1. m + 1 \in 0 .. n /\ m + 1 # 0 /\ (m + 1) - 1 = m /\ m + 1 \in 1 .. n
    BY <1>1
  <2>2. f[m + 1] = IF s[m + 1] \in T THEN Append(f[m], s[m + 1]) ELSE f[m]
    BY <1>2, <2>1
  <2>3. \A i : i \in 1 .. m + 1 <=> i \in 1 .. m \/ i = m + 1
    BY <1>1
  <2>4. s[m + 1] \in S
    BY <2>1
  <2>5. CASE s[m + 1] \in T
    <3>1. f[m + 1] \in Seq(S) /\ ToSet(f[m + 1]) = ToSet(f[m]) \cup {s[m + 1]}
      BY <1>4, <2>2, <2>4, <2>5, AppendMembers DEF KeptTo
    <3> QED BY <1>4, <2>3, <2>5, <3>1 DEF KeptTo
  <2>6. CASE s[m + 1] \notin T
    <3>1. f[m + 1] = f[m]
      BY <2>2, <2>6
    <3> QED BY <1>4, <2>3, <2>6, <3>1 DEF KeptTo
  <2> QED BY <2>5, <2>6
<1> HIDE DEF Good
<1>5. 0 \in G /\ \A m \in 0 .. n - 1 : m \in G => m + 1 \in G
  BY <1>1, <1>3, <1>4
<1> HIDE DEF G
<1>6. \A m \in 0 .. n : m \in G
  BY <1>1, <1>5, Stepwise
<1> QED BY <1>6 DEF G, Good

LEMMA AmongMembers ==
  ASSUME NEW S, NEW s \in Seq(S), NEW T
  PROVE  Among(s, T) \in Seq(S) /\ ToSet(Among(s, T)) = ToSet(s) \cap T
<1>1. Len(s) \in Nat
  OBVIOUS
<1>2. PICK f : Keeps(s, T, f, Len(s)) /\ Among(s, T) = f[Len(s)]
  BY <1>1, AmongRecursion
<1>3. Len(s) \in 0 .. Len(s)
  BY <1>1
<1>6. Keeps(s, T, f, Len(s))
  BY <1>2
<1>7. \A m \in 0 .. Len(s) : KeptTo(S, s, T, f[m], m)
  BY <1>6, KeepsMembers
<1>4. /\ f[Len(s)] \in Seq(S)
      /\ \A x : x \in ToSet(f[Len(s)]) <=> x \in T /\ \E i \in 1 .. Len(s) : s[i] = x
  BY <1>3, <1>7 DEF KeptTo
<1>5. \A x : x \in ToSet(s) <=> \E i \in 1 .. Len(s) : s[i] = x
  BY InSeq
<1>8. \A x : x \in ToSet(f[Len(s)]) <=> x \in ToSet(s) /\ x \in T
  BY <1>4, <1>5
<1> QED BY <1>2, <1>4, <1>8

LEMMA ConcatMembers ==
  ASSUME NEW S, NEW a \in Seq(S), NEW b \in Seq(S)
  PROVE  /\ a \o b \in Seq(S) /\ ToSet(a \o b) = ToSet(a) \cup ToSet(b)
         /\ Len(a \o b) = Len(a) + Len(b)
         /\ \A i \in 1 .. Len(a \o b) :
              (a \o b)[i] = IF i <= Len(a) THEN a[i] ELSE b[i - Len(a)]
<1> DEFINE c == a \o b
<1>1. /\ c \in Seq(S) /\ Len(c) = Len(a) + Len(b) /\ Len(a) \in Nat /\ Len(b) \in Nat
      /\ \A i \in 1 .. Len(c) : c[i] = IF i <= Len(a) THEN a[i] ELSE b[i - Len(a)]
  OBVIOUS
<1> HIDE DEF c
<1>2. \A i \in 1 .. Len(a) : i \in 1 .. Len(c) /\ c[i] = a[i]
  BY <1>1
<1>3. \A j \in 1 .. Len(b) : j + Len(a) \in 1 .. Len(c) /\ c[j + Len(a)] = b[j]
  <2> SUFFICES ASSUME NEW j \in 1 .. Len(b)
               PROVE  j + Len(a) \in 1 .. Len(c) /\ c[j + Len(a)] = b[j]
    OBVIOUS
  <2> DEFINE k == j + Len(a)
  <2>1. k \in 1 .. Len(c) /\ ~ (k <= Len(a)) /\ k - Len(a) = j
    BY <1>1
  <2> HIDE DEF k
  <2>2. c[k] = b[k - Len(a)]
    BY <1>1, <2>1
  <2>3. k \in 1 .. Len(c) /\ c[k] = b[j]
    BY <2>1, <2>2
  <2> QED BY <2>3 DEF k
<1>4. \A i \in 1 .. Len(c) : (i \in 1 .. Len(a) /\ c[i] = a[i])
                             \/ (i - Len(a) \in 1 .. Len(b) /\ c[i] = b[i - Len(a)])
  BY <1>1
<1>5. \A x : x \in ToSet(c) <=> x \in ToSet(a) \/ x \in ToSet(b)
  <2>1. \A x : x \in ToSet(a) <=> \E i \in 1 .. Len(a) : a[i] = x
    BY InSeq
  <2>2. \A x : x \in ToSet(b) <=> \E i \in 1 .. Len(b) : b[i] = x
    BY InSeq
  <2>3. \A x : x \in ToSet(c) <=> \E i \in 1 .. Len(c) : c[i] = x
    BY <1>1, InSeq
  <2> QED BY <1>2, <1>3, <1>4, <2>1, <2>2, <2>3
<1> QED BY <1>1, <1>5 DEF c

LEMMA ReverseMembers ==
  ASSUME NEW S, NEW s \in Seq(S)
  PROVE  Reverse(s) \in Seq(S) /\ ToSet(Reverse(s)) = ToSet(s)
<1> DEFINE r == Reverse(s)
           n == Len(s)
<1>1. n \in Nat /\ \A i \in 1 .. n : n - i + 1 \in 1 .. n /\ s[i] \in S
  OBVIOUS
<1>2. r = [i \in 1 .. n |-> s[(n - i) + 1]]
  BY DEF Reverse
<1>3. r \in Seq(S) /\ Len(r) = n
  BY <1>1, <1>2
<1>4. \A i \in 1 .. n : r[i] = s[(n - i) + 1] /\ s[i] = r[(n - i) + 1]
  BY <1>1, <1>2
<1> HIDE DEF r
<1>5. \A x : x \in ToSet(r) <=> x \in ToSet(s)
  <2>1. \A x : x \in ToSet(r) <=> \E i \in 1 .. n : r[i] = x
    BY <1>3, InSeq
  <2>2. \A x : x \in ToSet(s) <=> \E i \in 1 .. n : s[i] = x
    BY InSeq
  <2> QED BY <1>1, <1>4, <2>1, <2>2
<1> QED BY <1>3, <1>5 DEF r

-----------------------------------------------------------------------------
(* Sorted sequences of threats.                                             *)

\* Where a total order on a finite set puts each element.
RankIn(S, R, x) == Cardinality({y \in S : <<y, x>> \in R})

TotalOn(S, R) ==
  /\ \A x \in S : <<x, x>> \notin R
  /\ \A x, y, z \in S : <<x, y>> \in R /\ <<y, z>> \in R => <<x, z>> \in R
  /\ \A x, y \in S : x # y => <<x, y>> \in R \/ <<y, x>> \in R

LEMMA Ranked ==
  ASSUME NEW S, IsFiniteSet(S), NEW R, TotalOn(S, R)
  PROVE  /\ Cardinality(S) \in Nat
         /\ \A x, y \in S : RankIn(S, R, x) = RankIn(S, R, y) => x = y
         /\ \A k \in 1 .. Cardinality(S) : \E x \in S : RankIn(S, R, x) = k - 1
<1> DEFINE n == Cardinality(S)
           Below(x) == {y \in S : <<y, x>> \in R}
           rank == [x \in S |-> RankIn(S, R, x)]
<1>1. n \in Nat
  BY FS_CardinalityType
<1>2. \A x \in S : rank[x] = Cardinality(Below(x)) /\ rank[x] = RankIn(S, R, x)
  BY DEF RankIn
<1>3. ASSUME NEW x \in S PROVE Cardinality(Below(x)) \in 0 .. n - 1 /\ IsFiniteSet(Below(x))
  <2>1. Below(x) \in SUBSET (S \ {x}) /\ IsFiniteSet(S \ {x}) /\ Cardinality(S \ {x}) = n - 1
    BY FS_RemoveElement DEF TotalOn
  <2> HIDE DEF Below
  <2>2. IsFiniteSet(Below(x)) /\ Cardinality(Below(x)) <= n - 1
    BY <2>1, FS_Subset
  <2>3. Cardinality(Below(x)) \in Nat
    BY <2>2, FS_CardinalityType
  <2> QED BY <1>1, <2>2, <2>3
<1>4. ASSUME NEW x \in S, NEW y \in S, <<x, y>> \in R
      PROVE  Cardinality(Below(x)) < Cardinality(Below(y))
  <2>1. Below(x) \in SUBSET Below(y) /\ x \in Below(y) /\ x \notin Below(x)
    BY <1>4 DEF TotalOn
  <2>2. IsFiniteSet(Below(y)) /\ IsFiniteSet(Below(x))
    BY <1>3
  <2>5. Cardinality(Below(x)) \in Nat /\ Cardinality(Below(y)) \in Nat
    BY <1>1, <1>3
  <2> HIDE DEF Below
  <2>3. Cardinality(Below(x)) <= Cardinality(Below(y))
    BY <2>1, <2>2, FS_Subset
  <2>4. Cardinality(Below(x)) # Cardinality(Below(y))
    BY <2>1, <2>2, FS_Subset
  <2> QED BY <2>3, <2>4, <2>5
<1>12. \A x, y \in S : x # y => <<x, y>> \in R \/ <<y, x>> \in R
  BY DEF TotalOn
<1> HIDE DEF Below
<1>5. \A x \in S : rank[x] \in 0 .. n - 1
  BY <1>2, <1>3
<1>6. ASSUME NEW x \in S, NEW y \in S, rank[x] = rank[y], x # y PROVE FALSE
  <2>1. Cardinality(Below(x)) = Cardinality(Below(y)) /\ Cardinality(Below(x)) \in Int
    BY <1>1, <1>2, <1>3, <1>6
  <2>2. CASE <<x, y>> \in R
    BY <1>4, <2>1, <2>2
  <2>3. CASE <<y, x>> \in R
    BY <1>4, <2>1, <2>3
  <2> QED BY <1>6, <1>12, <2>2, <2>3
<1>7. rank \in Injection(S, 0 .. n - 1)
  <2>1. rank \in [S -> 0 .. n - 1]
    BY <1>5
  <2> QED BY <1>6, <2>1 DEF Injection, IsInjective
<1>8. IsFiniteSet(0 .. n - 1) /\ Cardinality(0 .. n - 1) = n
  <2>1. 0 \in Int /\ n - 1 \in Int
    BY <1>1
  <2>2. IsFiniteSet(0 .. n - 1) /\ Cardinality(0 .. n - 1) = IF 0 > n - 1 THEN 0 ELSE (n - 1) - 0 + 1
    BY <2>1, FS_Interval
  <2> QED BY <1>1, <2>2
<1>9. rank \in Surjection(S, 0 .. n - 1)
  BY <1>7, <1>8, FS_Injection
<1>10. \A k \in 1 .. n : k - 1 \in 0 .. n - 1
  BY <1>1
<1>11. \A k \in 1 .. n : \E x \in S : rank[x] = k - 1
  BY <1>9, <1>10 DEF Surjection
<1>13. \A x, y \in S : RankIn(S, R, x) = RankIn(S, R, y) => x = y
  BY <1>2, <1>6
<1>14. \A k \in 1 .. n : \E x \in S : RankIn(S, R, x) = k - 1
  BY <1>2, <1>11
<1> QED BY <1>1, <1>13, <1>14

Triples == [link : Nat, step : Nat, effect : Nat]

Increasing(s) == \A i, j \in 1 .. Len(s) : i < j => ThreatBefore(s[i], s[j])

LEMMA ThreatOrder ==
  /\ \A t \in Triples : ~ ThreatBefore(t, t)
  /\ \A t, u, v \in Triples : ThreatBefore(t, u) /\ ThreatBefore(u, v) => ThreatBefore(t, v)
  /\ \A t, u \in Triples : t # u => ThreatBefore(t, u) \/ ThreatBefore(u, t)
<1>1. \A t \in Triples : t = [link |-> t.link, step |-> t.step, effect |-> t.effect]
                         /\ t.link \in Nat /\ t.step \in Nat /\ t.effect \in Nat
  BY DEF Triples
<1>2. \A t, u \in Triples : t # u => t.link # u.link \/ t.step # u.step \/ t.effect # u.effect
  BY <1>1
<1> QED BY <1>1, <1>2 DEF ThreatBefore

\* The place of each element of a set of threats.
LEMMA ThreatRanks ==
  ASSUME NEW S, IsFiniteSet(S), S \subseteq Triples
  PROVE  /\ Cardinality(S) \in Nat
         /\ \A x, y \in S : Cardinality({z \in S : ThreatBefore(z, x)})
                              = Cardinality({z \in S : ThreatBefore(z, y)}) => x = y
         /\ \A k \in 1 .. Cardinality(S) :
              \E x \in S : Cardinality({z \in S : ThreatBefore(z, x)}) = k - 1
<1> DEFINE R == {x \in S \X S : ThreatBefore(x[1], x[2])}
<1>1. \A x, y \in S : <<x, y>> \in R <=> ThreatBefore(x, y)
  OBVIOUS
<1>2. \A x \in S : RankIn(S, R, x) = Cardinality({z \in S : ThreatBefore(z, x)})
  <2> TAKE x \in S
  <2>1. {y \in S : <<y, x>> \in R} = {y \in S : ThreatBefore(y, x)}
    BY <1>1
  <2> QED BY <2>1 DEF RankIn
<1>3. TotalOn(S, R)
  BY <1>1, ThreatOrder DEF TotalOn
<1> HIDE DEF R
<1>4. /\ Cardinality(S) \in Nat
      /\ \A x, y \in S : RankIn(S, R, x) = RankIn(S, R, y) => x = y
      /\ \A k \in 1 .. Cardinality(S) : \E x \in S : RankIn(S, R, x) = k - 1
  BY <1>3, Ranked
<1> QED BY <1>2, <1>4

LEMMA SortedThreats ==
  ASSUME NEW S, IsFiniteSet(S), S \subseteq Triples
  PROVE  /\ ThreatSeq(S) \in Seq(S) /\ ToSet(ThreatSeq(S)) = S
         /\ Increasing(ThreatSeq(S))
<1> DEFINE n == Cardinality(S)
           Rank(x) == Cardinality({z \in S : ThreatBefore(z, x)})
           s == ThreatSeq(S)
<1>1. /\ n \in Nat
      /\ \A x, y \in S : Rank(x) = Rank(y) => x = y
      /\ \A k \in 1 .. n : \E x \in S : Rank(x) = k - 1
  BY ThreatRanks
<1>2. s = [k \in 1 .. n |-> CHOOSE x \in S : Rank(x) = k - 1]
  BY DEF ThreatSeq, SortedBy
<1>8. \A x \in S : Rank(x) \in 0 .. n - 1
  <2> TAKE x \in S
  <2>1. {z \in S : ThreatBefore(z, x)} \in SUBSET (S \ {x})
    BY ThreatOrder
  <2>2. IsFiniteSet(S \ {x}) /\ Cardinality(S \ {x}) = n - 1
    BY FS_RemoveElement
  <2>3. IsFiniteSet({z \in S : ThreatBefore(z, x)}) /\ Rank(x) <= n - 1
    BY <2>1, <2>2, FS_Subset
  <2>4. Rank(x) \in Nat
    BY <2>3, FS_CardinalityType
  <2> QED BY <1>1, <2>3, <2>4
<1>9. ASSUME NEW x \in S, NEW y \in S, ThreatBefore(x, y) PROVE Rank(x) <= Rank(y)
  <2>1. {z \in S : ThreatBefore(z, x)} \in SUBSET {z \in S : ThreatBefore(z, y)}
    BY <1>9, ThreatOrder
  <2>2. {z \in S : ThreatBefore(z, y)} \in SUBSET S
    OBVIOUS
  <2>3. IsFiniteSet({z \in S : ThreatBefore(z, y)})
    BY <2>2, FS_Subset
  <2> QED BY <2>1, <2>3, FS_Subset
<1> HIDE DEF Rank, s
<1>3. \A k \in 1 .. n : s[k] \in S /\ Rank(s[k]) = k - 1
  BY <1>1, <1>2
<1>4. s \in Seq(S) /\ Len(s) = n
  BY <1>1, <1>2, <1>3
<1>5. \A x \in S : x \in ToSet(s)
  <2> TAKE x \in S
  <2>1. Rank(x) + 1 \in 1 .. n /\ (Rank(x) + 1) - 1 = Rank(x)
    BY <1>1, <1>8
  <2>2. s[Rank(x) + 1] = x
    BY <1>1, <1>3, <2>1
  <2> QED BY <1>4, <2>1, <2>2, InSeq
<1>6. ToSet(s) = S
  BY <1>4, <1>5, InSeq
<1>7. Increasing(s)
  <2> SUFFICES ASSUME NEW i \in 1 .. n, NEW j \in 1 .. n, i < j, ~ ThreatBefore(s[i], s[j]) PROVE FALSE
    BY <1>4 DEF Increasing
  <2>1. s[i] \in S /\ s[j] \in S /\ Rank(s[i]) = i - 1 /\ Rank(s[j]) = j - 1 /\ i \in Int /\ j \in Int
    BY <1>1, <1>3
  <2>2. s[i] # s[j]
    BY <2>1
  <2>3. ThreatBefore(s[j], s[i])
    BY <2>1, <2>2, ThreatOrder
  <2>4. Rank(s[j]) <= Rank(s[i])
    BY <1>9, <2>1, <2>3
  <2> QED BY <2>1, <2>4
<1> QED BY <1>4, <1>6, <1>7 DEF s

\* An increasing sequence is the one its elements sort into.
LEMMA IncreasingIsSorted ==
  ASSUME NEW s \in Seq(Triples), Increasing(s)
  PROVE  s = ThreatSeq(ToSet(s)) /\ IsFiniteSet(ToSet(s))
<1> DEFINE S == ToSet(s)
           n == Len(s)
           Rank(x) == Cardinality({z \in S : ThreatBefore(z, x)})
<1>1. /\ n \in Nat /\ S \subseteq Triples /\ \A x : x \in S <=> \E i \in 1 .. n : s[i] = x
      /\ s = [k \in 1 .. n |-> s[k]] /\ \A i \in 1 .. n : s[i] \in Triples
  BY InSeq
<1> HIDE DEF S
<1>2. \A i, j \in 1 .. n : s[i] = s[j] => i = j
  <2> SUFFICES ASSUME NEW i \in 1 .. n, NEW j \in 1 .. n, s[i] = s[j], i # j PROVE FALSE
    OBVIOUS
  <2>1. i < j \/ j < i
    BY <1>1
  <2>2. ThreatBefore(s[i], s[j]) \/ ThreatBefore(s[j], s[i])
    BY <2>1 DEF Increasing
  <2> QED BY <1>1, <2>2, ThreatOrder
<1>3. ASSUME NEW m \in 0 .. n
      PROVE  LET V == {s[i] : i \in 1 .. m} IN IsFiniteSet(V) /\ Cardinality(V) = m
  <2> DEFINE V == {s[i] : i \in 1 .. m}
             f == [i \in 1 .. m |-> s[i]]
  <2>1. m \in Nat /\ \A i \in 1 .. m : i \in 1 .. n
    BY <1>1
  <2>2. f \in Bijection(1 .. m, V)
    <3>1. f \in [1 .. m -> V] /\ \A v \in V : \E i \in 1 .. m : f[i] = v
      OBVIOUS
    <3>2. \A i, j \in 1 .. m : f[i] = f[j] => i = j
      BY <1>2, <2>1
    <3> QED BY <3>1, <3>2 DEF Bijection, Injection, Surjection, IsInjective
  <2>3. IsFiniteSet(1 .. m) /\ Cardinality(1 .. m) = m
    BY <2>1, FS_Interval
  <2>4. ExistsBijection(1 .. m, V)
    BY <2>2 DEF ExistsBijection
  <2> HIDE DEF V
  <2>5. IsFiniteSet(V) /\ Cardinality(V) = m
    BY <2>3, <2>4, FS_Bijection
  <2> QED BY <2>5 DEF V
<1>4. IsFiniteSet(S) /\ Cardinality(S) = n
  <2>1. S = {s[i] : i \in 1 .. n}
    BY <1>1
  <2>2. n \in 0 .. n
    BY <1>1
  <2> QED BY <1>3, <2>1, <2>2
<1>5. ASSUME NEW k \in 1 .. n PROVE s[k] \in S /\ Rank(s[k]) = k - 1
  <2>1. k - 1 \in 0 .. n /\ \A i \in 1 .. n : i \in 1 .. k - 1 <=> i < k
    BY <1>1
  <2>2. \A i \in 1 .. n : ThreatBefore(s[i], s[k]) <=> i < k
    <3> TAKE i \in 1 .. n
    <3>1. CASE i < k
      BY <3>1 DEF Increasing
    <3>2. CASE i = k
      BY <1>1, <3>2, ThreatOrder
    <3>3. CASE k < i
      <4>1. ThreatBefore(s[k], s[i])
        BY <3>3 DEF Increasing
      <4>2. s[i] \in Triples /\ s[k] \in Triples
        BY <1>1
      <4>3. ~ ThreatBefore(s[i], s[k])
        BY <4>1, <4>2, ThreatOrder
      <4> QED BY <1>1, <3>3, <4>3
    <3> QED BY <1>1, <3>1, <3>2, <3>3
  <2>3. \A z : z \in S /\ ThreatBefore(z, s[k]) <=> \E i \in 1 .. k - 1 : s[i] = z
    <3>1. \A i \in 1 .. k - 1 : i \in 1 .. n
      BY <1>1
    <3> QED BY <1>1, <2>1, <2>2, <3>1
  <2>4. {z \in S : ThreatBefore(z, s[k])} = {s[i] : i \in 1 .. k - 1}
    BY <2>3
  <2>5. Rank(s[k]) = k - 1
    BY <1>3, <2>1, <2>4
  <2> QED BY <1>1, <2>5
<1>6. \A x, y \in S : Rank(x) = Rank(y) => x = y
  BY <1>1, <1>4, ThreatRanks
<1>7. ThreatSeq(S) = [k \in 1 .. n |-> CHOOSE x \in S : Rank(x) = k - 1]
  BY <1>4 DEF ThreatSeq, SortedBy
<1> HIDE DEF Rank
<1>8. \A k \in 1 .. n : s[k] = CHOOSE x \in S : Rank(x) = k - 1
  BY <1>5, <1>6
<1>9. ThreatSeq(S) = s
  BY <1>1, <1>7, <1>8
<1> QED BY <1>4, <1>9 DEF S

LEMMA AppendIncreasing ==
  ASSUME NEW s \in Seq(Triples), Increasing(s), NEW x \in Triples,
         \A y \in ToSet(s) : ThreatBefore(y, x)
  PROVE  Increasing(Append(s, x))
<1> DEFINE t == Append(s, x)
<1>1. Len(t) = Len(s) + 1 /\ t[Len(s) + 1] = x /\ Len(s) \in Nat
      /\ \A i \in 1 .. Len(s) : t[i] = s[i]
  OBVIOUS
<1>2. \A i \in 1 .. Len(s) : ThreatBefore(s[i], x)
  BY InSeq
<1> HIDE DEF t
<1>3. Increasing(t)
  <2> SUFFICES ASSUME NEW i \in 1 .. Len(t), NEW j \in 1 .. Len(t), i < j PROVE ThreatBefore(t[i], t[j])
    BY DEF Increasing
  <2>1. i \in 1 .. Len(s)
    BY <1>1
  <2>2. CASE j \in 1 .. Len(s)
    BY <1>1, <2>1, <2>2 DEF Increasing
  <2>3. CASE j = Len(s) + 1
    BY <1>1, <1>2, <2>1, <2>3
  <2> QED BY <1>1, <2>2, <2>3
<1> QED BY <1>3 DEF t

\* Filtering keeps the order.
LEMMA AmongIncreasing ==
  ASSUME NEW s \in Seq(Triples), Increasing(s), NEW T
  PROVE  Increasing(Among(s, T))
<1> DEFINE n == Len(s)
<1>1. n \in Nat
  OBVIOUS
<1>2. PICK f : Keeps(s, T, f, n) /\ Among(s, T) = f[n]
  BY <1>1, AmongRecursion
<1>3. Keeps(s, T, f, n)
  BY <1>2
<1>4. \A m \in 0 .. n : KeptTo(Triples, s, T, f[m], m)
  BY <1>3, KeepsMembers
<1>5. \A k \in 0 .. n : f[k] = IF k = 0 THEN <<>>
                               ELSE IF s[k] \in T THEN Append(f[k - 1], s[k]) ELSE f[k - 1]
  BY <1>3 DEF Keeps
<1> DEFINE G == {m \in 0 .. n : Increasing(f[m])}
<1>6. 0 \in G
  <2>1. f[0] = <<>> /\ Len(f[0]) = 0 /\ 0 \in 0 .. n
    BY <1>1, <1>5, NoMembers
  <2>2. \A i : i \notin 1 .. 0
    OBVIOUS
  <2> QED BY <2>1, <2>2 DEF Increasing
<1>7. ASSUME NEW m \in 0 .. n - 1, m \in G PROVE m + 1 \in G
  <2>1. m + 1 \in 0 .. n /\ m + 1 # 0 /\ (m + 1) - 1 = m /\ m + 1 \in 1 .. n /\ m \in 0 .. n
    BY <1>1
  <2>2. f[m + 1] = IF s[m + 1] \in T THEN Append(f[m], s[m + 1]) ELSE f[m]
    BY <1>5, <2>1
  <2>3. f[m] \in Seq(Triples) /\ \A x \in ToSet(f[m]) : \E i \in 1 .. m : s[i] = x
    BY <1>4, <2>1 DEF KeptTo
  <2>4. Increasing(f[m])
    BY <1>7
  <2>5. CASE s[m + 1] \in T
    <3>1. s[m + 1] \in Triples
      BY <2>1
    <3>2. \A i \in 1 .. m : i \in 1 .. n /\ i < m + 1
      BY <1>1
    <3>3. \A i \in 1 .. m : ThreatBefore(s[i], s[m + 1])
      BY <2>1, <3>2 DEF Increasing
    <3>4. Increasing(Append(f[m], s[m + 1]))
      BY <2>3, <2>4, <3>1, <3>3, AppendIncreasing
    <3> QED BY <2>1, <2>2, <2>5, <3>4
  <2>6. CASE s[m + 1] \notin T
    BY <2>1, <2>2, <2>4, <2>6
  <2> QED BY <2>5, <2>6
<1> HIDE DEF G
<1>8. \A m \in 0 .. n : m \in G
  BY <1>1, <1>6, <1>7, Stepwise
<1>9. n \in G
  BY <1>1, <1>8
<1> QED BY <1>2, <1>9 DEF G

LEMMA ConcatIncreasing ==
  ASSUME NEW a \in Seq(Triples), NEW b \in Seq(Triples), Increasing(a), Increasing(b),
         \A x \in ToSet(a), y \in ToSet(b) : ThreatBefore(x, y)
  PROVE  Increasing(a \o b)
<1> DEFINE c == a \o b
<1>1. /\ Len(c) = Len(a) + Len(b) /\ Len(a) \in Nat /\ Len(b) \in Nat
      /\ \A i \in 1 .. Len(c) : c[i] = IF i <= Len(a) THEN a[i] ELSE b[i - Len(a)]
  BY ConcatMembers
<1>2. \A i \in 1 .. Len(a), j \in 1 .. Len(b) : ThreatBefore(a[i], b[j])
  BY InSeq
<1> HIDE DEF c
<1>3. Increasing(c)
  <2> SUFFICES ASSUME NEW i \in 1 .. Len(c), NEW j \in 1 .. Len(c), i < j PROVE ThreatBefore(c[i], c[j])
    BY DEF Increasing
  <2>1. CASE j <= Len(a)
    BY <1>1, <2>1 DEF Increasing
  <2>2. CASE i <= Len(a) /\ ~ (j <= Len(a))
    BY <1>1, <1>2, <2>2
  <2>3. CASE ~ (i <= Len(a))
    BY <1>1, <2>3 DEF Increasing
  <2> QED BY <2>1, <2>2, <2>3
<1> QED BY <1>3 DEF c

\* The facts of a condition as a sequence.
LEMMA FactSeqType ==
  ASSUME NEW fs, IsFiniteSet(fs), fs \subseteq Nat \X Nat
  PROVE  FactSeq(fs) \in Seq(fs)
<1> DEFINE R == {x \in fs \X fs : FactBefore(x[1], x[2])}
           n == Cardinality(fs)
<1>1. \A x, y \in fs : <<x, y>> \in R <=> FactBefore(x, y)
  OBVIOUS
<1>2. \A x \in fs : RankIn(fs, R, x) = Cardinality({z \in fs : FactBefore(z, x)})
  <2> TAKE x \in fs
  <2>1. {y \in fs : <<y, x>> \in R} = {y \in fs : FactBefore(y, x)}
    BY <1>1
  <2> QED BY <2>1 DEF RankIn
<1>3. TotalOn(fs, R)
  <2>1. \A x \in fs : ~ FactBefore(x, x)
    BY DEF FactBefore
  <2>2. \A x, y, z \in fs : FactBefore(x, y) /\ FactBefore(y, z) => FactBefore(x, z)
    BY DEF FactBefore
  <2>3. \A x, y \in fs : x # y => FactBefore(x, y) \/ FactBefore(y, x)
    BY DEF FactBefore
  <2> QED BY <1>1, <2>1, <2>2, <2>3 DEF TotalOn
<1> HIDE DEF R
<1>4. n \in Nat /\ \A k \in 1 .. n : \E x \in fs : RankIn(fs, R, x) = k - 1
  BY <1>3, Ranked
<1>5. \A k \in 1 .. n : \E x \in fs : Cardinality({z \in fs : FactBefore(z, x)}) = k - 1
  BY <1>2, <1>4
<1>6. FactSeq(fs) = [k \in 1 .. n |-> CHOOSE x \in fs : Cardinality({z \in fs : FactBefore(z, x)}) = k - 1]
  BY DEF FactSeq, SortedBy
<1>7. \A k \in 1 .. n : FactSeq(fs)[k] \in fs
  BY <1>5, <1>6
<1>8. FactSeq(fs) = [k \in 1 .. n |-> FactSeq(fs)[k]]
  BY <1>6
<1> HIDE DEF n
<1> DEFINE g == FactSeq(fs)
<1>9. /\ n \in Nat /\ g = [k \in 1 .. n |-> g[k]]
      /\ \A k \in 1 .. n : g[k] \in fs
  BY <1>4, <1>7, <1>8
<1> HIDE DEF g
<1>10. g \in [1 .. n -> fs]
  BY <1>9
<1>11. g \in Seq(fs)
  BY <1>9, <1>10
<1> QED BY <1>11 DEF g

LEMMA BoxFinite ==
  ASSUME NEW a \in Nat, NEW b \in Nat, NEW c \in Nat
  PROVE  IsFiniteSet([link : 1 .. a, step : 1 .. b, effect : 1 .. c])
<1> DEFINE B == [link : 1 .. a, step : 1 .. b, effect : 1 .. c]
           Q == ((1 .. a) \X (1 .. b)) \X (1 .. c)
           f == [x \in Q |-> [link |-> x[1][1], step |-> x[1][2], effect |-> x[2]]]
<1>1. IsFiniteSet(1 .. a) /\ IsFiniteSet(1 .. b) /\ IsFiniteSet(1 .. c)
  BY FS_Interval
<1>2. IsFiniteSet(Q)
  BY <1>1, FS_Product
<1>3. f \in Surjection(Q, B)
  <2>1. f \in [Q -> B]
    OBVIOUS
  <2>2. ASSUME NEW t \in B PROVE \E x \in Q : f[x] = t
    <3>1. <<<<t.link, t.step>>, t.effect>> \in Q
      OBVIOUS
    <3>2. f[<<<<t.link, t.step>>, t.effect>>] = t
      BY <3>1
    <3> QED BY <3>1, <3>2
  <2> QED BY <2>1, <2>2 DEF Surjection
<1> QED BY <1>2, <1>3, FS_Surjection

-----------------------------------------------------------------------------
(* Plans.                                                                   *)

IsPlannerFor(P) == IsTask(P.T) /\ IsPlanner(P, P.T, P.prune)

Producers(p) == {InitId} \cup PlanSteps(p)
Consumers(p) == {GoalId} \cup PlanSteps(p)

Links(P, p) == [from : Producers(p), to : Consumers(p), fact : Facts(P.T), effect : Nat]
Opens(P, p) == [step : Consumers(p), fact : Facts(P.T)]

\* What a threat names: a link, and an effect or the precondition of a step.
Threats(P, p) ==
  {t \in [link : DOMAIN p.links, step : PlanSteps(p), effect : 1 .. NoEffect] :
     t.effect = NoEffect \/ t.effect \in DOMAIN Op(P, p, t.step).effs}

Disjunctions(P, p) ==
  [threat : Threats(P, p), promote : PlanSteps(p) \X PlanSteps(p), demote : PlanSteps(p) \X PlanSteps(p)]

HasShape(p) ==
  p = [ops |-> p.ops, links |-> p.links, ord |-> p.ord, threats |-> p.threats, cost |-> p.cost,
       suppressed |-> p.suppressed, disjunctions |-> p.disjunctions, opens |-> p.opens]

\* An effect committed never to fire is a conditional one.
Suppressible(P, p) ==
  {x \in PlanSteps(p) \X Nat :
     x[2] \in DOMAIN Op(P, p, x[1]).effs /\ Eff(P, p, x[1], x[2]).cond # {}}

OrdersPlan(p) == IsOrderings(p.ord) /\ IsStrictOrder(p.ord) /\ p.ord.high = Len(p.ops)

IsPlan(P, p) ==
  /\ HasShape(p)
  /\ p.ops \in Seq(Operators(P.T)) /\ Len(p.ops) <= MaxSteps
  /\ OrdersPlan(p)
  /\ p.links \in Seq(Links(P, p)) /\ p.opens \in Seq(Opens(P, p))
  /\ p.suppressed \subseteq Suppressible(P, p)
  /\ p.threats \in Seq(Threats(P, p))
  /\ p.disjunctions \in Seq(Disjunctions(P, p))

-----------------------------------------------------------------------------
(* The cache of threats.                                                    *)

\* A reason nothing but an ordering removes stands for all others of a pair.
CertainDeletes(P, p, s, k) ==
  {e \in DOMAIN Op(P, p, s).effs :
     Eff(P, p, s, e).cond = {} /\ EffectDeletes(P, Eff(P, p, s, e), p.links[k].fact)}

Leading(P, p, t) ==
  LET certain == CertainDeletes(P, p, t.step, t.link) IN
  IF certain # {} THEN t.effect = Min(certain)
  ELSE (t.effect = NoEffect) = PreconditionDeletes(P, p.ops[t.step], p.links[t.link].fact)

LEMMA MinMember ==
  ASSUME NEW S, S \subseteq Nat, S # {}
  PROVE  Min(S) \in S
<1>1. \E m \in S : \A k \in S : m <= k
  BY LeastNatural
<1> QED BY <1>1 DEF Min

LEMMA PlanSizes ==
  ASSUME NEW P, NEW p, IsPlan(P, p)
  PROVE  /\ Len(p.ops) \in Nat /\ PlanSteps(p) = 1 .. Len(p.ops)
         /\ Len(p.links) \in Nat /\ DOMAIN p.links = 1 .. Len(p.links)
         /\ RealSteps(p.ord) = PlanSteps(p)
         /\ \A s \in PlanSteps(p) : p.ops[s] \in Operators(P.T)
         /\ \A k \in DOMAIN p.links : p.links[k] \in Links(P, p)
         /\ Threats(P, p) \subseteq Triples /\ IsFiniteSet(Threats(P, p))
<1>1. p.ops \in Seq(Operators(P.T)) /\ p.links \in Seq(Links(P, p)) /\ p.ord.high = Len(p.ops)
  BY DEF IsPlan, OrdersPlan
<1>2. /\ Len(p.ops) \in Nat /\ PlanSteps(p) = 1 .. Len(p.ops)
      /\ Len(p.links) \in Nat /\ DOMAIN p.links = 1 .. Len(p.links)
      /\ \A s \in PlanSteps(p) : p.ops[s] \in Operators(P.T)
      /\ \A k \in DOMAIN p.links : p.links[k] \in Links(P, p)
  BY <1>1 DEF PlanSteps
<1>3. RealSteps(p.ord) = PlanSteps(p)
  BY <1>1, <1>2 DEF RealSteps
<1>4. NoEffect \in Nat
  BY DEF NoEffect
<1>5. IsFiniteSet([link : 1 .. Len(p.links), step : 1 .. Len(p.ops), effect : 1 .. NoEffect])
  BY <1>2, <1>4, BoxFinite
<1>6. Threats(P, p) \in SUBSET [link : 1 .. Len(p.links), step : 1 .. Len(p.ops), effect : 1 .. NoEffect]
  BY <1>2 DEF Threats
<1>7. IsFiniteSet(Threats(P, p))
  BY <1>5, <1>6, FS_Subset
<1>8. \A n \in Nat : 1 .. n \subseteq Nat
  OBVIOUS
<1>9. Threats(P, p) \subseteq Triples
  BY <1>2, <1>4, <1>6, <1>8 DEF Triples
<1> QED BY <1>2, <1>3, <1>7, <1>9

LEMMA UnconditionalFires ==
  ASSUME NEW P, NEW p, IsPlan(P, p), NEW s \in PlanSteps(p),
         NEW e \in DOMAIN Op(P, p, s).effs, Eff(P, p, s, e).cond = {}
  PROVE  ~ EffectCannotFire(P, p, s, e)
<1>1. <<s, e>> \notin p.suppressed
  BY DEF IsPlan, Suppressible
<1> QED BY <1>1 DEF EffectCannotFire

LEMMA EffectNumbers ==
  ASSUME NEW P, IsPlannerFor(P), NEW p, IsPlan(P, p), NEW s \in PlanSteps(p)
  PROVE  DOMAIN Op(P, p, s).effs \subseteq 1 .. NoEffect - 1
  BY PlanSizes DEF IsPlannerFor, IsTask, Op

\* The search finds a pair's threats: the leading ones that are active.
LEMMA PairThreatsExact ==
  ASSUME NEW P, IsPlannerFor(P), NEW p, IsPlan(P, p),
         NEW s \in PlanSteps(p), NEW k \in DOMAIN p.links
  PROVE  \A t : t \in PairThreats(P, p, s, k)
                <=> /\ t \in Threats(P, p) /\ t.link = k /\ t.step = s
                    /\ Leading(P, p, t) /\ ThreatActive(P, p, t)
<1> DEFINE l == p.links[k]
           Firing == {e \in DOMAIN Op(P, p, s).effs :
                        EffectDeletes(P, Eff(P, p, s, e), l.fact) /\ ~ EffectCannotFire(P, p, s, e)}
           certain == {e \in Firing : Eff(P, p, s, e).cond = {}}
           Reasons == IF certain # {} THEN {Min(certain)}
                      ELSE IF PreconditionDeletes(P, p.ops[s], l.fact) THEN {NoEffect} ELSE Firing
           outside == s \in {l.from, l.to} \/ ~ CanBeInside(p, s, l)
           T(e) == [link |-> k, step |-> s, effect |-> e]
<1>1. PairThreats(P, p, s, k) = IF outside THEN {} ELSE {T(e) : e \in Reasons}
  BY DEF PairThreats
<1>2. certain = CertainDeletes(P, p, s, k)
  BY UnconditionalFires DEF CertainDeletes
<1>3. DOMAIN Op(P, p, s).effs \subseteq 1 .. NoEffect - 1
  BY EffectNumbers
<1>4. certain \subseteq Nat /\ NoEffect \notin DOMAIN Op(P, p, s).effs /\ certain \subseteq Firing
      /\ Firing \subseteq DOMAIN Op(P, p, s).effs
  BY <1>3 DEF NoEffect
<1>5. certain # {} => Min(certain) \in certain
  BY <1>4, MinMember
<1>16. \A e : T(e).effect = e /\ T(e).link = k /\ T(e).step = s
  OBVIOUS
<1>6. ASSUME NEW e PROVE T(e) \in Threats(P, p) <=> e = NoEffect \/ e \in DOMAIN Op(P, p, s).effs
  <2>1. e = NoEffect \/ e \in DOMAIN Op(P, p, s).effs => e \in 1 .. NoEffect
    BY <1>3 DEF NoEffect
  <2> QED BY <2>1 DEF Threats
<1>7. ASSUME NEW e
      PROVE  ThreatActive(P, p, T(e)) <=>
               ~ outside /\ IF e = NoEffect THEN PreconditionDeletes(P, p.ops[s], l.fact)
                            ELSE EffectDeletes(P, Eff(P, p, s, e), l.fact) /\ ~ EffectCannotFire(P, p, s, e)
  BY DEF ThreatActive
<1>8. ASSUME NEW e
      PROVE  Leading(P, p, T(e)) <=>
               IF certain # {} THEN e = Min(certain)
               ELSE (e = NoEffect) = PreconditionDeletes(P, p.ops[s], l.fact)
  BY <1>2 DEF Leading
<1>9. \A t \in Threats(P, p) : t.link = k /\ t.step = s => t = T(t.effect)
  BY DEF Threats
<1>10. ASSUME NEW e
       PROVE  T(e) \in PairThreats(P, p, s, k) <=> ~ outside /\ e \in Reasons
  <2> HIDE DEF T, outside, Reasons
  <2>1. CASE outside
    BY <1>1, <2>1
  <2>2. CASE ~ outside
    <3>1. T(e) \in PairThreats(P, p, s, k) <=> \E d \in Reasons : T(e) = T(d)
      BY <1>1, <2>2
    <3>2. \A d : T(e) = T(d) => e = d
      BY <1>16
    <3> QED BY <2>2, <3>1, <3>2
  <2> QED BY <2>1, <2>2
<1>13. PreconditionDeletes(P, p.ops[s], l.fact) \in BOOLEAN
  BY DEF PreconditionDeletes
<1>11. ASSUME NEW e
       PROVE  ~ outside /\ e \in Reasons <=>
                T(e) \in Threats(P, p) /\ Leading(P, p, T(e)) /\ ThreatActive(P, p, T(e))
  <2> HIDE DEF outside, T
  <2>1. CASE certain # {}
    <3>1. Reasons = {Min(certain)} /\ Min(certain) \in DOMAIN Op(P, p, s).effs /\ Min(certain) # NoEffect
          /\ Min(certain) \in Firing
      BY <1>4, <1>5, <2>1
    <3> QED BY <1>6, <1>7, <1>8, <2>1, <3>1
  <2>2. CASE certain = {} /\ PreconditionDeletes(P, p.ops[s], l.fact)
    <3>1. Reasons = {NoEffect}
      BY <2>2
    <3> QED BY <1>6, <1>7, <1>8, <1>13, <2>2, <3>1
  <2>3. CASE certain = {} /\ ~ PreconditionDeletes(P, p.ops[s], l.fact)
    <3>1. Reasons = Firing
      BY <2>3
    <3>2. Leading(P, p, T(e)) <=> e # NoEffect
      BY <1>8, <1>13, <2>3
    <3> QED BY <1>4, <1>6, <1>7, <2>3, <3>1, <3>2
  <2> QED BY <2>1, <2>2, <2>3
<1>12. ASSUME NEW t \in PairThreats(P, p, s, k) PROVE t = T(t.effect) /\ t.link = k /\ t.step = s
  <2> HIDE DEF T, outside, Reasons
  <2>1. \E e : t = T(e)
    BY <1>1
  <2> QED BY <1>16, <2>1
<1> HIDE DEF T, outside, Reasons
<1>14. ASSUME NEW t, t \in PairThreats(P, p, s, k)
       PROVE  /\ t \in Threats(P, p) /\ t.link = k /\ t.step = s
              /\ Leading(P, p, t) /\ ThreatActive(P, p, t)
  BY <1>10, <1>11, <1>12, <1>14
<1>15. ASSUME NEW t, t \in Threats(P, p), t.link = k, t.step = s, Leading(P, p, t), ThreatActive(P, p, t)
       PROVE  t \in PairThreats(P, p, s, k)
  BY <1>9, <1>10, <1>11, <1>15
<1> QED BY <1>14, <1>15

\* q keeps what p says of p's steps and links, and may say more of them.
Grows(p, q) ==
  /\ PlanSteps(p) \subseteq PlanSteps(q) /\ \A s \in PlanSteps(p) : q.ops[s] = p.ops[s]
  /\ DOMAIN p.links \subseteq DOMAIN q.links /\ \A k \in DOMAIN p.links : q.links[k] = p.links[k]
  /\ p.suppressed \subseteq q.suppressed
  /\ \A s \in PlanSteps(p) : Commitments(p, s) \subseteq Commitments(q, s)
  /\ \A s \in PlanSteps(p) : p.ord.succ[s] \subseteq q.ord.succ[s]

\* The threats the cache answers for: in a task with axioms, those no
\* commitment disarms.
Minded(P, p, t) == P.T.axioms = <<>> \/ Unguarded(P, p, t)

Pairs(p) == (DOMAIN p.links) \X PlanSteps(p)

Known(P, p, R) == {t \in Threats(P, p) : <<t.link, t.step>> \in R}

\* The cache holds, of the pairs R, leading threats only and every active one.
Cached(P, p, R) ==
  /\ Increasing(p.threats)
  /\ ToSet(p.threats) \subseteq Known(P, p, R)
  /\ \A t \in Known(P, p, R) : Minded(P, p, t) =>
       /\ t \in ToSet(p.threats) => Leading(P, p, t)
       /\ Leading(P, p, t) /\ ThreatActive(P, p, t) => t \in ToSet(p.threats)

Tight(P, p) == \A t \in ToSet(p.threats) : Minded(P, p, t) => ThreatActive(P, p, t)

LEMMA GrownThreats ==
  ASSUME NEW P, NEW p, IsPlan(P, p), NEW q, IsPlan(P, q), Grows(p, q), NEW t \in Threats(P, p)
  PROVE  /\ t \in Threats(P, q) /\ Minded(P, q, t) = Minded(P, p, t)
         /\ Leading(P, q, t) = Leading(P, p, t)
         /\ ThreatActive(P, q, t) => ThreatActive(P, p, t)
<1> DEFINE l == p.links[t.link]
           s == t.step
<1>1. t.link \in DOMAIN p.links /\ s \in PlanSteps(p) /\ t.effect \in 1 .. NoEffect
      /\ t = [link |-> t.link, step |-> t.step, effect |-> t.effect]
      /\ (t.effect = NoEffect \/ t.effect \in DOMAIN Op(P, p, s).effs)
  BY DEF Threats
<1>2. q.links[t.link] = l /\ q.ops[s] = p.ops[s] /\ t.link \in DOMAIN q.links /\ s \in PlanSteps(q)
  BY <1>1 DEF Grows
<1>3. Op(P, q, s) = Op(P, p, s) /\ \A e : Eff(P, q, s, e) = Eff(P, p, s, e)
  BY <1>2 DEF Op, Eff
<1>4. t \in Threats(P, q)
  BY <1>1, <1>2, <1>3 DEF Threats
<1>5. Minded(P, q, t) = Minded(P, p, t)
  BY <1>3 DEF Minded, Unguarded
<1>6. CertainDeletes(P, q, s, t.link) = CertainDeletes(P, p, s, t.link)
  BY <1>2, <1>3 DEF CertainDeletes
<1>7. Leading(P, q, t) = Leading(P, p, t)
  BY <1>2, <1>6 DEF Leading
<1>8. \A a, b : PossiblyBefore(q.ord, a, b) /\ (b \in PlanSteps(p) \/ a = InitId \/ b = GoalId)
                => PossiblyBefore(p.ord, a, b)
  <2> SUFFICES ASSUME NEW a, NEW b, PossiblyBefore(q.ord, a, b),
                      b \in PlanSteps(p) \/ a = InitId \/ b = GoalId
               PROVE  PossiblyBefore(p.ord, a, b)
    OBVIOUS
  <2>1. OrderedBefore(p.ord, b, a) /\ b \in PlanSteps(p) => OrderedBefore(q.ord, b, a)
    <3>1. RealSteps(p.ord) = PlanSteps(p) /\ RealSteps(q.ord) = PlanSteps(q)
      BY PlanSizes
    <3> QED BY <3>1 DEF OrderedBefore, Grows
  <2> QED BY <2>1 DEF PossiblyBefore
<1>9. l.from \in {InitId} \cup PlanSteps(p) /\ l.to \in {GoalId} \cup PlanSteps(p)
  BY <1>1, PlanSizes DEF Links, Producers, Consumers
<1>10. CanBeInside(q, s, l) => CanBeInside(p, s, l)
  BY <1>1, <1>8, <1>9 DEF CanBeInside
<1>11. \A e : EffectCannotFire(P, p, s, e) => EffectCannotFire(P, q, s, e)
  BY <1>1, <1>3 DEF EffectCannotFire, StepExcludes, Grows
<1>12. ThreatActive(P, q, t) => ThreatActive(P, p, t)
  BY <1>2, <1>3, <1>10, <1>11 DEF ThreatActive
<1> QED BY <1>4, <1>5, <1>7, <1>12

LEMMA GrownKnown ==
  ASSUME NEW P, NEW p, IsPlan(P, p), NEW q, IsPlan(P, q), Grows(p, q), NEW R, R \subseteq Pairs(p)
  PROVE  Known(P, q, R) = Known(P, p, R)
<1>1. ASSUME NEW t \in Known(P, q, R) PROVE t \in Known(P, p, R)
  <2>4. t \in Threats(P, q) /\ <<t.link, t.step>> \in R
    BY <1>1 DEF Known
  <2>1. t \in Threats(P, q) /\ t.link \in DOMAIN p.links /\ t.step \in PlanSteps(p)
    BY <2>4 DEF Pairs
  <2>2. q.ops[t.step] = p.ops[t.step]
    BY <2>1 DEF Grows
  <2>3. Op(P, q, t.step) = Op(P, p, t.step)
    BY <2>2 DEF Op
  <2>5. t \in Threats(P, p)
    BY <2>1, <2>3 DEF Threats
  <2> QED BY <2>4, <2>5 DEF Known
<1>2. ASSUME NEW t \in Known(P, p, R) PROVE t \in Known(P, q, R)
  BY <1>2, GrownThreats DEF Known
<1> QED BY <1>1, <1>2

\* What tightens a plan keeps every active threat in the cache.
LEMMA CachedGrows ==
  ASSUME NEW P, NEW p, IsPlan(P, p), NEW q, IsPlan(P, q), Grows(p, q), q.threats = p.threats,
         NEW R, R \subseteq Pairs(p), Cached(P, p, R)
  PROVE  Cached(P, q, R) /\ R \subseteq Pairs(q)
<1>1. Known(P, q, R) = Known(P, p, R)
  BY GrownKnown
<1>2. \A t \in Known(P, p, R) :
        /\ Minded(P, q, t) = Minded(P, p, t) /\ Leading(P, q, t) = Leading(P, p, t)
        /\ ThreatActive(P, q, t) => ThreatActive(P, p, t)
  BY GrownThreats DEF Known
<1>3. R \subseteq Pairs(q)
  <2>1. DOMAIN p.links \subseteq DOMAIN q.links /\ PlanSteps(p) \subseteq PlanSteps(q)
    BY DEF Grows
  <2>2. Pairs(p) \subseteq Pairs(q)
    BY <2>1 DEF Pairs
  <2> QED BY <2>2
<1> QED BY <1>1, <1>2, <1>3 DEF Cached

SameRefinement(p, q) ==
  /\ q.ops = p.ops /\ q.links = p.links /\ q.opens = p.opens
  /\ q.ord = p.ord /\ q.suppressed = p.suppressed

LEMMA SameThreats ==
  ASSUME NEW P, NEW p, NEW q, SameRefinement(p, q)
  PROVE  /\ Threats(P, q) = Threats(P, p) /\ Links(P, q) = Links(P, p) /\ Opens(P, q) = Opens(P, p)
         /\ Suppressible(P, q) = Suppressible(P, p) /\ Disjunctions(P, q) = Disjunctions(P, p)
         /\ PlanSteps(q) = PlanSteps(p) /\ Pairs(q) = Pairs(p)
         /\ \A R : Known(P, q, R) = Known(P, p, R)
         /\ \A t : /\ Minded(P, q, t) = Minded(P, p, t) /\ Leading(P, q, t) = Leading(P, p, t)
                   /\ ThreatActive(P, q, t) = ThreatActive(P, p, t)
<1>1. /\ PlanSteps(q) = PlanSteps(p) /\ \A s : Op(P, q, s) = Op(P, p, s)
      /\ \A s, e : Eff(P, q, s, e) = Eff(P, p, s, e)
  BY DEF SameRefinement, PlanSteps, Op, Eff
<1>2. Threats(P, q) = Threats(P, p)
  BY <1>1 DEF SameRefinement, Threats
<1>3. Links(P, q) = Links(P, p) /\ Opens(P, q) = Opens(P, p) /\ Suppressible(P, q) = Suppressible(P, p)
      /\ Disjunctions(P, q) = Disjunctions(P, p) /\ Pairs(q) = Pairs(p)
  BY <1>1, <1>2 DEF Links, Opens, Suppressible, Disjunctions, Producers, Consumers, Pairs, SameRefinement
<1>4. \A R : Known(P, q, R) = Known(P, p, R)
  BY <1>2 DEF Known
<1>5. \A s : Commitments(q, s) = Commitments(p, s)
  BY DEF Commitments, SameRefinement
<1>6. \A s, e : EffectCannotFire(P, q, s, e) = EffectCannotFire(P, p, s, e)
  BY <1>1, <1>5 DEF EffectCannotFire, StepExcludes, SameRefinement
<1>7. \A s, k : CertainDeletes(P, q, s, k) = CertainDeletes(P, p, s, k)
  BY <1>1 DEF CertainDeletes, SameRefinement
<1>8. ASSUME NEW t
      PROVE  /\ Minded(P, q, t) = Minded(P, p, t) /\ Leading(P, q, t) = Leading(P, p, t)
             /\ ThreatActive(P, q, t) = ThreatActive(P, p, t)
  <2>1. Minded(P, q, t) = Minded(P, p, t)
    BY <1>1 DEF Minded, Unguarded
  <2>2. Leading(P, q, t) = Leading(P, p, t)
    BY <1>7 DEF Leading, SameRefinement
  <2>3. ThreatActive(P, q, t) = ThreatActive(P, p, t)
    BY <1>1, <1>6 DEF ThreatActive, CanBeInside, SameRefinement
  <2> QED BY <2>1, <2>2, <2>3
<1> QED BY <1>1, <1>2, <1>3, <1>4, <1>8

\* A plan with other threats of its own.
LEMMA NewThreats ==
  ASSUME NEW P, NEW p, IsPlan(P, p), NEW ts \in Seq(Threats(P, p)), NEW q,
         q = [p EXCEPT !.threats = ts]
  PROVE  /\ IsPlan(P, q) /\ SameRefinement(p, q) /\ q.threats = ts
         /\ q.disjunctions = p.disjunctions /\ q.cost = p.cost
<1>1. HasShape(p)
  BY DEF IsPlan
<1>2. /\ HasShape(q) /\ SameRefinement(p, q) /\ q.threats = ts
      /\ q.disjunctions = p.disjunctions /\ q.cost = p.cost
  BY <1>1 DEF HasShape, SameRefinement
<1>3. /\ Threats(P, q) = Threats(P, p) /\ Links(P, q) = Links(P, p) /\ Opens(P, q) = Opens(P, p)
      /\ Suppressible(P, q) = Suppressible(P, p) /\ Disjunctions(P, q) = Disjunctions(P, p)
  BY <1>2, SameThreats
<1>4. IsPlan(P, q)
  BY <1>2, <1>3 DEF IsPlan, OrdersPlan, SameRefinement
<1> QED BY <1>2, <1>4

LEMMA RetainTightens ==
  ASSUME NEW P, NEW p, IsPlan(P, p), NEW R, Cached(P, p, R)
  PROVE  LET q == RetainActive(P, p) IN
         /\ IsPlan(P, q) /\ SameRefinement(p, q) /\ q.disjunctions = p.disjunctions /\ q.cost = p.cost
         /\ Cached(P, q, R) /\ Tight(P, q)
<1> DEFINE A == {t \in ToSet(p.threats) : ThreatActive(P, p, t)}
           ts == Among(p.threats, A)
           q == RetainActive(P, p)
<1>1. p.threats \in Seq(Threats(P, p)) /\ p.threats \in Seq(Triples)
  BY PlanSizes DEF IsPlan
<1>2. ts \in Seq(Threats(P, p)) /\ ToSet(ts) = A
  BY <1>1, AmongMembers
<1>3. Increasing(ts)
  BY <1>1, AmongIncreasing DEF Cached
<1>4. q = [p EXCEPT !.threats = ts]
  BY DEF RetainActive, IsPlan, HasShape
<1> HIDE DEF q, ts, A
<1>5. IsPlan(P, q) /\ SameRefinement(p, q) /\ q.threats = ts /\ q.disjunctions = p.disjunctions /\ q.cost = p.cost
  BY <1>2, <1>4, NewThreats
<1>6. /\ Known(P, q, R) = Known(P, p, R)
      /\ \A t : /\ Minded(P, q, t) = Minded(P, p, t) /\ Leading(P, q, t) = Leading(P, p, t)
                /\ ThreatActive(P, q, t) = ThreatActive(P, p, t)
  BY <1>5, SameThreats
<1>7. \A t : t \in ToSet(q.threats) <=> t \in ToSet(p.threats) /\ ThreatActive(P, p, t)
  BY <1>2, <1>5 DEF A
<1>8. Cached(P, q, R)
  BY <1>3, <1>5, <1>6, <1>7 DEF Cached
<1>9. Tight(P, q)
  BY <1>6, <1>7 DEF Tight
<1> QED BY <1>5, <1>8, <1>9 DEF q

LEMMA LinkThreatsAdded ==
  ASSUME NEW P, IsPlannerFor(P), NEW p, IsPlan(P, p), NEW k \in DOMAIN p.links, k = Len(p.links),
         NEW R, \A a, b : <<a, b>> \in R => a < k, Cached(P, p, R), Tight(P, p)
  PROVE  LET q == AddLinkThreats(P, p) IN
         /\ IsPlan(P, q) /\ SameRefinement(p, q) /\ q.disjunctions = p.disjunctions /\ q.cost = p.cost
         /\ Cached(P, q, R \cup ({k} \X PlanSteps(p))) /\ Tight(P, q)
<1> DEFINE N == UNION {PairThreats(P, p, s, k) : s \in PlanSteps(p)}
           new == ThreatSeq(N)
           ts == p.threats \o new
           q == AddLinkThreats(P, p)
           All == R \cup ({k} \X PlanSteps(p))
<1>1. \A t : t \in N <=> t \in Threats(P, p) /\ t.link = k /\ Leading(P, p, t) /\ ThreatActive(P, p, t)
  <2>1. \A t \in Threats(P, p) : t.step \in PlanSteps(p)
    BY DEF Threats
  <2>2. ASSUME NEW s \in PlanSteps(p), NEW t
        PROVE  t \in PairThreats(P, p, s, k)
                 <=> /\ t \in Threats(P, p) /\ t.link = k /\ t.step = s
                     /\ Leading(P, p, t) /\ ThreatActive(P, p, t)
    BY PairThreatsExact
  <2>3. \A t : t \in N <=> \E s \in PlanSteps(p) : t \in PairThreats(P, p, s, k)
    OBVIOUS
  <2> HIDE DEF N
  <2> QED BY <2>1, <2>2, <2>3
<1> HIDE DEF N
<1>2. N \subseteq Threats(P, p) /\ N \subseteq Triples /\ IsFiniteSet(N)
  <2>1. N \in SUBSET Threats(P, p)
    BY <1>1
  <2>2. Threats(P, p) \subseteq Triples /\ IsFiniteSet(Threats(P, p))
    BY PlanSizes
  <2> QED BY <2>1, <2>2, FS_Subset
<1>3. new \in Seq(N) /\ ToSet(new) = N /\ Increasing(new)
  BY <1>2, SortedThreats
<1>4. new \in Seq(Threats(P, p)) /\ new \in Seq(Triples)
  BY <1>2, <1>3
<1>5. p.threats \in Seq(Threats(P, p)) /\ p.threats \in Seq(Triples) /\ Increasing(p.threats)
  BY PlanSizes DEF IsPlan, Cached
<1> HIDE DEF new
<1>6. ts \in Seq(Threats(P, p)) /\ ToSet(ts) = ToSet(p.threats) \cup N
  BY <1>3, <1>4, <1>5, ConcatMembers
<1>7. Increasing(ts)
  <2>1. \A x \in ToSet(p.threats) : x.link < k
    BY DEF Cached, Known
  <2>2. \A x \in ToSet(p.threats), y \in ToSet(new) : ThreatBefore(x, y)
    BY <1>1, <1>3, <2>1 DEF ThreatBefore
  <2> QED BY <1>3, <1>4, <1>5, <2>2, ConcatIncreasing
<1>8. q = [p EXCEPT !.threats = ts]
  BY DEF AddLinkThreats, IsPlan, HasShape, new, N
<1> HIDE DEF q, ts, All
<1>9. IsPlan(P, q) /\ SameRefinement(p, q) /\ q.threats = ts /\ q.disjunctions = p.disjunctions /\ q.cost = p.cost
  BY <1>6, <1>8, NewThreats
<1>10. /\ Known(P, q, All) = Known(P, p, All)
       /\ \A t : /\ Minded(P, q, t) = Minded(P, p, t) /\ Leading(P, q, t) = Leading(P, p, t)
                 /\ ThreatActive(P, q, t) = ThreatActive(P, p, t)
  BY <1>9, SameThreats
<1>11. \A t \in Threats(P, p) : t.step \in PlanSteps(p)
  BY DEF Threats
<1>12. \A t : t \in Known(P, p, All) <=> t \in Known(P, p, R) \/ (t \in Threats(P, p) /\ t.link = k)
  <2>1. \A t : <<t.link, t.step>> \in All <=> <<t.link, t.step>> \in R \/ (t.link = k /\ t.step \in PlanSteps(p))
    BY DEF All
  <2> QED BY <1>11, <2>1 DEF Known
<1>13. \A t \in Known(P, p, R) : t.link # k
  <2>1. \A a, b : <<a, b>> \in R => a # k
    BY PlanSizes
  <2> QED BY <2>1 DEF Known
<1>14. Cached(P, q, All)
  <2>1. ToSet(q.threats) \subseteq Known(P, p, All)
    BY <1>1, <1>6, <1>9, <1>12 DEF Cached
  <2>2. ASSUME NEW t \in Known(P, p, All), Minded(P, p, t)
        PROVE  /\ t \in ToSet(q.threats) => Leading(P, p, t)
               /\ Leading(P, p, t) /\ ThreatActive(P, p, t) => t \in ToSet(q.threats)
    <3>1. CASE t \in Known(P, p, R)
      BY <1>1, <1>6, <1>9, <2>2, <3>1 DEF Cached
    <3>2. CASE t \in Threats(P, p) /\ t.link = k /\ t \notin Known(P, p, R)
      <4>1. t \notin ToSet(p.threats)
        BY <3>2 DEF Cached
      <4> QED BY <1>1, <1>6, <1>9, <3>2, <4>1
    <3> QED BY <1>12, <3>1, <3>2
  <2> QED BY <1>7, <1>9, <1>10, <2>1, <2>2 DEF Cached
<1>15. Tight(P, q)
  BY <1>1, <1>6, <1>9, <1>10 DEF Tight
<1> QED BY <1>9, <1>14, <1>15 DEF q, All

LEMMA StepThreatsAdded ==
  ASSUME NEW P, IsPlannerFor(P), NEW p, IsPlan(P, p), NEW s \in PlanSteps(p),
         NEW R, Cached(P, p, R), Tight(P, p)
  PROVE  LET q == AddStepThreats(P, p, s) IN
         /\ IsPlan(P, q) /\ SameRefinement(p, q) /\ q.disjunctions = p.disjunctions /\ q.cost = p.cost
         /\ Cached(P, q, R \cup ((DOMAIN p.links) \X {s})) /\ Tight(P, q)
<1> DEFINE N == UNION {PairThreats(P, p, s, k) : k \in DOMAIN p.links}
           M == ToSet(p.threats) \cup N
           ts == ThreatSeq(M)
           q == AddStepThreats(P, p, s)
           All == R \cup ((DOMAIN p.links) \X {s})
<1>1. \A t : t \in N <=> t \in Threats(P, p) /\ t.step = s /\ Leading(P, p, t) /\ ThreatActive(P, p, t)
  <2>1. \A t \in Threats(P, p) : t.link \in DOMAIN p.links
    BY DEF Threats
  <2>2. ASSUME NEW k \in DOMAIN p.links, NEW t
        PROVE  t \in PairThreats(P, p, s, k)
                 <=> /\ t \in Threats(P, p) /\ t.link = k /\ t.step = s
                     /\ Leading(P, p, t) /\ ThreatActive(P, p, t)
    BY PairThreatsExact
  <2>3. \A t : t \in N <=> \E k \in DOMAIN p.links : t \in PairThreats(P, p, s, k)
    OBVIOUS
  <2> HIDE DEF N
  <2> QED BY <2>1, <2>2, <2>3
<1> HIDE DEF N
<1>2. M \subseteq Threats(P, p) /\ M \subseteq Triples /\ IsFiniteSet(M)
  <2>1. ToSet(p.threats) \subseteq Threats(P, p)
    BY DEF Cached, Known
  <2>2. M \in SUBSET Threats(P, p)
    BY <1>1, <2>1
  <2>3. Threats(P, p) \subseteq Triples /\ IsFiniteSet(Threats(P, p))
    BY PlanSizes
  <2> QED BY <2>2, <2>3, FS_Subset
<1>3. \A t : t \in M <=> t \in ToSet(p.threats) \/ t \in N
  OBVIOUS
<1>8. q = [p EXCEPT !.threats = ts]
  BY DEF AddStepThreats, IsPlan, HasShape, N
<1> HIDE DEF M
<1>4. ts \in Seq(M) /\ ToSet(ts) = M /\ Increasing(ts)
  BY <1>2, SortedThreats
<1>5. ts \in Seq(Threats(P, p))
  BY <1>2, <1>4
<1> HIDE DEF q, ts, All
<1>9. IsPlan(P, q) /\ SameRefinement(p, q) /\ q.threats = ts /\ q.disjunctions = p.disjunctions /\ q.cost = p.cost
  BY <1>5, <1>8, NewThreats
<1>10. /\ Known(P, q, All) = Known(P, p, All)
       /\ \A t : /\ Minded(P, q, t) = Minded(P, p, t) /\ Leading(P, q, t) = Leading(P, p, t)
                 /\ ThreatActive(P, q, t) = ThreatActive(P, p, t)
  BY <1>9, SameThreats
<1>12. \A t : t \in Known(P, p, All) <=> t \in Known(P, p, R) \/ (t \in Threats(P, p) /\ t.step = s)
  <2>1. \A t \in Threats(P, p) : t.link \in DOMAIN p.links
    BY DEF Threats
  <2>2. \A t : <<t.link, t.step>> \in All <=> <<t.link, t.step>> \in R \/ (t.link \in DOMAIN p.links /\ t.step = s)
    BY DEF All
  <2> QED BY <2>1, <2>2 DEF Known
<1>13. \A t : t \in ToSet(q.threats) <=> t \in ToSet(p.threats) \/ t \in N
  BY <1>3, <1>4, <1>9
<1>14. Cached(P, q, All)
  <2>1. ToSet(q.threats) \subseteq Known(P, p, All)
    BY <1>1, <1>12, <1>13 DEF Cached
  <2>2. ASSUME NEW t \in Known(P, p, All), Minded(P, p, t)
        PROVE  /\ t \in ToSet(q.threats) => Leading(P, p, t)
               /\ Leading(P, p, t) /\ ThreatActive(P, p, t) => t \in ToSet(q.threats)
    <3>1. CASE t \in Known(P, p, R)
      BY <1>1, <1>13, <2>2, <3>1 DEF Cached
    <3>2. CASE t \in Threats(P, p) /\ t.step = s /\ t \notin Known(P, p, R)
      <4>1. t \notin ToSet(p.threats)
        BY <3>2 DEF Cached
      <4> QED BY <1>1, <1>13, <3>2, <4>1
    <3> QED BY <1>12, <3>1, <3>2
  <2> QED BY <1>4, <1>9, <1>10, <2>1, <2>2 DEF Cached
<1>15. Tight(P, q)
  BY <1>1, <1>10, <1>13 DEF Tight
<1> QED BY <1>9, <1>14, <1>15 DEF q, All

\* A cache that holds every pair's threats and no other is the search's.
LEMMA CacheIsRediscovered ==
  ASSUME NEW P, IsPlannerFor(P), NEW p, IsPlan(P, p), Cached(P, p, Pairs(p)), Tight(P, p)
  PROVE  /\ p.threats = ThreatSeq(ToSet(p.threats))
         /\ \A t : Minded(P, p, t) => (t \in ToSet(p.threats) <=> t \in Rediscovered(P, p))
         /\ Rediscovered(P, p) \subseteq Threats(P, p) /\ ToSet(p.threats) \subseteq Threats(P, p)
<1>1. \A t : t \in Rediscovered(P, p)
               <=> t \in Threats(P, p) /\ Leading(P, p, t) /\ ThreatActive(P, p, t)
  <2>1. \A t \in Threats(P, p) : t.link \in DOMAIN p.links /\ t.step \in PlanSteps(p)
    BY DEF Threats
  <2>2. \A t : t \in Rediscovered(P, p)
                 <=> \E s \in PlanSteps(p), k \in DOMAIN p.links : t \in PairThreats(P, p, s, k)
    BY DEF Rediscovered
  <2>3. ASSUME NEW s \in PlanSteps(p), NEW k \in DOMAIN p.links, NEW t
        PROVE  t \in PairThreats(P, p, s, k)
                 <=> /\ t \in Threats(P, p) /\ t.link = k /\ t.step = s
                     /\ Leading(P, p, t) /\ ThreatActive(P, p, t)
    BY PairThreatsExact
  <2> QED BY <2>1, <2>2, <2>3
<1>2. Known(P, p, Pairs(p)) = Threats(P, p)
  <2>1. \A t \in Threats(P, p) : t.link \in DOMAIN p.links /\ t.step \in PlanSteps(p)
    BY DEF Threats
  <2>2. \A t \in Threats(P, p) : <<t.link, t.step>> \in Pairs(p)
    BY <2>1 DEF Pairs
  <2> QED BY <2>2 DEF Known
<1>3. p.threats \in Seq(Triples) /\ Increasing(p.threats)
  BY PlanSizes DEF IsPlan, Cached
<1>4. p.threats = ThreatSeq(ToSet(p.threats))
  BY <1>3, IncreasingIsSorted
<1>5. ToSet(p.threats) \subseteq Threats(P, p)
  BY <1>2 DEF Cached
<1>6. \A t : Minded(P, p, t) => (t \in ToSet(p.threats) <=> t \in Rediscovered(P, p))
  BY <1>1, <1>2, <1>5 DEF Cached, Tight
<1> QED BY <1>1, <1>4, <1>5, <1>6

-----------------------------------------------------------------------------
(* Settling a refinement.                                                   *)

AtMostOne(S) == \A x, y \in S : x = y

\* r is p with more orderings and other disjunctions of D posted.
Narrows(p, r, D) ==
  /\ HasShape(r) /\ r.ops = p.ops /\ r.links = p.links /\ r.opens = p.opens
  /\ r.threats = p.threats /\ r.cost = p.cost /\ r.suppressed = p.suppressed
  /\ Refines(p.ord, r.ord) /\ r.ord.high = p.ord.high /\ r.disjunctions \in Seq(D)

LEMMA RefinesItself ==
  ASSUME NEW P, NEW p, IsPlan(P, p)
  PROVE  Refines(p.ord, p.ord)
  BY DEF IsPlan, OrdersPlan, Refines, IsOrderings

LEMMA NarrowedPlan ==
  ASSUME NEW P, NEW p, IsPlan(P, p), NEW r, Narrows(p, r, Disjunctions(P, p))
  PROVE  /\ IsPlan(P, r) /\ Grows(p, r)
         /\ Disjunctions(P, r) = Disjunctions(P, p)
<1>1. /\ r.ops = p.ops /\ r.links = p.links /\ r.opens = p.opens /\ r.suppressed = p.suppressed
      /\ r.threats = p.threats /\ PlanSteps(r) = PlanSteps(p)
  BY DEF Narrows, PlanSteps
<1>2. Threats(P, r) = Threats(P, p)
  BY <1>1 DEF Threats, Op
<1>3. Links(P, r) = Links(P, p) /\ Opens(P, r) = Opens(P, p) /\ Disjunctions(P, r) = Disjunctions(P, p)
      /\ Suppressible(P, r) = Suppressible(P, p)
  BY <1>1, <1>2 DEF Links, Opens, Disjunctions, Suppressible, Producers, Consumers, Op, Eff
<1>4. OrdersPlan(r)
  BY <1>1 DEF OrdersPlan, IsPlan, Narrows, Refines
<1>5. IsPlan(P, r)
  BY <1>1, <1>2, <1>3, <1>4 DEF IsPlan, Narrows
<1>6. \A s : Commitments(r, s) = Commitments(p, s)
  BY <1>1 DEF Commitments
<1>7. \A s \in PlanSteps(p) : p.ord.succ[s] \subseteq r.ord.succ[s]
  BY PlanSizes DEF Narrows, Refines
<1> QED BY <1>1, <1>3, <1>5, <1>6, <1>7 DEF Grows

LEMMA NarrowsOn ==
  ASSUME NEW p, NEW q, NEW r, NEW D, Narrows(p, q, D), Narrows(q, r, D)
  PROVE  Narrows(p, r, D)
<1>1. Refines(p.ord, r.ord)
  BY DEF Narrows, Refines
<1> QED BY <1>1 DEF Narrows

LEMMA OrderedNarrows ==
  ASSUME NEW P, NEW p, IsPlan(P, p), NEW ab \in Producers(p) \X Consumers(p)
  PROVE  /\ \A r \in Ordered(p, ab) :
              /\ Narrows(p, r, Disjunctions(P, p)) /\ r.disjunctions = p.disjunctions
         /\ AtMostOne(Ordered(p, ab))
<1>1. SUFFICES ASSUME Refinable(p.ord, ab[1], ab[2])
               PROVE  LET r == [p EXCEPT !.ord = Refine(p.ord, ab[1], ab[2])] IN
                      Narrows(p, r, Disjunctions(P, p)) /\ r.disjunctions = p.disjunctions
  BY DEF Ordered, AtMostOne
<1>2. RealSteps(p.ord) = PlanSteps(p) /\ IsOrderings(p.ord) /\ IsStrictOrder(p.ord)
  BY PlanSizes DEF IsPlan, OrdersPlan
<1>3. ab[1] \in {InitId} \cup RealSteps(p.ord) /\ ab[2] \in {GoalId} \cup RealSteps(p.ord)
  BY <1>2 DEF Producers, Consumers
<1> DEFINE new == Refine(p.ord, ab[1], ab[2])
<1>4. Refines(p.ord, new) /\ new.high = p.ord.high
  BY <1>1, <1>2, <1>3, RefineRefines
<1> HIDE DEF new
<1>5. HasShape(p) /\ p.disjunctions \in Seq(Disjunctions(P, p))
  BY DEF IsPlan
<1> DEFINE r == [p EXCEPT !.ord = new]
<1>6. /\ HasShape(r) /\ r.ops = p.ops /\ r.links = p.links /\ r.opens = p.opens
      /\ r.threats = p.threats /\ r.cost = p.cost /\ r.suppressed = p.suppressed
      /\ r.ord = new /\ r.disjunctions = p.disjunctions
  BY <1>5 DEF HasShape
<1> HIDE DEF r
<1>7. Narrows(p, r, Disjunctions(P, p)) /\ r.disjunctions = p.disjunctions
  BY <1>4, <1>5, <1>6 DEF Narrows
<1> QED BY <1>7 DEF r, new

\* Other disjunctions posted.
LEMMA DisjunctionsNarrow ==
  ASSUME NEW P, NEW p, IsPlan(P, p), NEW ds \in Seq(Disjunctions(P, p)), NEW r,
         r = [p EXCEPT !.disjunctions = ds]
  PROVE  /\ Narrows(p, r, Disjunctions(P, p)) /\ IsPlan(P, r) /\ SameRefinement(p, r)
         /\ r.disjunctions = ds
<1>1. HasShape(p) /\ Refines(p.ord, p.ord)
  BY RefinesItself DEF IsPlan
<1>2. Narrows(p, r, Disjunctions(P, p)) /\ r.ord = p.ord /\ r.disjunctions = ds
  BY <1>1 DEF HasShape, Narrows
<1> QED BY <1>2, NarrowedPlan DEF Narrows, SameRefinement

LEMMA RemovedOne ==
  ASSUME NEW S, NEW s \in Seq(S), NEW i \in 1 .. Len(s)
  PROVE  RemoveAt(s, i) \in Seq(S) /\ Tail(s) \in Seq(S)
<1>1. SubSeq(s, 1, i - 1) \in Seq(S)
  OBVIOUS
<1>2. SubSeq(s, i + 1, Len(s)) \in Seq(S)
  OBVIOUS
<1>3. s # <<>>
  OBVIOUS
<1> QED BY <1>1, <1>2, <1>3 DEF RemoveAt

LEMMA DecideNarrows ==
  ASSUME NEW P, NEW p, IsPlan(P, p), NEW k \in DOMAIN p.disjunctions, NEW fate
  PROVE  /\ \A r \in Decide(p, k, fate) : Narrows(p, r, Disjunctions(P, p))
         /\ AtMostOne(Decide(p, k, fate))
<1> DEFINE ds == RemoveAt(p.disjunctions, k)
           rest == [p EXCEPT !.disjunctions = ds]
           d == p.disjunctions[k]
           ab == IF fate = "demote" THEN d.demote ELSE d.promote
<1>1. p.disjunctions \in Seq(Disjunctions(P, p)) /\ k \in 1 .. Len(p.disjunctions)
  BY DEF IsPlan
<1>2. ds \in Seq(Disjunctions(P, p))
  BY <1>1, RemovedOne
<1>3. d \in Disjunctions(P, p)
  BY <1>1
<1>4. ab \in PlanSteps(p) \X PlanSteps(p)
  BY <1>3 DEF Disjunctions
<1>5. Decide(p, k, fate) = IF fate = "settled" THEN {rest} ELSE IF fate = "refuted" THEN {} ELSE Ordered(rest, ab)
  BY DEF Decide, IsPlan, HasShape
<1> HIDE DEF ds, ab
<1>6. Narrows(p, rest, Disjunctions(P, p)) /\ IsPlan(P, rest)
  BY <1>2, DisjunctionsNarrow
<1>7. Disjunctions(P, rest) = Disjunctions(P, p)
  BY <1>6, NarrowedPlan
<1>8. PlanSteps(rest) = PlanSteps(p)
  BY <1>6 DEF Narrows, PlanSteps
<1> HIDE DEF rest
<1>9. ab \in Producers(rest) \X Consumers(rest)
  BY <1>4, <1>8 DEF Producers, Consumers
<1>10. AtMostOne(Ordered(rest, ab)) /\ \A r \in Ordered(rest, ab) : Narrows(rest, r, Disjunctions(P, p))
  BY <1>6, <1>7, <1>9, OrderedNarrows
<1>11. \A r \in Ordered(rest, ab) : Narrows(p, r, Disjunctions(P, p))
  BY <1>6, <1>10, NarrowsOn
<1> QED BY <1>5, <1>6, <1>10, <1>11 DEF AtMostOne

LEMMA DecideFirstNarrows ==
  ASSUME NEW P, NEW p, IsPlan(P, p)
  PROVE  /\ \A r \in DecideFirst(p) : Narrows(p, r, Disjunctions(P, p))
         /\ AtMostOne(DecideFirst(p))
<1> DEFINE fate == [k \in DOMAIN p.disjunctions |-> Fate(p.ord, p.disjunctions[k])]
           decided == {k \in DOMAIN p.disjunctions : fate[k] # "open"}
<1>1. DecideFirst(p) = IF decided = {} THEN {p} ELSE Decide(p, Min(decided), fate[Min(decided)])
  BY DEF DecideFirst
<1>2. decided \subseteq DOMAIN p.disjunctions
  OBVIOUS
<1> HIDE DEF fate, decided
<1>3. p.disjunctions \in Seq(Disjunctions(P, p))
  BY DEF IsPlan
<1>4. CASE decided = {}
  <2>1. Narrows(p, p, Disjunctions(P, p))
    BY <1>3, RefinesItself DEF Narrows, IsPlan
  <2> QED BY <1>1, <1>4, <2>1 DEF AtMostOne
<1>5. CASE decided # {}
  <2>1. decided \subseteq Nat
    BY <1>2, <1>3
  <2>2. Min(decided) \in decided
    BY <1>5, <2>1, MinMember
  <2>3. Min(decided) \in DOMAIN p.disjunctions
    BY <1>2, <2>2
  <2> QED BY <1>1, <1>5, <2>3, DecideNarrows
<1> QED BY <1>4, <1>5

\* The rounds of propagation, as a function that satisfies its recursion.
Rounds(p, f, n) ==
  f = [k \in 0 .. n |-> IF k = 0 THEN {p} ELSE UNION {DecideFirst(q) : q \in f[k - 1]}]

LEMMA RoundsExist ==
  ASSUME NEW p, NEW n \in Nat
  PROVE  \E f : Rounds(p, f, n)
<1> DEFINE D == {m \in Nat : ~ \E f : Rounds(p, f, m)}
<1>1. CASE D = {}
  BY <1>1
<1>2. CASE D # {}
  <2>1. PICK m \in D : \A k \in D : m <= k
    BY <1>2, LeastNatural
  <2>2. CASE m = 0
    <3> DEFINE f == [k \in 0 .. 0 |-> {p}]
    <3>1. Rounds(p, f, 0)
      BY DEF Rounds
    <3> QED BY <2>1, <2>2, <3>1
  <2>3. CASE m # 0
    <3>1. m - 1 \in Nat /\ m - 1 \notin D
      BY <2>1, <2>3
    <3>2. PICK g : Rounds(p, g, m - 1)
      BY <3>1
    <3> DEFINE f == [k \in 0 .. m |-> IF k = 0 THEN {p} ELSE UNION {DecideFirst(q) : q \in g[k - 1]}]
    <3>3. \A k \in 0 .. m - 1 : f[k] = g[k]
      <4>1. \A k \in 0 .. m - 1 : k \in 0 .. m
        BY <3>1
      <4>2. \A k \in 0 .. m - 1 : g[k] = IF k = 0 THEN {p} ELSE UNION {DecideFirst(q) : q \in g[k - 1]}
        BY <3>2 DEF Rounds
      <4> QED BY <4>1, <4>2
    <3>4. \A k \in 0 .. m : k # 0 => k - 1 \in 0 .. m - 1
      BY <3>1
    <3>5. Rounds(p, f, m)
      BY <3>3, <3>4 DEF Rounds
    <3> QED BY <2>1, <3>5
  <2> QED BY <2>2, <2>3
<1> QED BY <1>1, <1>2

LEMMA PropagatedNarrows ==
  ASSUME NEW P, NEW p, IsPlan(P, p)
  PROVE  /\ \A r \in Propagated(p) : Narrows(p, r, Disjunctions(P, p))
         /\ AtMostOne(Propagated(p))
<1> DEFINE n == Len(p.disjunctions)
           D == Disjunctions(P, p)
           f == CHOOSE f : Rounds(p, f, n)
           Good(S) == AtMostOne(S) /\ \A r \in S : Narrows(p, r, D)
           G == {m \in 0 .. n : Good(f[m])}
<1>1. p.disjunctions \in Seq(D) /\ n \in Nat
  BY DEF IsPlan
<1>2. Rounds(p, f, n)
  BY <1>1, RoundsExist
<1>3. Propagated(p) = f[n]
  BY DEF Propagated, Rounds
<1> HIDE DEF f, D
<1>4. \A k \in 0 .. n : f[k] = IF k = 0 THEN {p} ELSE UNION {DecideFirst(q) : q \in f[k - 1]}
  BY <1>2 DEF Rounds
<1>5. 0 \in G
  <2>3. 0 \in 0 .. n
    BY <1>1
  <2>1. f[0] = {p} /\ 0 \in 0 .. n
    BY <1>4, <2>3
  <2>2. Narrows(p, p, D)
    BY <1>1, RefinesItself DEF Narrows, IsPlan
  <2> QED BY <2>1, <2>2 DEF AtMostOne
<1>6. ASSUME NEW m \in 0 .. n - 1, m \in G PROVE m + 1 \in G
  <2>1. m + 1 \in 0 .. n /\ m + 1 # 0 /\ (m + 1) - 1 = m
    BY <1>1
  <2>2. f[m + 1] = UNION {DecideFirst(q) : q \in f[m]}
    BY <1>4, <2>1
  <2>3. ASSUME NEW q \in f[m]
        PROVE  AtMostOne(DecideFirst(q)) /\ \A r \in DecideFirst(q) : Narrows(p, r, D)
    <3>1. Narrows(p, q, D)
      BY <1>6
    <3>2. IsPlan(P, q) /\ Disjunctions(P, q) = D
      BY <3>1, NarrowedPlan DEF D
    <3>3. AtMostOne(DecideFirst(q)) /\ \A r \in DecideFirst(q) : Narrows(q, r, D)
      BY <3>2, DecideFirstNarrows
    <3> QED BY <3>1, <3>3, NarrowsOn
  <2>4. AtMostOne(f[m])
    BY <1>6
  <2>5. \A r : r \in f[m + 1] <=> \E q \in f[m] : r \in DecideFirst(q)
    BY <2>2
  <2>6. Good(f[m + 1])
    BY <2>3, <2>4, <2>5 DEF AtMostOne
  <2> QED BY <2>1, <2>6
<1> HIDE DEF G
<1>7. \A m \in 0 .. n : m \in G
  BY <1>1, <1>5, <1>6, Stepwise
<1>8. n \in G
  BY <1>1, <1>7
<1>9. Good(f[n])
  BY <1>8 DEF G
<1> QED BY <1>3, <1>9 DEF D

\* Only disjunctions whose threat is still there stay posted.
LEMMA RetainLiveNarrows ==
  ASSUME NEW P, NEW p, IsPlan(P, p)
  PROVE  /\ IsPlan(P, RetainLive(p)) /\ SameRefinement(p, RetainLive(p))
         /\ Narrows(p, RetainLive(p), Disjunctions(P, p))
<1> DEFINE A == {d \in ToSet(p.disjunctions) : d.threat \in ToSet(p.threats)}
           ds == Among(p.disjunctions, A)
<1>1. p.disjunctions \in Seq(Disjunctions(P, p))
  BY DEF IsPlan
<1>2. ds \in Seq(Disjunctions(P, p))
  BY <1>1, AmongMembers
<1>3. RetainLive(p) = [p EXCEPT !.disjunctions = ds]
  BY DEF RetainLive, IsPlan, HasShape
<1> HIDE DEF ds
<1> QED BY <1>2, <1>3, DisjunctionsNarrow

\* r settles p: it is p but for orderings, threats and disjunctions.
SettledFrom(P, p, r) ==
  /\ IsPlan(P, r) /\ r.ops = p.ops /\ r.links = p.links /\ r.opens = p.opens
  /\ r.suppressed = p.suppressed /\ r.cost = p.cost /\ r.ord.high = p.ord.high

LEMMA SettledIsTight ==
  ASSUME NEW P, NEW p, IsPlan(P, p), NEW R, R \subseteq Pairs(p), Cached(P, p, R)
  PROVE  /\ \A r \in Settled(P, p) : SettledFrom(P, p, r) /\ Cached(P, r, R) /\ Tight(P, r)
         /\ AtMostOne(Settled(P, p))
<1> DEFINE q == RetainActive(P, p)
           live == RetainLive(q)
           F(r) == IF r.ord = q.ord THEN r ELSE RetainLive(RetainActive(P, r))
<1>1. /\ IsPlan(P, q) /\ SameRefinement(p, q) /\ q.disjunctions = p.disjunctions /\ q.cost = p.cost
      /\ Cached(P, q, R) /\ Tight(P, q)
  BY RetainTightens
<1>2. Settled(P, p) = IF q.disjunctions = <<>> THEN {q} ELSE {F(r) : r \in Propagated(live)}
  BY DEF Settled
<1> HIDE DEF q
<1>3. SettledFrom(P, p, q)
  BY <1>1 DEF SettledFrom, SameRefinement
<1>4. /\ IsPlan(P, live) /\ SameRefinement(q, live) /\ Narrows(q, live, Disjunctions(P, q))
  BY <1>1, RetainLiveNarrows
<1> HIDE DEF live
<1>5. ASSUME NEW r \in Propagated(live)
      PROVE  SettledFrom(P, p, F(r)) /\ Cached(P, F(r), R) /\ Tight(P, F(r))
  <2>1. Narrows(live, r, Disjunctions(P, live)) /\ Disjunctions(P, live) = Disjunctions(P, q)
    BY <1>1, <1>4, PropagatedNarrows, NarrowedPlan
  <2>2. Narrows(q, r, Disjunctions(P, q))
    BY <1>4, <2>1, NarrowsOn
  <2>3. IsPlan(P, r) /\ Grows(q, r)
    BY <1>1, <2>2, NarrowedPlan
  <2>4. r.threats = q.threats /\ SettledFrom(P, q, r)
    BY <2>2, <2>3 DEF Narrows, SettledFrom
  <2>5. SettledFrom(P, p, r)
    BY <1>3, <2>4 DEF SettledFrom
  <2>6. R \subseteq Pairs(q)
    BY <1>1, SameThreats
  <2>7. Cached(P, r, R)
    BY <1>1, <2>3, <2>4, <2>6, CachedGrows
  <2>8. CASE r.ord = q.ord
    <3>1. SameRefinement(q, r)
      BY <2>4, <2>8 DEF SameRefinement, SettledFrom
    <3>2. Tight(P, r)
      BY <1>1, <2>4, <3>1, SameThreats DEF Tight
    <3> QED BY <2>5, <2>7, <2>8, <3>2
  <2>9. CASE r.ord # q.ord
    <3> DEFINE a == RetainActive(P, r)
               b == RetainLive(a)
    <3>1. IsPlan(P, a) /\ SameRefinement(r, a) /\ a.cost = r.cost /\ Cached(P, a, R) /\ Tight(P, a)
      BY <2>3, <2>7, RetainTightens
    <3> HIDE DEF a
    <3>2. IsPlan(P, b) /\ SameRefinement(a, b) /\ Narrows(a, b, Disjunctions(P, a))
      BY <3>1, RetainLiveNarrows
    <3> HIDE DEF b
    <3>3. b.threats = a.threats /\ b.cost = a.cost
      BY <3>2 DEF Narrows
    <3>4. /\ Known(P, b, R) = Known(P, a, R)
          /\ \A t : /\ Minded(P, b, t) = Minded(P, a, t) /\ Leading(P, b, t) = Leading(P, a, t)
                    /\ ThreatActive(P, b, t) = ThreatActive(P, a, t)
      BY <3>2, SameThreats
    <3>5. Cached(P, b, R) /\ Tight(P, b)
      BY <3>1, <3>3, <3>4 DEF Cached, Tight
    <3>6. SettledFrom(P, p, b)
      BY <2>5, <3>1, <3>2, <3>3 DEF SettledFrom, SameRefinement
    <3> QED BY <2>9, <3>5, <3>6 DEF a, b
  <2> QED BY <2>8, <2>9
<1>6. AtMostOne(Propagated(live))
  BY <1>4, PropagatedNarrows
<1> HIDE DEF F
<1>7. CASE q.disjunctions = <<>>
  BY <1>1, <1>2, <1>3, <1>7 DEF AtMostOne
<1>8. CASE q.disjunctions # <<>>
  <2>1. \A x : x \in Settled(P, p) <=> \E r \in Propagated(live) : x = F(r)
    BY <1>2, <1>8
  <2> QED BY <1>5, <1>6, <2>1 DEF AtMostOne
<1> QED BY <1>7, <1>8

-----------------------------------------------------------------------------
(* The children of a plan.                                                  *)

\* Opening conditions, as a function that satisfies its recursion.
Opening(opens, s, facts, f, n) ==
  f = [k \in 0 .. n |-> IF k = 0 THEN opens
                        ELSE PushOpen(f[k - 1], [step |-> s, fact |-> facts[k]])]

LEMMA OpeningExists ==
  ASSUME NEW opens, NEW s, NEW facts, NEW n \in Nat
  PROVE  \E f : Opening(opens, s, facts, f, n)
<1> DEFINE D == {m \in Nat : ~ \E f : Opening(opens, s, facts, f, m)}
<1>1. CASE D = {}
  BY <1>1
<1>2. CASE D # {}
  <2>1. PICK m \in D : \A k \in D : m <= k
    BY <1>2, LeastNatural
  <2>2. CASE m = 0
    <3> DEFINE f == [k \in 0 .. 0 |-> opens]
    <3>1. Opening(opens, s, facts, f, 0)
      BY DEF Opening
    <3> QED BY <2>1, <2>2, <3>1
  <2>3. CASE m # 0
    <3>1. m - 1 \in Nat /\ m - 1 \notin D
      BY <2>1, <2>3
    <3>2. PICK g : Opening(opens, s, facts, g, m - 1)
      BY <3>1
    <3> DEFINE f == [k \in 0 .. m |-> IF k = 0 THEN opens
                                      ELSE PushOpen(g[k - 1], [step |-> s, fact |-> facts[k]])]
    <3>3. \A k \in 0 .. m - 1 : f[k] = g[k]
      <4>1. \A k \in 0 .. m - 1 : k \in 0 .. m
        BY <3>1
      <4>2. \A k \in 0 .. m - 1 : g[k] = IF k = 0 THEN opens
                                         ELSE PushOpen(g[k - 1], [step |-> s, fact |-> facts[k]])
        BY <3>2 DEF Opening
      <4> QED BY <4>1, <4>2
    <3>4. \A k \in 0 .. m : k # 0 => k - 1 \in 0 .. m - 1
      BY <3>1
    <3>5. Opening(opens, s, facts, f, m)
      BY <3>3, <3>4 DEF Opening
    <3> QED BY <2>1, <3>5
  <2> QED BY <2>2, <2>3
<1> QED BY <1>1, <1>2

LEMMA PushedOpen ==
  ASSUME NEW S, NEW opens \in Seq(S), NEW oc \in S
  PROVE  PushOpen(opens, oc) \in Seq(S) /\ ToSet(PushOpen(opens, oc)) = ToSet(opens) \cup {oc}
  BY AppendMembers DEF PushOpen

LEMMA OpenedMembers ==
  ASSUME NEW S, NEW opens \in Seq(S), NEW s, NEW F, NEW facts \in Seq(F),
         \A f \in F : [step |-> s, fact |-> f] \in S
  PROVE  AddOpens(opens, s, facts) \in Seq(S) /\ ToSet(opens) \subseteq ToSet(AddOpens(opens, s, facts))
<1> DEFINE n == Len(facts)
           f == CHOOSE f : Opening(opens, s, facts, f, n)
           Good(x) == x \in Seq(S) /\ ToSet(opens) \subseteq ToSet(x)
           G == {m \in 0 .. n : Good(f[m])}
<1>1. n \in Nat /\ \A k \in 1 .. n : facts[k] \in F
  OBVIOUS
<1>2. Opening(opens, s, facts, f, n)
  BY <1>1, OpeningExists
<1>3. AddOpens(opens, s, facts) = f[n]
  BY DEF AddOpens, Opening
<1> HIDE DEF f
<1>4. \A k \in 0 .. n : f[k] = IF k = 0 THEN opens ELSE PushOpen(f[k - 1], [step |-> s, fact |-> facts[k]])
  BY <1>2 DEF Opening
<1>5. 0 \in G
  <2>1. 0 \in 0 .. n
    BY <1>1
  <2>2. f[0] = opens
    BY <1>4, <2>1
  <2> QED BY <2>1, <2>2
<1>6. ASSUME NEW m \in 0 .. n - 1, m \in G PROVE m + 1 \in G
  <2>1. m + 1 \in 0 .. n /\ m + 1 # 0 /\ (m + 1) - 1 = m /\ m + 1 \in 1 .. n
    BY <1>1
  <2>2. f[m + 1] = PushOpen(f[m], [step |-> s, fact |-> facts[m + 1]])
    BY <1>4, <2>1
  <2>3. [step |-> s, fact |-> facts[m + 1]] \in S /\ f[m] \in Seq(S) /\ ToSet(opens) \subseteq ToSet(f[m])
    BY <1>1, <1>6, <2>1
  <2>4. Good(f[m + 1])
    BY <2>2, <2>3, PushedOpen
  <2> QED BY <2>1, <2>4
<1> HIDE DEF G
<1>7. \A m \in 0 .. n : m \in G
  BY <1>1, <1>5, <1>6, Stepwise
<1>8. n \in G
  BY <1>1, <1>7
<1>9. Good(f[n])
  BY <1>8 DEF G
<1> QED BY <1>3, <1>9

LEMMA SeqGrows ==
  ASSUME NEW S, NEW T, S \subseteq T
  PROVE  Seq(S) \subseteq Seq(T)
  OBVIOUS

\* The types of a plan's parts grow with it.
LEMMA TypesGrow ==
  ASSUME NEW P, NEW p, NEW q, PlanSteps(p) \subseteq PlanSteps(q),
         \A s \in PlanSteps(p) : q.ops[s] = p.ops[s], DOMAIN p.links \subseteq DOMAIN q.links
  PROVE  /\ Links(P, p) \subseteq Links(P, q) /\ Opens(P, p) \subseteq Opens(P, q)
         /\ Suppressible(P, p) \subseteq Suppressible(P, q)
         /\ Threats(P, p) \subseteq Threats(P, q) /\ Disjunctions(P, p) \subseteq Disjunctions(P, q)
<1>1. Producers(p) \subseteq Producers(q) /\ Consumers(p) \subseteq Consumers(q)
  BY DEF Producers, Consumers
<1>2. Links(P, p) \subseteq Links(P, q) /\ Opens(P, p) \subseteq Opens(P, q)
  BY <1>1 DEF Links, Opens
<1>3. Suppressible(P, p) \subseteq Suppressible(P, q)
  <2> SUFFICES ASSUME NEW x \in Suppressible(P, p) PROVE x \in Suppressible(P, q)
    OBVIOUS
  <2>1. x \in PlanSteps(p) \X Nat /\ x[2] \in DOMAIN Op(P, p, x[1]).effs /\ Eff(P, p, x[1], x[2]).cond # {}
    BY DEF Suppressible
  <2>2. x[1] \in PlanSteps(p) /\ x \in PlanSteps(q) \X Nat
    BY <2>1
  <2>3. Op(P, q, x[1]) = Op(P, p, x[1])
    BY <2>2 DEF Op
  <2> QED BY <2>1, <2>2, <2>3 DEF Suppressible, Eff
<1>4. Threats(P, p) \subseteq Threats(P, q)
  <2> SUFFICES ASSUME NEW t \in Threats(P, p) PROVE t \in Threats(P, q)
    OBVIOUS
  <2>1. /\ t \in [link : DOMAIN p.links, step : PlanSteps(p), effect : 1 .. NoEffect]
        /\ t.effect = NoEffect \/ t.effect \in DOMAIN Op(P, p, t.step).effs
    BY DEF Threats
  <2>2. t.step \in PlanSteps(p) /\ t \in [link : DOMAIN q.links, step : PlanSteps(q), effect : 1 .. NoEffect]
    BY <2>1
  <2>3. Op(P, q, t.step) = Op(P, p, t.step)
    BY <2>2 DEF Op
  <2> QED BY <2>1, <2>2, <2>3 DEF Threats
<1>5. Disjunctions(P, p) \subseteq Disjunctions(P, q)
  BY <1>4 DEF Disjunctions
<1> QED BY <1>2, <1>3, <1>4, <1>5

\* What a step was committed to it stays committed to: the condition a child
\* resolves becomes its new link's.
LEMMA CommitmentsKept ==
  ASSUME NEW p, NEW q, NEW oc, ToSet(p.opens) \ {oc} \subseteq ToSet(q.opens),
         ToSet(p.links) \subseteq ToSet(q.links),
         oc \in ToSet(q.opens) \/ \E l \in ToSet(q.links) : l.to = oc.step /\ l.fact = oc.fact
  PROVE  \A s : Commitments(p, s) \subseteq Commitments(q, s)
<1> SUFFICES ASSUME NEW s, NEW f \in Commitments(p, s) PROVE f \in Commitments(q, s)
  OBVIOUS
<1>1. \/ \E x \in ToSet(p.opens) : x.step = s /\ x.fact = f
      \/ \E l \in ToSet(p.links) : l.to = s /\ l.fact = f
  BY DEF Commitments
<1>2. \/ \E x \in ToSet(q.opens) : x.step = s /\ x.fact = f
      \/ \E l \in ToSet(q.links) : l.to = s /\ l.fact = f
  BY <1>1
<1> QED BY <1>2 DEF Commitments

\* q is a child of p that only says more: what settling it needs.
Child(P, p, q) == IsPlan(P, q) /\ Grows(p, q) /\ q.threats = p.threats

LEMMA OpenConditions ==
  ASSUME NEW P, NEW p, IsPlan(P, p), NEW oc \in ToSet(p.opens)
  PROVE  /\ p.opens \in Seq(Opens(P, p)) /\ oc \in Opens(P, p)
         /\ oc.step \in Consumers(p) /\ oc.fact \in Facts(P.T)
         /\ oc = [step |-> oc.step, fact |-> oc.fact]
         /\ WithoutOpen(p.opens, oc) \in Seq(Opens(P, p))
         /\ ToSet(WithoutOpen(p.opens, oc)) = ToSet(p.opens) \ {oc}
<1>1. p.opens \in Seq(Opens(P, p))
  BY DEF IsPlan
<1>2. oc \in Opens(P, p)
  BY <1>1, InSeq
<1>3. WithoutOpen(p.opens, oc) \in Seq(Opens(P, p))
      /\ ToSet(WithoutOpen(p.opens, oc)) = ToSet(p.opens) \ {oc}
  <2>1. ToSet(p.opens) \cap (ToSet(p.opens) \ {oc}) = ToSet(p.opens) \ {oc}
    OBVIOUS
  <2> QED BY <1>1, <2>1, AmongMembers DEF WithoutOpen
<1> QED BY <1>1, <1>2, <1>3 DEF Opens

\* Sets of facts open as sequences of them.
LEMMA FactsOpen ==
  ASSUME NEW P, IsPlannerFor(P), NEW fs \in SUBSET Facts(P.T)
  PROVE  FactSeq(fs) \in Seq(fs)
<1>1. IsFiniteSet(Facts(P.T)) /\ Facts(P.T) \subseteq Nat \X Nat
  BY DEF IsPlannerFor, IsTask
<1>2. IsFiniteSet(fs) /\ fs \subseteq Nat \X Nat
  BY <1>1, FS_Subset
<1> QED BY <1>2, FactSeqType

Linked(p, new, ls, os) == [p EXCEPT !.ord = new, !.links = ls, !.opens = os]

Stepped(p, new, cost, ps, ls, os) ==
  [p EXCEPT !.ord = new, !.cost = cost, !.ops = ps, !.links = ls, !.opens = os]

LEMMA LinkedFields ==
  ASSUME NEW p, HasShape(p), NEW new, NEW ls, NEW os, NEW q, q = Linked(p, new, ls, os)
  PROVE  /\ HasShape(q) /\ q.ops = p.ops /\ q.threats = p.threats /\ q.suppressed = p.suppressed
         /\ q.disjunctions = p.disjunctions /\ q.ord = new /\ q.links = ls /\ q.opens = os
<1>1. q = [ops |-> p.ops, links |-> ls, ord |-> new, threats |-> p.threats, cost |-> p.cost,
           suppressed |-> p.suppressed, disjunctions |-> p.disjunctions, opens |-> os]
  BY DEF HasShape, Linked
<1> QED BY <1>1 DEF HasShape

LEMMA SteppedFields ==
  ASSUME NEW p, HasShape(p), NEW new, NEW cost, NEW ps, NEW ls, NEW os, NEW q,
         q = Stepped(p, new, cost, ps, ls, os)
  PROVE  /\ HasShape(q) /\ q.ops = ps /\ q.threats = p.threats /\ q.suppressed = p.suppressed
         /\ q.disjunctions = p.disjunctions /\ q.ord = new /\ q.links = ls /\ q.opens = os
<1>1. q = [ops |-> ps, links |-> ls, ord |-> new, threats |-> p.threats, cost |-> cost,
           suppressed |-> p.suppressed, disjunctions |-> p.disjunctions, opens |-> os]
  BY DEF HasShape, Stepped
<1> QED BY <1>1 DEF HasShape

LEMMA SupportGrows ==
  ASSUME NEW P, IsPlannerFor(P), NEW p, IsPlan(P, p), NEW oc \in ToSet(p.opens),
         NEW a \in Producers(p), NEW e \in Nat, NEW conds \in SUBSET Facts(P.T),
         a = InitId => conds = {}, NEW c \in Support(P, p, oc, a, e, conds)
  PROVE  /\ c.by = "link" /\ Child(P, p, c.plan) /\ c.plan.ops = p.ops
         /\ Len(c.plan.links) = Len(p.links) + 1
<1> DEFINE new == Refine(p.ord, a, oc.step)
           l == [from |-> a, to |-> oc.step, fact |-> oc.fact, effect |-> e]
           ls == Append(p.links, l)
           os == AddOpens(WithoutOpen(p.opens, oc), a, FactSeq(conds))
           q == [p EXCEPT !.ord = new, !.links = ls, !.opens = os]
<1>1. HasShape(p) /\ p.links \in Seq(Links(P, p)) /\ IsOrderings(p.ord) /\ IsStrictOrder(p.ord)
      /\ p.ord.high = Len(p.ops)
  BY DEF IsPlan, OrdersPlan
<1>2. c = [by |-> "link", plan |-> q] /\ Refinable(p.ord, a, oc.step)
  BY <1>1 DEF Support, HasShape
<1>3. oc.step \in Consumers(p) /\ oc.fact \in Facts(P.T)
      /\ WithoutOpen(p.opens, oc) \in Seq(Opens(P, p))
      /\ ToSet(WithoutOpen(p.opens, oc)) = ToSet(p.opens) \ {oc}
  BY OpenConditions
<1>4. l \in Links(P, p)
  BY <1>3 DEF Links
<1>5. ls \in Seq(Links(P, p)) /\ ToSet(ls) = ToSet(p.links) \cup {l} /\ Len(ls) = Len(p.links) + 1
      /\ \A k \in DOMAIN p.links : k \in DOMAIN ls /\ ls[k] = p.links[k]
  BY <1>1, <1>4, AppendMembers
<1>6. Refines(p.ord, new) /\ new.high = p.ord.high
  <2>1. RealSteps(p.ord) = PlanSteps(p)
    BY PlanSizes
  <2>2. a \in {InitId} \cup RealSteps(p.ord) /\ oc.step \in {GoalId} \cup RealSteps(p.ord)
    BY <1>3, <2>1 DEF Producers, Consumers
  <2> QED BY <1>1, <1>2, <2>2, RefineRefines
<1>7. os \in Seq(Opens(P, p)) /\ ToSet(p.opens) \ {oc} \subseteq ToSet(os)
  <2>1. \A f \in conds : [step |-> a, fact |-> f] \in Opens(P, p)
    BY DEF Producers, Consumers, Opens
  <2>2. FactSeq(conds) \in Seq(conds)
    BY FactsOpen
  <2>3. os \in Seq(Opens(P, p)) /\ ToSet(WithoutOpen(p.opens, oc)) \subseteq ToSet(os)
    BY <1>3, <2>1, <2>2, OpenedMembers
  <2> QED BY <1>3, <2>3
<1>15. q = Linked(p, new, ls, os)
  BY DEF Linked
<1> HIDE DEF new, ls, os, q
<1>8. /\ HasShape(q) /\ q.ops = p.ops /\ q.threats = p.threats /\ q.suppressed = p.suppressed
      /\ q.disjunctions = p.disjunctions /\ q.ord = new /\ q.links = ls /\ q.opens = os
  BY <1>1, <1>15, LinkedFields
<1>9. PlanSteps(q) = PlanSteps(p)
  BY <1>8 DEF PlanSteps
<1>10. /\ Links(P, p) \subseteq Links(P, q) /\ Opens(P, p) \subseteq Opens(P, q)
       /\ Suppressible(P, p) \subseteq Suppressible(P, q)
       /\ Threats(P, p) \subseteq Threats(P, q) /\ Disjunctions(P, p) \subseteq Disjunctions(P, q)
  <2>1. DOMAIN p.links \subseteq DOMAIN q.links
    BY <1>5, <1>8
  <2> QED BY <1>8, <1>9, <2>1, TypesGrow
<1>11. IsPlan(P, q)
  <2>1. q.links \in Seq(Links(P, q)) /\ q.opens \in Seq(Opens(P, q)) /\ q.threats \in Seq(Threats(P, q))
        /\ q.disjunctions \in Seq(Disjunctions(P, q))
    BY <1>5, <1>7, <1>8, <1>10, SeqGrows DEF IsPlan
  <2>2. OrdersPlan(q)
    BY <1>1, <1>6, <1>8 DEF OrdersPlan, Refines
  <2>3. q.suppressed \subseteq Suppressible(P, q)
    BY <1>8, <1>10 DEF IsPlan
  <2> QED BY <1>8, <2>1, <2>2, <2>3 DEF IsPlan
<1>12. \A s : Commitments(p, s) \subseteq Commitments(q, s)
  <2>1. l \in ToSet(q.links) /\ l.to = oc.step /\ l.fact = oc.fact
    BY <1>5, <1>8
  <2>2. ToSet(p.opens) \ {oc} \subseteq ToSet(q.opens) /\ ToSet(p.links) \subseteq ToSet(q.links)
    BY <1>5, <1>7, <1>8
  <2> HIDE DEF l
  <2> QED BY <2>1, <2>2, CommitmentsKept
<1>13. Grows(p, q)
  <2>1. \A s \in PlanSteps(p) : p.ord.succ[s] \subseteq q.ord.succ[s]
    BY <1>6, <1>8, PlanSizes DEF Refines
  <2> QED BY <1>5, <1>8, <1>9, <1>12, <2>1 DEF Grows
<1>14. c.by = "link" /\ c.plan = q
  BY <1>2
<1> QED BY <1>5, <1>8, <1>11, <1>13, <1>14 DEF Child

\* The link of a new producer.
NewLink(p, oc, e) == [from |-> Len(p.ops) + 1, to |-> oc.step, fact |-> oc.fact, effect |-> e]

StepChild(P, p, oc, o, e, c) ==
  /\ c.by = "step" /\ Child(P, p, c.plan)
  /\ c.plan.ops = Append(p.ops, o) /\ Len(c.plan.ops) = Len(p.ops) + 1
  /\ c.plan.links = Append(p.links, NewLink(p, oc, e))
  /\ Len(c.plan.links) = Len(p.links) + 1

\* The plan a new producer makes.
LEMMA StepGrows ==
  ASSUME NEW P, IsPlannerFor(P), NEW p, IsPlan(P, p), NEW oc \in ToSet(p.opens),
         NEW o \in Operators(P.T), NEW e \in DOMAIN P.T.ops[o].effs, NEW c \in AddStep(P, p, oc, o, e)
  PROVE  StepChild(P, p, oc, o, e, c) /\ AtMostOne(AddStep(P, p, oc, o, e))
<1> DEFINE s == Len(p.ops) + 1
           pre == P.T.ops[o].pre
           guard == P.T.ops[o].effs[e].cond \ pre
           new == RefineWithStep(p.ord, s, oc.step, s)
           l == [from |-> s, to |-> oc.step, fact |-> oc.fact, effect |-> e]
           ls == Append(p.links, l)
           ps == Append(p.ops, o)
           os == AddOpens(WithoutOpen(p.opens, oc), s, FactSeq(pre) \o FactSeq(guard))
           q == [p EXCEPT !.ord = new, !.cost = p.cost + P.T.ops[o].cost, !.ops = ps, !.links = ls,
                          !.opens = os]
<1>1. HasShape(p) /\ p.links \in Seq(Links(P, p)) /\ p.ops \in Seq(Operators(P.T))
      /\ IsOrderings(p.ord) /\ IsStrictOrder(p.ord) /\ p.ord.high = Len(p.ops)
  BY DEF IsPlan, OrdersPlan
<1>2. AddStep(P, p, oc, o, e) = IF s > MaxSteps THEN {} ELSE {[by |-> "step", plan |-> q]}
  BY <1>1 DEF AddStep, HasShape
<1>3. c = [by |-> "step", plan |-> q] /\ ~ (s > MaxSteps) /\ AtMostOne(AddStep(P, p, oc, o, e))
  BY <1>2 DEF AtMostOne
<1>4. oc.step \in Consumers(p) /\ oc.fact \in Facts(P.T)
      /\ WithoutOpen(p.opens, oc) \in Seq(Opens(P, p))
      /\ ToSet(WithoutOpen(p.opens, oc)) = ToSet(p.opens) \ {oc}
  BY OpenConditions
<1>5. e \in Nat /\ pre \in SUBSET Facts(P.T) /\ guard \in SUBSET Facts(P.T)
  <2>1. /\ P.T.ops[o].pre \subseteq Facts(P.T)
        /\ DOMAIN P.T.ops[o].effs \subseteq 1 .. NoEffect - 1
        /\ P.T.ops[o].effs[e].cond \subseteq Facts(P.T)
    BY DEF IsPlannerFor, IsTask
  <2>2. e \in Nat
    BY <2>1 DEF NoEffect
  <2> QED BY <2>1, <2>2
<1>6. /\ ps \in Seq(Operators(P.T)) /\ Len(ps) = s /\ s \in Nat /\ s <= MaxSteps
      /\ PlanSteps(p) = 1 .. Len(p.ops) /\ DOMAIN ps = 1 .. s
      /\ \A x \in PlanSteps(p) : x \in DOMAIN ps /\ ps[x] = p.ops[x]
  BY <1>1, <1>3, PlanSizes, MaxStepsAssumption
<1>7. Refines(p.ord, new) /\ new.high = s
  <2>1. oc.step \in {GoalId} \cup RealSteps(p.ord)
    BY <1>4, PlanSizes DEF Consumers
  <2>2. p.ord.high + 1 <= MaxSteps /\ s = p.ord.high + 1
    BY <1>1, <1>6
  <2> QED BY <1>1, <2>1, <2>2, NewStepRefines
<1> DEFINE cost == p.cost + P.T.ops[o].cost
<1>19. q = Stepped(p, new, cost, ps, ls, os)
  BY DEF Stepped
<1> HIDE DEF new, ps, pre, guard, os, ls, cost, q
<1>8. /\ HasShape(q) /\ q.ops = ps /\ q.threats = p.threats /\ q.suppressed = p.suppressed
      /\ q.disjunctions = p.disjunctions /\ q.ord = new /\ q.links = ls /\ q.opens = os
  BY <1>1, <1>19, SteppedFields
<1>9. PlanSteps(q) = 1 .. s /\ PlanSteps(p) \subseteq PlanSteps(q) /\ \A x \in PlanSteps(p) : q.ops[x] = p.ops[x]
  BY <1>6, <1>8 DEF PlanSteps
<1>10. Len(ls) = Len(p.links) + 1 /\ \A k \in DOMAIN p.links : k \in DOMAIN ls /\ ls[k] = p.links[k]
  BY <1>1 DEF ls
<1>11. /\ Links(P, p) \subseteq Links(P, q) /\ Opens(P, p) \subseteq Opens(P, q)
       /\ Suppressible(P, p) \subseteq Suppressible(P, q)
       /\ Threats(P, p) \subseteq Threats(P, q) /\ Disjunctions(P, p) \subseteq Disjunctions(P, q)
  <2>1. DOMAIN p.links \subseteq DOMAIN q.links
    BY <1>8, <1>10
  <2> QED BY <1>9, <2>1, TypesGrow
<1>12. l \in Links(P, q)
  <2>1. s \in PlanSteps(q)
    BY <1>6, <1>9
  <2>2. oc.step \in Consumers(q)
    BY <1>4, <1>9 DEF Consumers
  <2> QED BY <1>4, <1>5, <2>1, <2>2 DEF Links, Producers
<1>13. ls \in Seq(Links(P, q)) /\ ToSet(ls) = ToSet(p.links) \cup {l}
  <2>1. p.links \in Seq(Links(P, q))
    BY <1>1, <1>11, SeqGrows
  <2> QED BY <1>12, <2>1, AppendMembers DEF ls
<1>14. os \in Seq(Opens(P, q)) /\ ToSet(p.opens) \ {oc} \subseteq ToSet(os)
  <2>1. \A f \in Facts(P.T) : [step |-> s, fact |-> f] \in Opens(P, q)
    BY <1>6, <1>9 DEF Consumers, Opens
  <2>2. FactSeq(pre) \in Seq(Facts(P.T)) /\ FactSeq(guard) \in Seq(Facts(P.T))
    BY <1>5, FactsOpen, SeqGrows
  <2>3. FactSeq(pre) \o FactSeq(guard) \in Seq(Facts(P.T))
    BY <2>2, ConcatMembers
  <2>4. WithoutOpen(p.opens, oc) \in Seq(Opens(P, q))
    BY <1>4, <1>11, SeqGrows
  <2>5. os \in Seq(Opens(P, q)) /\ ToSet(WithoutOpen(p.opens, oc)) \subseteq ToSet(os)
    BY <2>1, <2>3, <2>4, OpenedMembers DEF os
  <2> QED BY <1>4, <2>5
<1>15. IsPlan(P, q)
  <2>1. q.links \in Seq(Links(P, q)) /\ q.opens \in Seq(Opens(P, q)) /\ q.threats \in Seq(Threats(P, q))
        /\ q.disjunctions \in Seq(Disjunctions(P, q))
    BY <1>8, <1>11, <1>13, <1>14, SeqGrows DEF IsPlan
  <2>2. OrdersPlan(q)
    BY <1>6, <1>7, <1>8 DEF OrdersPlan, Refines
  <2>3. q.suppressed \subseteq Suppressible(P, q)
    BY <1>8, <1>11 DEF IsPlan
  <2> QED BY <1>6, <1>8, <2>1, <2>2, <2>3 DEF IsPlan
<1>16. \A x : Commitments(p, x) \subseteq Commitments(q, x)
  <2>1. l \in ToSet(q.links) /\ l.to = oc.step /\ l.fact = oc.fact
    BY <1>8, <1>13
  <2>2. ToSet(p.opens) \ {oc} \subseteq ToSet(q.opens) /\ ToSet(p.links) \subseteq ToSet(q.links)
    BY <1>8, <1>13, <1>14
  <2> HIDE DEF l
  <2> QED BY <2>1, <2>2, CommitmentsKept
<1>17. Grows(p, q)
  <2>1. \A x \in PlanSteps(p) : p.ord.succ[x] \subseteq q.ord.succ[x]
    BY <1>7, <1>8, PlanSizes DEF Refines
  <2> QED BY <1>8, <1>9, <1>10, <1>16, <2>1 DEF Grows
<1>18. c.by = "step" /\ c.plan = q
  BY <1>3
<1> QED BY <1>3, <1>6, <1>8, <1>10, <1>15, <1>17, <1>18 DEF Child, ps, ls, NewLink, StepChild

-----------------------------------------------------------------------------
(* A finished child is a plan with a tight cache.                           *)

Kept(P, p) == IsPlan(P, p) /\ Cached(P, p, Pairs(p)) /\ Tight(P, p)

\* What each kind of refinement makes of a plan, before it is finished.
Sprouts(P, p, c) ==
  \/ c.by = "derived" /\ Kept(P, c.plan) /\ c.plan.ops = p.ops
  \/ /\ c.by = "order" /\ Child(P, p, c.plan)
     /\ c.plan.ops = p.ops /\ c.plan.links = p.links
  \/ /\ c.by = "link" /\ Child(P, p, c.plan)
     /\ c.plan.ops = p.ops /\ Len(c.plan.links) = Len(p.links) + 1
  \/ /\ c.by = "step" /\ Child(P, p, c.plan)
     /\ Len(c.plan.ops) = Len(p.ops) + 1 /\ Len(c.plan.links) = Len(p.links) + 1

LEMMA SettledChild ==
  ASSUME NEW P, NEW p, Kept(P, p), NEW q, Child(P, p, q)
  PROVE  /\ \A r \in Settled(P, q) :
              SettledFrom(P, q, r) /\ Cached(P, r, Pairs(p)) /\ Tight(P, r)
         /\ AtMostOne(Settled(P, q))
<1>1. IsPlan(P, p) /\ IsPlan(P, q) /\ Grows(p, q) /\ q.threats = p.threats /\ Cached(P, p, Pairs(p))
  BY DEF Kept, Child
<1>2. Cached(P, q, Pairs(p)) /\ Pairs(p) \subseteq Pairs(q)
  BY <1>1, CachedGrows
<1> QED BY <1>1, <1>2, SettledIsTight

LEMMA LinkFinished ==
  ASSUME NEW P, IsPlannerFor(P), NEW p, Kept(P, p), NEW q, Child(P, p, q),
         Len(q.links) = Len(p.links) + 1, NEW r \in Settled(P, q)
  PROVE  LET a == AddLinkThreats(P, r) IN
         /\ IsPlan(P, a) /\ a.ops = q.ops /\ a.links = q.links
         /\ Cached(P, a, Pairs(p) \cup ({Len(q.links)} \X PlanSteps(a))) /\ Tight(P, a)
<1> DEFINE k == Len(q.links)
           a == AddLinkThreats(P, r)
<1>1. SettledFrom(P, q, r) /\ Cached(P, r, Pairs(p)) /\ Tight(P, r)
  BY SettledChild
<1>2. IsPlan(P, r) /\ r.ops = q.ops /\ r.links = q.links
  BY <1>1 DEF SettledFrom
<1>3. Len(p.links) \in Nat /\ DOMAIN p.links = 1 .. Len(p.links) /\ DOMAIN r.links = 1 .. k
  BY <1>2, PlanSizes DEF Kept
<1>4. k \in DOMAIN r.links /\ k = Len(r.links)
  BY <1>2, <1>3
<1>5. \A x, y : <<x, y>> \in Pairs(p) => x < k
  BY <1>3 DEF Pairs
<1>6. /\ IsPlan(P, a) /\ SameRefinement(r, a)
      /\ Cached(P, a, Pairs(p) \cup ({k} \X PlanSteps(r))) /\ Tight(P, a)
  BY <1>1, <1>2, <1>4, <1>5, LinkThreatsAdded
<1> HIDE DEF a
<1>7. a.ops = q.ops /\ a.links = q.links /\ PlanSteps(a) = PlanSteps(r)
  BY <1>2, <1>6 DEF SameRefinement, PlanSteps
<1> QED BY <1>6, <1>7 DEF a

LEMMA FinishedKept ==
  ASSUME NEW P, IsPlannerFor(P), NEW p, Kept(P, p), NEW c, Sprouts(P, p, c)
  PROVE  /\ \A x \in Finished(P, c) : Kept(P, x) /\ x.ops = c.plan.ops /\ x.links = c.plan.links
         /\ AtMostOne(Finished(P, c))
<1> DEFINE q == c.plan
<1>1. CASE c.by = "derived"
  <2>1. Finished(P, c) = {q}
    BY <1>1 DEF Finished
  <2>2. Kept(P, q)
    BY <1>1 DEF Sprouts
  <2> QED BY <2>1, <2>2 DEF AtMostOne
<1>2. CASE c.by = "order"
  <2>1. Finished(P, c) = {r : r \in Settled(P, q)}
    BY <1>2 DEF Finished
  <2>2. Child(P, p, q) /\ q.ops = p.ops /\ q.links = p.links
    BY <1>2 DEF Sprouts
  <2>3. /\ \A r \in Settled(P, q) : SettledFrom(P, q, r) /\ Cached(P, r, Pairs(p)) /\ Tight(P, r)
        /\ AtMostOne(Settled(P, q))
    BY <2>2, SettledChild
  <2>4. ASSUME NEW r \in Settled(P, q) PROVE Kept(P, r) /\ r.ops = q.ops /\ r.links = q.links
    <3>1. IsPlan(P, r) /\ r.ops = q.ops /\ r.links = q.links
      BY <2>3 DEF SettledFrom
    <3>2. Pairs(r) = Pairs(p)
      BY <2>2, <3>1 DEF Pairs, PlanSteps
    <3> QED BY <2>3, <3>1, <3>2 DEF Kept
  <2> QED BY <2>1, <2>3, <2>4
<1>3. CASE c.by = "link"
  <2>1. Finished(P, c) = {AddLinkThreats(P, r) : r \in Settled(P, q)}
    BY <1>3 DEF Finished
  <2>2. Child(P, p, q) /\ q.ops = p.ops /\ Len(q.links) = Len(p.links) + 1
    BY <1>3 DEF Sprouts
  <2>3. AtMostOne(Settled(P, q))
    BY <2>2, SettledChild
  <2>4. ASSUME NEW r \in Settled(P, q)
        PROVE  LET a == AddLinkThreats(P, r) IN Kept(P, a) /\ a.ops = q.ops /\ a.links = q.links
    <3> DEFINE a == AddLinkThreats(P, r)
    <3>1. /\ IsPlan(P, a) /\ a.ops = q.ops /\ a.links = q.links
          /\ Cached(P, a, Pairs(p) \cup ({Len(q.links)} \X PlanSteps(a))) /\ Tight(P, a)
      BY <2>2, LinkFinished
    <3> HIDE DEF a
    <3>2. /\ DOMAIN p.links = 1 .. Len(p.links) /\ Len(p.links) \in Nat
          /\ DOMAIN a.links = 1 .. Len(p.links) + 1
      BY <2>2, <3>1, PlanSizes DEF Kept
    <3>3. PlanSteps(a) = PlanSteps(p)
      BY <2>2, <3>1 DEF PlanSteps
    <3>4. DOMAIN a.links = (DOMAIN p.links) \cup {Len(q.links)}
      BY <2>2, <3>2
    <3>5. Pairs(a) = Pairs(p) \cup ({Len(q.links)} \X PlanSteps(a))
      BY <3>3, <3>4 DEF Pairs
    <3>6. Kept(P, a)
      BY <3>1, <3>5 DEF Kept
    <3> QED BY <3>1, <3>6 DEF a
  <2>5. \A x : x \in Finished(P, c) <=> \E r \in Settled(P, q) : x = AddLinkThreats(P, r)
    BY <2>1
  <2> QED BY <2>3, <2>4, <2>5 DEF AtMostOne
<1>4. CASE c.by = "step"
  <2>1. Finished(P, c) = {AddStepThreats(P, AddLinkThreats(P, r), Len(r.ops)) : r \in Settled(P, q)}
    BY <1>4 DEF Finished
  <2>2. Child(P, p, q) /\ Len(q.ops) = Len(p.ops) + 1 /\ Len(q.links) = Len(p.links) + 1
    BY <1>4 DEF Sprouts
  <2>3. AtMostOne(Settled(P, q))
    BY <2>2, SettledChild
  <2>4. ASSUME NEW r \in Settled(P, q)
        PROVE  LET b == AddStepThreats(P, AddLinkThreats(P, r), Len(r.ops)) IN
               Kept(P, b) /\ b.ops = q.ops /\ b.links = q.links
    <3> DEFINE a == AddLinkThreats(P, r)
               n == Len(q.ops)
               b == AddStepThreats(P, a, n)
               K == Pairs(p) \cup ({Len(q.links)} \X PlanSteps(a))
    <3>10. Len(q.links) = Len(p.links) + 1 /\ Child(P, p, q)
      BY <2>2
    <3>1. /\ IsPlan(P, a) /\ a.ops = q.ops /\ a.links = q.links
          /\ Cached(P, a, Pairs(p) \cup ({Len(q.links)} \X PlanSteps(a))) /\ Tight(P, a)
      BY <3>10, LinkFinished
    <3>2. r.ops = q.ops
      BY <2>2, SettledChild DEF SettledFrom
    <3> HIDE DEF a, b
    <3>11. Cached(P, a, K)
      BY <3>1
    <3> HIDE DEF K
    <3>3. /\ DOMAIN p.links = 1 .. Len(p.links) /\ Len(p.links) \in Nat
          /\ DOMAIN a.links = 1 .. Len(p.links) + 1
          /\ PlanSteps(p) = 1 .. Len(p.ops) /\ Len(p.ops) \in Nat /\ PlanSteps(a) = 1 .. Len(p.ops) + 1
      BY <2>2, <3>1, PlanSizes DEF Kept
    <3>4. n \in PlanSteps(a)
      BY <2>2, <3>3
    <3>5. /\ IsPlan(P, b) /\ SameRefinement(a, b)
          /\ Cached(P, b, K \cup ((DOMAIN a.links) \X {n})) /\ Tight(P, b)
      BY <3>1, <3>4, <3>11, StepThreatsAdded DEF b
    <3>6. b.ops = q.ops /\ b.links = q.links /\ PlanSteps(b) = PlanSteps(a) /\ DOMAIN b.links = DOMAIN a.links
      BY <3>1, <3>5 DEF SameRefinement, PlanSteps
    <3>7. PlanSteps(a) = PlanSteps(p) \cup {n} /\ DOMAIN a.links = (DOMAIN p.links) \cup {Len(q.links)}
      BY <2>2, <3>3
    <3>8. Pairs(b) = K \cup ((DOMAIN a.links) \X {n})
      BY <3>6, <3>7 DEF Pairs, K
    <3>9. Kept(P, b)
      BY <3>5, <3>8 DEF Kept
    <3> QED BY <3>2, <3>6, <3>9 DEF b, a
  <2>5. \A x : x \in Finished(P, c)
                 <=> \E r \in Settled(P, q) : x = AddStepThreats(P, AddLinkThreats(P, r), Len(r.ops))
    BY <2>1
  <2> QED BY <2>3, <2>4, <2>5 DEF AtMostOne
<1> QED BY <1>1, <1>2, <1>3, <1>4 DEF Sprouts

-----------------------------------------------------------------------------
(* Every refinement sprouts from its plan.                                  *)

LEMMA AchieverFacts ==
  ASSUME NEW P, IsPlannerFor(P), NEW f \in Facts(P.T), f \notin DOMAIN P.supports, NEW a \in P.achievers[f]
  PROVE  /\ IsFiniteSet(P.achievers[f])
         /\ a[1] \in Operators(P.T) /\ a[2] \in DOMAIN P.T.ops[a[1]].effs /\ a[2] \in Nat
         /\ a = <<a[1], a[2]>> /\ P.T.ops[a[1]].effs[a[2]].cond \in SUBSET Facts(P.T)
<1>1. IsFiniteSet(P.achievers[f]) /\ a \in Effects(P.T)
  BY DEF IsPlannerFor, IsPlanner
<1>2. \E o \in Operators(P.T) : a \in {o} \X DOMAIN P.T.ops[o].effs
  BY <1>1 DEF Effects
<1>3. a[1] \in Operators(P.T) /\ a[2] \in DOMAIN P.T.ops[a[1]].effs /\ a = <<a[1], a[2]>>
  BY <1>2
<1>4. /\ DOMAIN P.T.ops[a[1]].effs \subseteq 1 .. NoEffect - 1
      /\ P.T.ops[a[1]].effs[a[2]].cond \subseteq Facts(P.T)
  BY <1>3 DEF IsPlannerFor, IsTask
<1> QED BY <1>1, <1>3, <1>4 DEF NoEffect

LEMMA OpensChanged ==
  ASSUME NEW P, NEW p, IsPlan(P, p), NEW os \in Seq(Opens(P, p)), NEW q, q = [p EXCEPT !.opens = os]
  PROVE  /\ IsPlan(P, q) /\ q.opens = os /\ q.ops = p.ops /\ q.links = p.links /\ q.ord = p.ord
         /\ q.threats = p.threats /\ q.suppressed = p.suppressed /\ PlanSteps(q) = PlanSteps(p)
         /\ Threats(P, q) = Threats(P, p)
<1>1. HasShape(p)
  BY DEF IsPlan
<1>2. /\ HasShape(q) /\ q.opens = os /\ q.ops = p.ops /\ q.links = p.links /\ q.ord = p.ord
      /\ q.threats = p.threats /\ q.suppressed = p.suppressed /\ q.disjunctions = p.disjunctions
  BY <1>1 DEF HasShape
<1>3. PlanSteps(q) = PlanSteps(p) /\ Threats(P, q) = Threats(P, p)
  BY <1>2 DEF PlanSteps, Threats, Op
<1>4. Links(P, q) = Links(P, p) /\ Opens(P, q) = Opens(P, p) /\ Disjunctions(P, q) = Disjunctions(P, p)
      /\ Suppressible(P, q) = Suppressible(P, p)
  BY <1>2, <1>3 DEF Links, Opens, Disjunctions, Suppressible, Producers, Consumers, Op, Eff
<1>5. IsPlan(P, q)
  BY <1>2, <1>3, <1>4 DEF IsPlan, OrdersPlan
<1> QED BY <1>2, <1>3, <1>5

\* The expansion of a derived condition is not settled: it leaves the cache as
\* it is, exact for the threats no commitment disarms.
LEMMA DerivedKept ==
  ASSUME NEW P, IsPlannerFor(P), NEW p, Kept(P, p), NEW oc \in ToSet(p.opens),
         oc.fact \in DOMAIN P.supports, NEW c \in DerivedChildren(P, p, oc)
  PROVE  Sprouts(P, p, c)
<1>1. PICK d \in P.supports[oc.fact] :
        c = [by |-> "derived", plan |-> [p EXCEPT !.opens =
                AddOpens(WithoutOpen(p.opens, oc), oc.step, FactSeq(d))]]
  <2>1. HasShape(p)
    BY DEF Kept, IsPlan
  <2> QED BY <2>1 DEF DerivedChildren, HasShape
<1> DEFINE os == AddOpens(WithoutOpen(p.opens, oc), oc.step, FactSeq(d))
           q == [p EXCEPT !.opens = os]
<1>2. IsPlan(P, p) /\ Cached(P, p, Pairs(p)) /\ Tight(P, p)
  BY DEF Kept
<1>3. P.T.axioms # <<>> /\ d \in SUBSET Facts(P.T)
  <2>1. oc.fact \in {f \in Facts(P.T) : IsDerived(P.T, f[1])} /\ P.supports[oc.fact] \subseteq SUBSET Facts(P.T)
    BY DEF IsPlannerFor, IsPlanner
  <2>2. P.T.axioms # <<>>
    BY <2>1 DEF IsDerived
  <2> QED BY <2>1, <2>2
<1>4. os \in Seq(Opens(P, p))
  <2>1. /\ oc.step \in Consumers(p) /\ WithoutOpen(p.opens, oc) \in Seq(Opens(P, p))
    BY <1>2, OpenConditions
  <2>2. \A f \in d : [step |-> oc.step, fact |-> f] \in Opens(P, p)
    BY <1>3, <2>1 DEF Opens
  <2>3. FactSeq(d) \in Seq(d)
    BY <1>3, FactsOpen
  <2> QED BY <2>1, <2>2, <2>3, OpenedMembers
<1>5. c.by = "derived" /\ c.plan = q
  BY <1>1
<1> HIDE DEF os
<1>6. q = [p EXCEPT !.opens = os]
  OBVIOUS
<1> HIDE DEF q
<1>7. /\ IsPlan(P, q) /\ q.opens = os /\ q.ops = p.ops /\ q.links = p.links /\ q.ord = p.ord
      /\ q.threats = p.threats /\ q.suppressed = p.suppressed /\ PlanSteps(q) = PlanSteps(p)
      /\ Threats(P, q) = Threats(P, p)
  BY <1>2, <1>4, <1>6, OpensChanged
<1>8. Pairs(q) = Pairs(p) /\ \A R : Known(P, q, R) = Known(P, p, R)
  BY <1>7 DEF Pairs, Known
<1>9. \A s : Op(P, q, s) = Op(P, p, s) /\ \A e : Eff(P, q, s, e) = Eff(P, p, s, e)
  BY <1>7 DEF Op, Eff
<1>10. \A t : Minded(P, q, t) = Minded(P, p, t) /\ Leading(P, q, t) = Leading(P, p, t)
  <2>1. \A s, k : CertainDeletes(P, q, s, k) = CertainDeletes(P, p, s, k)
    BY <1>7, <1>9 DEF CertainDeletes
  <2> QED BY <1>7, <1>9, <2>1 DEF Minded, Unguarded, Leading
<1>11. ASSUME NEW t \in Threats(P, p), Minded(P, p, t)
       PROVE  ThreatActive(P, q, t) = ThreatActive(P, p, t)
  <2>1. t.effect = NoEffect \/ Eff(P, p, t.step, t.effect).cond = {}
    BY <1>3, <1>11 DEF Minded, Unguarded
  <2>2. t.step \in PlanSteps(p) /\ (t.effect = NoEffect \/ t.effect \in DOMAIN Op(P, p, t.step).effs)
    BY DEF Threats
  <2>3. CASE t.effect = NoEffect
    BY <1>7, <2>3 DEF ThreatActive, CanBeInside
  <2>4. CASE t.effect # NoEffect
    <3>1. ~ EffectCannotFire(P, p, t.step, t.effect)
      BY <1>2, <2>1, <2>2, <2>4, UnconditionalFires
    <3>2. ~ EffectCannotFire(P, q, t.step, t.effect)
      BY <1>7, <1>9, <2>1, <2>2, <2>4, UnconditionalFires
    <3> QED BY <1>7, <1>9, <2>4, <3>1, <3>2 DEF ThreatActive, CanBeInside
  <2> QED BY <2>3, <2>4
<1>12. \A t \in Known(P, p, Pairs(p)) : t \in Threats(P, p)
  BY DEF Known
<1>13. Cached(P, q, Pairs(q))
  BY <1>2, <1>7, <1>8, <1>10, <1>11, <1>12 DEF Cached
<1>14. Tight(P, q)
  <2>1. \A t \in ToSet(p.threats) : t \in Threats(P, p)
    BY <1>2, <1>12 DEF Cached
  <2> QED BY <1>2, <1>7, <1>10, <1>11, <2>1 DEF Tight
<1> QED BY <1>5, <1>7, <1>13, <1>14 DEF Sprouts, Kept

LEMMA OpenSprouts ==
  ASSUME NEW P, IsPlannerFor(P), NEW p, Kept(P, p), NEW oc \in ToSet(p.opens),
         NEW c \in OpenChildren(P, p, oc)
  PROVE  Sprouts(P, p, c)
<1>1. IsPlan(P, p)
  BY DEF Kept
<1>2. oc.fact \in Facts(P.T)
  BY <1>1, OpenConditions
<1>3. CASE oc.fact \in DOMAIN P.supports
  BY <1>3, DerivedKept DEF OpenChildren
<1>4. CASE oc.fact \notin DOMAIN P.supports
  <2>1. c \in NewStepChildren(P, p, oc) \/ c \in ReuseChildren(P, p, oc) \/ c \in InitialChildren(P, p, oc)
    BY <1>4 DEF OpenChildren
  <2>2. CASE c \in NewStepChildren(P, p, oc)
    <3>1. PICK a \in P.achievers[oc.fact] : c \in AddStep(P, p, oc, a[1], a[2])
      BY <2>2 DEF NewStepChildren
    <3>2. a[1] \in Operators(P.T) /\ a[2] \in DOMAIN P.T.ops[a[1]].effs
      BY <1>2, <1>4, AchieverFacts
    <3>3. /\ c.by = "step" /\ Child(P, p, c.plan)
          /\ Len(c.plan.ops) = Len(p.ops) + 1 /\ Len(c.plan.links) = Len(p.links) + 1
      <4>1. PICK o \in Operators(P.T) : \E e \in DOMAIN P.T.ops[o].effs : c \in AddStep(P, p, oc, o, e)
        BY <3>1, <3>2
      <4>2. PICK e \in DOMAIN P.T.ops[o].effs : c \in AddStep(P, p, oc, o, e)
        BY <4>1
      <4>3. StepChild(P, p, oc, o, e, c)
        BY <1>1, <4>2, StepGrows
      <4> QED BY <4>3 DEF StepChild
    <3> QED BY <3>3 DEF Sprouts
  <2>3. CASE c \in ReuseChildren(P, p, oc)
    <3>1. PICK s \in PlanSteps(p), a \in P.achievers[oc.fact] :
            a[1] = p.ops[s] /\ c \in Support(P, p, oc, s, a[2], Eff(P, p, s, a[2]).cond)
      BY <2>3 DEF ReuseChildren
    <3>2. a[2] \in Nat /\ Eff(P, p, s, a[2]).cond \in SUBSET Facts(P.T)
      BY <1>2, <1>4, <3>1, AchieverFacts DEF Eff, Op
    <3>3. s \in Producers(p) /\ s # InitId
      BY <1>1, PlanSizes DEF Producers, InitId
    <3>4. /\ c.by = "link" /\ Child(P, p, c.plan) /\ c.plan.ops = p.ops
          /\ Len(c.plan.links) = Len(p.links) + 1
      BY <1>1, <3>1, <3>2, <3>3, SupportGrows
    <3> QED BY <3>4 DEF Sprouts
  <2>4. CASE c \in InitialChildren(P, p, oc)
    <3>1. c \in Support(P, p, oc, InitId, 0, {})
      BY <2>4 DEF InitialChildren
    <3>2. InitId \in Producers(p) /\ 0 \in Nat /\ {} \in SUBSET Facts(P.T)
      BY DEF Producers
    <3>4. /\ c.by = "link" /\ Child(P, p, c.plan) /\ c.plan.ops = p.ops
          /\ Len(c.plan.links) = Len(p.links) + 1
      BY <1>1, <3>1, <3>2, SupportGrows
    <3> QED BY <3>4 DEF Sprouts
  <2> QED BY <2>1, <2>2, <2>3, <2>4
<1> QED BY <1>3, <1>4

LEMMA NarrowedSprouts ==
  ASSUME NEW P, NEW p, IsPlan(P, p), NEW c, c.by = "order", Narrows(p, c.plan, Disjunctions(P, p))
  PROVE  Sprouts(P, p, c)
<1>1. IsPlan(P, c.plan) /\ Grows(p, c.plan)
  BY NarrowedPlan
<1>2. c.plan.threats = p.threats /\ c.plan.ops = p.ops /\ c.plan.links = p.links
  BY DEF Narrows
<1> QED BY <1>1, <1>2 DEF Sprouts, Child

ConfrontedOpens(p, t, f) ==
  LET linked == \E l \in ToSet(p.links) : l.to = t.step /\ l.fact = f IN
  IF linked THEN p.opens ELSE AddOpens(p.opens, t.step, <<f>>)

\* A confronted effect is suppressed, and its step asks for a value that
\* keeps it from firing.
LEMMA ConfrontedGrows ==
  ASSUME NEW P, IsPlannerFor(P), NEW p, IsPlan(P, p), NEW t \in Threats(P, p), NEW q \in Confronted(P, p, t)
  PROVE  Child(P, p, q) /\ q.ops = p.ops /\ q.links = p.links
<1>1. PICK f \in Confrontations(P, p, t) :
        q = [p EXCEPT !.suppressed = p.suppressed \cup {<<t.step, t.effect>>}, !.opens = ConfrontedOpens(p, t, f)]
  <2>1. HasShape(p)
    BY DEF IsPlan
  <2> QED BY <2>1 DEF Confronted, ConfrontedOpens, HasShape
<1> DEFINE os == ConfrontedOpens(p, t, f)
           ss == p.suppressed \cup {<<t.step, t.effect>>}
<1>2. t.step \in PlanSteps(p) /\ t.effect \in Nat
      /\ (t.effect = NoEffect \/ t.effect \in DOMAIN Op(P, p, t.step).effs)
  BY PlanSizes DEF Threats, Triples
<1>3. PICK g \in Eff(P, p, t.step, t.effect).cond : t.effect # NoEffect /\ f \in {g[1]} \X Values(P.T, g[1])
  BY DEF Confrontations
<1>4. f \in Facts(P.T)
  <2>1. p.ops[t.step] \in Operators(P.T)
    BY <1>2, PlanSizes
  <2>2. g \in Facts(P.T)
    BY <1>2, <1>3, <2>1 DEF IsPlannerFor, IsTask, Eff, Op
  <2>3. \E v \in Variables(P.T) : g \in {v} \X Values(P.T, v)
    BY <2>2 DEF Facts
  <2>4. g[1] \in Variables(P.T)
    BY <2>3
  <2> QED BY <1>3, <2>4 DEF Facts
<1>5. p.opens \in Seq(Opens(P, p)) /\ [step |-> t.step, fact |-> f] \in Opens(P, p)
  BY <1>2, <1>4 DEF IsPlan, Opens, Consumers
<1>6. os \in Seq(Opens(P, p)) /\ ToSet(p.opens) \subseteq ToSet(os)
  <2> DEFINE F == {f}
             fs == <<f>>
  <2>1. fs \in Seq(F) /\ \A h \in F : [step |-> t.step, fact |-> h] \in Opens(P, p)
    BY <1>5
  <2> HIDE DEF F, fs
  <2>2. AddOpens(p.opens, t.step, fs) \in Seq(Opens(P, p))
        /\ ToSet(p.opens) \subseteq ToSet(AddOpens(p.opens, t.step, fs))
    BY <1>5, <2>1, OpenedMembers
  <2> QED BY <1>5, <2>2 DEF ConfrontedOpens, fs
<1>7. ss \subseteq Suppressible(P, p)
  <2>1. <<t.step, t.effect>> \in Suppressible(P, p)
    BY <1>2, <1>3 DEF Suppressible
  <2> QED BY <2>1 DEF IsPlan
<1>8. HasShape(p)
  BY DEF IsPlan
<1> HIDE DEF os, ss
<1>9. q = [p EXCEPT !.suppressed = ss, !.opens = os]
  BY <1>1 DEF os, ss
<1>10. /\ HasShape(q) /\ q.ops = p.ops /\ q.threats = p.threats /\ q.links = p.links /\ q.ord = p.ord
       /\ q.disjunctions = p.disjunctions /\ q.suppressed = ss /\ q.opens = os
  <2>1. q = [ops |-> p.ops, links |-> p.links, ord |-> p.ord, threats |-> p.threats, cost |-> p.cost,
             suppressed |-> ss, disjunctions |-> p.disjunctions, opens |-> os]
    BY <1>8, <1>9 DEF HasShape
  <2> QED BY <2>1 DEF HasShape
<1>11. PlanSteps(q) = PlanSteps(p)
  BY <1>10 DEF PlanSteps
<1>12. /\ Links(P, p) \subseteq Links(P, q) /\ Opens(P, p) \subseteq Opens(P, q)
       /\ Suppressible(P, p) \subseteq Suppressible(P, q)
       /\ Threats(P, p) \subseteq Threats(P, q) /\ Disjunctions(P, p) \subseteq Disjunctions(P, q)
  BY <1>10, <1>11, TypesGrow
<1>13. IsPlan(P, q)
  <2>1. q.links \in Seq(Links(P, q)) /\ q.opens \in Seq(Opens(P, q)) /\ q.threats \in Seq(Threats(P, q))
        /\ q.disjunctions \in Seq(Disjunctions(P, q))
    BY <1>6, <1>10, <1>12, SeqGrows DEF IsPlan
  <2>2. OrdersPlan(q)
    BY <1>10 DEF IsPlan, OrdersPlan
  <2>3. q.suppressed \subseteq Suppressible(P, q)
    BY <1>7, <1>10, <1>12
  <2> QED BY <1>10, <2>1, <2>2, <2>3 DEF IsPlan
<1>14. \A s : Commitments(p, s) \subseteq Commitments(q, s)
  <2>1. ToSet(p.opens) \subseteq ToSet(q.opens) /\ q.links = p.links
    BY <1>6, <1>10
  <2> QED BY <2>1 DEF Commitments
<1>15. Grows(p, q)
  <2>1. p.suppressed \subseteq q.suppressed
    BY <1>10 DEF ss
  <2> QED BY <1>10, <1>11, <1>14, <2>1 DEF Grows
<1> QED BY <1>10, <1>13, <1>15 DEF Child

LEMMA ThreatSprouts ==
  ASSUME NEW P, IsPlannerFor(P), NEW p, Kept(P, p), NEW t \in ToSet(p.threats),
         NEW c \in ResolveThreat(P, p, t)
  PROVE  Sprouts(P, p, c)
<1> DEFINE l == p.links[t.link]
           d == [threat |-> t, promote |-> <<l.to, t.step>>, demote |-> <<t.step, l.from>>]
           D == Disjunctions(P, p)
<1>1. IsPlan(P, p) /\ t \in Threats(P, p)
  BY DEF Kept, Cached, Known
<1>2. t.step \in PlanSteps(p) /\ l \in Links(P, p)
  BY <1>1, PlanSizes DEF Threats
<1>3. l.from \in Producers(p) /\ l.to \in Consumers(p)
  BY <1>2 DEF Links
<1>4. c.by = "order" /\ (\/ c.plan \in Confronted(P, p, t) \/ c.plan \in Promoted(p, t) \/ c.plan \in Demoted(p, t)
                         \/ c.plan \in PostDisjunction(p, t))
  BY DEF ResolveThreat, OrderChildren
<1>5. ASSUME NEW q \in Promoted(p, t) PROVE Narrows(p, q, D)
  <2>1. l.to # GoalId /\ q \in Ordered(p, <<l.to, t.step>>)
    BY <1>5 DEF Promoted
  <2>2. <<l.to, t.step>> \in Producers(p) \X Consumers(p)
    BY <1>2, <1>3, <2>1 DEF Producers, Consumers
  <2> QED BY <1>1, <2>1, <2>2, OrderedNarrows
<1>6. ASSUME NEW q \in Demoted(p, t) PROVE Narrows(p, q, D)
  <2>1. l.from # InitId /\ q \in Ordered(p, <<t.step, l.from>>)
    BY <1>6 DEF Demoted
  <2>2. <<t.step, l.from>> \in Producers(p) \X Consumers(p)
    BY <1>2, <1>3, <2>1 DEF Producers, Consumers
  <2> QED BY <1>1, <2>1, <2>2, OrderedNarrows
<1>7. ASSUME NEW q \in PostDisjunction(p, t) PROVE Narrows(p, q, D)
  <2>1. CASE l.to # GoalId /\ l.from # InitId
    <3>1. d \in D
      BY <1>1, <1>2, <1>3, <2>1 DEF Disjunctions, Producers, Consumers
    <3>2. q = [p EXCEPT !.disjunctions = Append(p.disjunctions, d)]
      BY <1>1, <1>7, <2>1 DEF PostDisjunction, IsPlan, HasShape
    <3> HIDE DEF d, D
    <3>3. p.disjunctions \in Seq(D)
      BY <1>1 DEF IsPlan, D
    <3>4. Append(p.disjunctions, d) \in Seq(D)
      BY <3>1, <3>3
    <3> QED BY <1>1, <3>2, <3>4, DisjunctionsNarrow DEF D
  <2>2. CASE ~ (l.to # GoalId /\ l.from # InitId)
    BY <1>5, <1>6, <1>7, <2>2 DEF PostDisjunction
  <2> QED BY <2>1, <2>2
<1> HIDE DEF D
<1>8. CASE c.plan \in Confronted(P, p, t)
  BY <1>1, <1>4, <1>8, ConfrontedGrows DEF Sprouts
<1>9. CASE Narrows(p, c.plan, D)
  BY <1>1, <1>4, <1>9, NarrowedSprouts DEF D
<1> QED BY <1>4, <1>5, <1>6, <1>7, <1>8, <1>9

LEMMA SplitSprouts ==
  ASSUME NEW P, NEW p, Kept(P, p), p.disjunctions # <<>>, NEW c \in SplitDisjunction(p)
  PROVE  Sprouts(P, p, c)
<1> DEFINE d == p.disjunctions[1]
           rest == [p EXCEPT !.disjunctions = Tail(p.disjunctions)]
           D == Disjunctions(P, p)
<1>1. IsPlan(P, p) /\ HasShape(p) /\ p.disjunctions \in Seq(D)
  BY DEF Kept, IsPlan
<1>2. PICK ab \in {d.promote, d.demote} : c.by = "order" /\ c.plan \in Ordered(rest, ab)
  BY <1>1 DEF SplitDisjunction, OrderChildren, HasShape
<1>3. d \in D /\ Tail(p.disjunctions) \in Seq(D)
  BY <1>1
<1>4. ab \in PlanSteps(p) \X PlanSteps(p)
  BY <1>2, <1>3 DEF Disjunctions
<1>5. Narrows(p, rest, D) /\ IsPlan(P, rest)
  BY <1>1, <1>3, DisjunctionsNarrow
<1>6. PlanSteps(rest) = PlanSteps(p) /\ Disjunctions(P, rest) = D
  BY <1>1, <1>5, NarrowedPlan DEF Narrows, PlanSteps
<1> HIDE DEF rest, D
<1>7. ab \in Producers(rest) \X Consumers(rest)
  BY <1>4, <1>6 DEF Producers, Consumers
<1>8. Narrows(rest, c.plan, D)
  BY <1>2, <1>5, <1>6, <1>7, OrderedNarrows
<1>9. Narrows(p, c.plan, D)
  BY <1>5, <1>8, NarrowsOn
<1> QED BY <1>1, <1>2, <1>9, NarrowedSprouts DEF D

-----------------------------------------------------------------------------
(* The flaw an order selects is one of the plan's.                          *)

FlawOf(p, x) ==
  \/ x.threat = TRUE /\ x.flaw \in ToSet(p.threats)
  \/ x.threat = FALSE /\ x.flaw \in ToSet(p.opens)

LEMMA OwnElements ==
  ASSUME NEW n \in Nat, NEW f, f = [k \in 1 .. n |-> f[k]]
  PROVE  f \in Seq(ToSet(f)) /\ Len(f) = n
<1>1. DOMAIN f = 1 .. n
  BY DEF ToSet
<1>2. \A k \in 1 .. n : f[k] \in ToSet(f)
  BY <1>1 DEF ToSet
<1>3. f \in [1 .. n -> ToSet(f)]
  BY <1>2
<1> HIDE <1>1
<1> QED BY <1>3

LEMMA CandidateFlaws ==
  ASSUME NEW P, NEW p, IsPlan(P, p), NEW c
  PROVE  \E X : Candidates(P, p, c) \in Seq(X) /\ \A x \in X : FlawOf(p, x)
<1> DEFINE m == IF c.order \in {"LW", "MW"} THEN ConditionValues(P, p, c.reuse).work
                                            ELSE ConditionValues(P, p, c.reuse).cost
           T == [k \in DOMAIN p.threats |->
                  [flaw |-> p.threats[k], threat |-> TRUE, recency |-> k,
                   count |-> ThreatRefinements(P, p, p.threats[k]), new |-> FALSE, reuse |-> FALSE,
                   estimate |-> 0]]
           O == [k \in DOMAIN p.opens |->
                  [flaw |-> p.opens[k], threat |-> FALSE, recency |-> k,
                   count |-> OpenCount(P, p, p.opens[k]),
                   new |-> p.opens[k].fact \in DOMAIN P.supports \/ p.opens[k].fact \in Made(P.T),
                   reuse |-> HasReuse(P, p, p.opens[k]), estimate |-> m[p.opens[k].fact]]]
           xs == T \o Reverse(O)
           A == {x \in ToSet(xs) : IF x.threat THEN ThreatMatches(P, p, c, x.flaw)
                                   ELSE OpenMatches(P, p, c, x.flaw) /\ x.count <= c.max}
           X == ToSet(T) \cup ToSet(O)
<1>1. Candidates(P, p, c) = Among(xs, A)
  BY DEF Candidates
<1>2. /\ p.threats \in Seq(Threats(P, p)) /\ p.opens \in Seq(Opens(P, p))
      /\ DOMAIN p.threats = 1 .. Len(p.threats) /\ DOMAIN p.opens = 1 .. Len(p.opens)
      /\ Len(p.threats) \in Nat /\ Len(p.opens) \in Nat
  BY DEF IsPlan
<1>3. \A k \in DOMAIN T : T[k].threat = TRUE /\ T[k].flaw = p.threats[k]
  OBVIOUS
<1>4. \A k \in DOMAIN O : O[k].threat = FALSE /\ O[k].flaw = p.opens[k]
  OBVIOUS
<1>5. DOMAIN T = DOMAIN p.threats /\ DOMAIN O = DOMAIN p.opens
  OBVIOUS
<1>6. T = [k \in 1 .. Len(p.threats) |-> T[k]]
  BY <1>2
<1>7. O = [k \in 1 .. Len(p.opens) |-> O[k]]
  BY <1>2
<1> HIDE DEF A, T, O
<1>8. T \in Seq(ToSet(T)) /\ O \in Seq(ToSet(O))
  BY <1>2, <1>6, <1>7, OwnElements
<1>9. \A x \in X : FlawOf(p, x)
  <2>1. \A k \in DOMAIN T : FlawOf(p, T[k])
    BY <1>2, <1>3, <1>5, InSeq DEF FlawOf
  <2>2. \A k \in DOMAIN O : FlawOf(p, O[k])
    BY <1>2, <1>4, <1>5, InSeq DEF FlawOf
  <2> QED BY <2>1, <2>2 DEF ToSet
<1>10. ToSet(T) \subseteq X /\ ToSet(O) \subseteq X
  OBVIOUS
<1> HIDE DEF X
<1>11. T \in Seq(X) /\ O \in Seq(X)
  BY <1>8, <1>10, SeqGrows
<1>12. xs \in Seq(X)
  BY <1>11, ReverseMembers, ConcatMembers
<1> HIDE DEF xs
<1>13. Among(xs, A) \in Seq(X)
  BY <1>12, AmongMembers
<1> QED BY <1>1, <1>9, <1>13

BestSoFar(order, xs, f, n) ==
  f = [k \in 1 .. n |-> IF k = 1 THEN xs[1]
                        ELSE IF Preferred(order, xs[k], f[k - 1]) THEN xs[k] ELSE f[k - 1]]

LEMMA BestExists ==
  ASSUME NEW order, NEW xs, NEW n \in Nat
  PROVE  \E f : BestSoFar(order, xs, f, n)
<1> DEFINE D == {m \in Nat : ~ \E f : BestSoFar(order, xs, f, m)}
<1>1. CASE D = {}
  BY <1>1
<1>2. CASE D # {}
  <2>1. PICK m \in D : \A k \in D : m <= k
    BY <1>2, LeastNatural
  <2>2. CASE m = 0
    <3> DEFINE f == [k \in 1 .. 0 |-> xs[1]]
    <3>1. \A k : k \notin 1 .. 0
      OBVIOUS
    <3>2. BestSoFar(order, xs, f, 0)
      BY <3>1 DEF BestSoFar
    <3> QED BY <2>1, <2>2, <3>2
  <2>3. CASE m # 0
    <3>1. m - 1 \in Nat /\ m - 1 \notin D
      BY <2>1, <2>3
    <3>2. PICK g : BestSoFar(order, xs, g, m - 1)
      BY <3>1
    <3> DEFINE f == [k \in 1 .. m |-> IF k = 1 THEN xs[1]
                       ELSE IF Preferred(order, xs[k], g[k - 1]) THEN xs[k] ELSE g[k - 1]]
    <3>3. \A k \in 1 .. m - 1 : f[k] = g[k]
      <4>1. \A k \in 1 .. m - 1 : k \in 1 .. m
        BY <3>1
      <4>2. \A k \in 1 .. m - 1 : g[k] = IF k = 1 THEN xs[1]
                       ELSE IF Preferred(order, xs[k], g[k - 1]) THEN xs[k] ELSE g[k - 1]
        BY <3>2 DEF BestSoFar
      <4> QED BY <4>1, <4>2
    <3>4. \A k \in 1 .. m : k # 1 => k - 1 \in 1 .. m - 1
      BY <3>1
    <3>5. BestSoFar(order, xs, f, m)
      BY <3>3, <3>4 DEF BestSoFar
    <3> QED BY <2>1, <3>5
  <2> QED BY <2>2, <2>3
<1> QED BY <1>1, <1>2

LEMMA BestIsOne ==
  ASSUME NEW X, NEW xs \in Seq(X), xs # <<>>, NEW order
  PROVE  Best(order, xs) \in X
<1> DEFINE n == Len(xs)
           f == CHOOSE f : BestSoFar(order, xs, f, n)
           G == {m \in 0 .. n - 1 : f[m + 1] \in X}
<1>1. n \in Nat /\ n >= 1 /\ \A k \in 1 .. n : xs[k] \in X
  OBVIOUS
<1>2. BestSoFar(order, xs, f, n)
  BY <1>1, BestExists
<1>3. Best(order, xs) = f[n]
  BY DEF Best, BestSoFar
<1> HIDE DEF f
<1>4. \A k \in 1 .. n : f[k] = IF k = 1 THEN xs[1]
                               ELSE IF Preferred(order, xs[k], f[k - 1]) THEN xs[k] ELSE f[k - 1]
  BY <1>2 DEF BestSoFar
<1>5. 0 \in G
  BY <1>1, <1>4
<1>6. ASSUME NEW m \in 0 .. (n - 1) - 1, m \in G PROVE m + 1 \in G
  <2>1. m + 1 \in 0 .. n - 1 /\ m + 2 \in 1 .. n /\ m + 2 # 1 /\ (m + 2) - 1 = m + 1 /\ (m + 1) + 1 = m + 2
    BY <1>1
  <2>2. f[m + 2] = IF Preferred(order, xs[m + 2], f[m + 1]) THEN xs[m + 2] ELSE f[m + 1]
    BY <1>4, <2>1
  <2> QED BY <1>1, <1>6, <2>1, <2>2
<1> HIDE DEF G
<1>7. n - 1 \in Nat
  BY <1>1
<1>8. \A m \in 0 .. n - 1 : m \in G
  BY <1>5, <1>6, <1>7, Stepwise
<1>9. n - 1 \in G
  BY <1>7, <1>8
<1>10. f[(n - 1) + 1] \in X /\ (n - 1) + 1 = n
  BY <1>1, <1>9 DEF G
<1> QED BY <1>3, <1>10

FoundSoFar(P, p, flaws, f, n) ==
  f = [c \in 0 .. n |-> IF c = 0 THEN {} ELSE IF f[c - 1] # {} THEN f[c - 1]
                        ELSE IF Candidates(P, p, flaws[c]) = <<>> THEN {}
                             ELSE {Best(flaws[c].order, Candidates(P, p, flaws[c]))}]

LEMMA FoundExists ==
  ASSUME NEW P, NEW p, NEW flaws, NEW n \in Nat
  PROVE  \E f : FoundSoFar(P, p, flaws, f, n)
<1> DEFINE D == {m \in Nat : ~ \E f : FoundSoFar(P, p, flaws, f, m)}
           New(c) == IF Candidates(P, p, flaws[c]) = <<>> THEN {}
                     ELSE {Best(flaws[c].order, Candidates(P, p, flaws[c]))}
<1>1. CASE D = {}
  BY <1>1
<1>2. CASE D # {}
  <2>1. PICK m \in D : \A k \in D : m <= k
    BY <1>2, LeastNatural
  <2>2. CASE m = 0
    <3> DEFINE f == [k \in 0 .. 0 |-> {}]
    <3>1. FoundSoFar(P, p, flaws, f, 0)
      BY DEF FoundSoFar
    <3> QED BY <2>1, <2>2, <3>1
  <2>3. CASE m # 0
    <3>1. m - 1 \in Nat /\ m - 1 \notin D
      BY <2>1, <2>3
    <3>2. PICK g : FoundSoFar(P, p, flaws, g, m - 1)
      BY <3>1
    <3> DEFINE f == [c \in 0 .. m |-> IF c = 0 THEN {} ELSE IF g[c - 1] # {} THEN g[c - 1] ELSE New(c)]
    <3>3. \A k \in 0 .. m - 1 : f[k] = g[k]
      <4>1. \A k \in 0 .. m - 1 : k \in 0 .. m
        BY <3>1
      <4>2. \A k \in 0 .. m - 1 : g[k] = IF k = 0 THEN {} ELSE IF g[k - 1] # {} THEN g[k - 1] ELSE New(k)
        BY <3>2 DEF FoundSoFar
      <4> QED BY <4>1, <4>2
    <3>4. \A k \in 0 .. m : k # 0 => k - 1 \in 0 .. m - 1
      BY <3>1
    <3>5. FoundSoFar(P, p, flaws, f, m)
      BY <3>3, <3>4 DEF FoundSoFar
    <3> QED BY <2>1, <3>5
  <2> QED BY <2>2, <2>3
<1> QED BY <1>1, <1>2

LEMMA SelectedIsFlaw ==
  ASSUME NEW P, NEW p, IsPlan(P, p), NEW flaws, Len(flaws) \in Nat, NEW x \in Selected(P, p, flaws)
  PROVE  FlawOf(p, x)
<1> DEFINE n == Len(flaws)
           f == CHOOSE f : FoundSoFar(P, p, flaws, f, n)
           G == {m \in 0 .. n : \A y \in f[m] : FlawOf(p, y)}
<1>1. n \in Nat
  OBVIOUS
<1>2. FoundSoFar(P, p, flaws, f, n)
  BY <1>1, FoundExists
<1>3. Selected(P, p, flaws) = f[n]
  BY DEF Selected, FoundSoFar
<1> HIDE DEF f
<1>4. \A c \in 0 .. n : f[c] = IF c = 0 THEN {} ELSE IF f[c - 1] # {} THEN f[c - 1]
                        ELSE IF Candidates(P, p, flaws[c]) = <<>> THEN {}
                             ELSE {Best(flaws[c].order, Candidates(P, p, flaws[c]))}
  BY <1>2 DEF FoundSoFar
<1>5. 0 \in G
  <2>1. 0 \in 0 .. n
    BY <1>1
  <2>2. f[0] = {}
    BY <1>4, <2>1
  <2> QED BY <2>1, <2>2
<1>6. ASSUME NEW m \in 0 .. n - 1, m \in G PROVE m + 1 \in G
  <2>1. m + 1 \in 0 .. n /\ m + 1 # 0 /\ (m + 1) - 1 = m
    BY <1>1
  <2> DEFINE xs == Candidates(P, p, flaws[m + 1])
  <2>2. f[m + 1] = f[m] \/ f[m + 1] = {} \/ (xs # <<>> /\ f[m + 1] = {Best(flaws[m + 1].order, xs)})
    BY <1>4, <2>1
  <2>3. xs # <<>> => FlawOf(p, Best(flaws[m + 1].order, xs))
    <3>1. PICK X : xs \in Seq(X) /\ \A y \in X : FlawOf(p, y)
      BY CandidateFlaws
    <3> HIDE DEF xs
    <3> QED BY <3>1, BestIsOne
  <2>4. \A y \in f[m + 1] : FlawOf(p, y)
    BY <1>6, <2>2, <2>3
  <2> QED BY <2>1, <2>4
<1> HIDE DEF G
<1>7. \A m \in 0 .. n : m \in G
  BY <1>1, <1>5, <1>6, Stepwise
<1>8. n \in G
  BY <1>1, <1>7
<1> QED BY <1>3, <1>8 DEF G

-----------------------------------------------------------------------------
(* Refinements, forced choices and the form a child waits in.               *)

\* A new step comes from adding a producer of an open condition.
Producer(P, p, c) ==
  \E oc \in ToSet(p.opens), o \in Operators(P.T) :
    \E e \in DOMAIN P.T.ops[o].effs : c \in AddStep(P, p, oc, o, e)

LEMMA OpenOrigin ==
  ASSUME NEW P, IsPlannerFor(P), NEW p, IsPlan(P, p), NEW oc \in ToSet(p.opens),
         NEW c \in OpenChildren(P, p, oc), c.by = "step"
  PROVE  Producer(P, p, c)
<1>1. oc.fact \in Facts(P.T)
  BY OpenConditions
<1>2. c \notin DerivedChildren(P, p, oc)
  BY DEF DerivedChildren
<1>3. \A s, e, conds : c \notin Support(P, p, oc, s, e, conds)
  BY DEF Support
<1>4. c \notin ReuseChildren(P, p, oc) /\ c \notin InitialChildren(P, p, oc)
  BY <1>3 DEF ReuseChildren, InitialChildren
<1>5. oc.fact \notin DOMAIN P.supports /\ c \in NewStepChildren(P, p, oc)
  BY <1>2, <1>4 DEF OpenChildren
<1>6. PICK a \in P.achievers[oc.fact] : c \in AddStep(P, p, oc, a[1], a[2])
  BY <1>5 DEF NewStepChildren
<1>7. a[1] \in Operators(P.T) /\ a[2] \in DOMAIN P.T.ops[a[1]].effs
  BY <1>1, <1>5, AchieverFacts
<1> QED BY <1>6, <1>7 DEF Producer

\* What a refinement is made of.
LEMMA RefinementOrigin ==
  ASSUME NEW P, IsPlannerFor(P), NEW p, Kept(P, p), NEW flaws, Len(flaws) \in Nat,
         NEW x \in Refinements(P, p, flaws)
  PROVE  \E c : Sprouts(P, p, c) /\ x \in Finished(P, c) /\ (c.by = "step" => Producer(P, p, c))
<1> DEFINE sel == Selected(P, p, flaws)
           Kinds == IF sel = {} THEN IF p.disjunctions = <<>> THEN {} ELSE SplitDisjunction(p)
                    ELSE UNION {IF y.threat THEN ResolveThreat(P, p, y.flaw)
                                ELSE OpenChildren(P, p, y.flaw) : y \in sel}
<1>1. PICK c \in Kinds : x \in Finished(P, c)
  BY DEF Refinements
<1>2. IsPlan(P, p)
  BY DEF Kept
<1>3. \A t, d : d \in ResolveThreat(P, p, t) => d.by = "order"
  BY DEF ResolveThreat, OrderChildren
<1>4. CASE sel = {}
  <2>1. p.disjunctions # <<>> /\ c \in SplitDisjunction(p)
    BY <1>1, <1>4
  <2>2. c.by = "order"
    BY <2>1 DEF SplitDisjunction, OrderChildren
  <2> QED BY <1>1, <2>1, <2>2, SplitSprouts
<1>5. CASE sel # {}
  <2>1. PICK y \in sel : c \in IF y.threat THEN ResolveThreat(P, p, y.flaw) ELSE OpenChildren(P, p, y.flaw)
    BY <1>1, <1>5
  <2>2. FlawOf(p, y)
    BY <1>2, SelectedIsFlaw
  <2>3. CASE y.threat = TRUE /\ y.flaw \in ToSet(p.threats)
    BY <1>1, <1>3, <2>1, <2>3, ThreatSprouts
  <2>4. CASE y.threat = FALSE /\ y.flaw \in ToSet(p.opens)
    BY <1>1, <1>2, <2>1, <2>4, OpenSprouts, OpenOrigin
  <2> QED BY <2>2, <2>3, <2>4 DEF FlawOf
<1> QED BY <1>4, <1>5

LEMMA RefinementsKept ==
  ASSUME NEW P, IsPlannerFor(P), NEW p, Kept(P, p), NEW flaws, Len(flaws) \in Nat,
         NEW x \in Refinements(P, p, flaws)
  PROVE  Kept(P, x)
<1>1. PICK c : Sprouts(P, p, c) /\ x \in Finished(P, c)
  BY RefinementOrigin
<1> QED BY <1>1, FinishedKept

LEMMA ResolvedKept ==
  ASSUME NEW P, IsPlannerFor(P), NEW p, Kept(P, p), NEW oc \in ToSet(p.opens),
         NEW x \in ResolveOpen(P, p, oc)
  PROVE  Kept(P, x)
<1>1. PICK c \in OpenChildren(P, p, oc) : x \in Finished(P, c)
  BY DEF ResolveOpen
<1>2. Sprouts(P, p, c)
  BY OpenSprouts
<1> QED BY <1>1, <1>2, FinishedKept

LEMMA ForcedKept ==
  ASSUME NEW P, IsPlannerFor(P), NEW p, Kept(P, p), NEW x \in ForceFirst(P, p)
  PROVE  Kept(P, x)
<1> DEFINE A == {oc \in ToSet(p.opens) : OpenCount(P, p, oc) <= 1}
<1>1. p.opens \in Seq(Opens(P, p))
  BY DEF Kept, IsPlan
<1>2. Forced(P, p) \in Seq(Opens(P, p)) /\ ToSet(Forced(P, p)) \subseteq ToSet(p.opens)
  <2>1. Reverse(p.opens) \in Seq(Opens(P, p))
    BY <1>1, ReverseMembers
  <2>2. Forced(P, p) = Among(Reverse(p.opens), A)
    BY DEF Forced
  <2> HIDE DEF A
  <2>3. Among(Reverse(p.opens), A) \in Seq(Opens(P, p))
        /\ ToSet(Among(Reverse(p.opens), A)) = ToSet(Reverse(p.opens)) \cap A
    BY <2>1, AmongMembers
  <2>4. A \subseteq ToSet(p.opens)
    BY DEF A
  <2> QED BY <2>2, <2>3, <2>4
<1>3. CASE Forced(P, p) = <<>>
  BY <1>3 DEF ForceFirst
<1>4. CASE Forced(P, p) # <<>>
  <2>1. 1 \in 1 .. Len(Forced(P, p))
    BY <1>2, <1>4
  <2>2. Forced(P, p)[1] \in ToSet(p.opens)
    BY <1>2, <2>1, InSeq
  <2>3. x \in ResolveOpen(P, p, Forced(P, p)[1])
    BY <1>4 DEF ForceFirst
  <2> QED BY <2>2, <2>3, ResolvedKept
<1> QED BY <1>3, <1>4

Forcing(P, p, f, n) ==
  f = [k \in 0 .. n |-> IF k = 0 THEN {p} ELSE UNION {ForceFirst(P, q) : q \in f[k - 1]}]

LEMMA ForcingExists ==
  ASSUME NEW P, NEW p, NEW n \in Nat
  PROVE  \E f : Forcing(P, p, f, n)
<1> DEFINE D == {m \in Nat : ~ \E f : Forcing(P, p, f, m)}
<1>1. CASE D = {}
  BY <1>1
<1>2. CASE D # {}
  <2>1. PICK m \in D : \A k \in D : m <= k
    BY <1>2, LeastNatural
  <2>2. CASE m = 0
    <3> DEFINE f == [k \in 0 .. 0 |-> {p}]
    <3>1. Forcing(P, p, f, 0)
      BY DEF Forcing
    <3> QED BY <2>1, <2>2, <3>1
  <2>3. CASE m # 0
    <3>1. m - 1 \in Nat /\ m - 1 \notin D
      BY <2>1, <2>3
    <3>2. PICK g : Forcing(P, p, g, m - 1)
      BY <3>1
    <3> DEFINE f == [k \in 0 .. m |-> IF k = 0 THEN {p} ELSE UNION {ForceFirst(P, q) : q \in g[k - 1]}]
    <3>3. \A k \in 0 .. m - 1 : f[k] = g[k]
      <4>1. \A k \in 0 .. m - 1 : k \in 0 .. m
        BY <3>1
      <4>2. \A k \in 0 .. m - 1 : g[k] = IF k = 0 THEN {p} ELSE UNION {ForceFirst(P, q) : q \in g[k - 1]}
        BY <3>2 DEF Forcing
      <4> QED BY <4>1, <4>2
    <3>4. \A k \in 0 .. m : k # 0 => k - 1 \in 0 .. m - 1
      BY <3>1
    <3>5. Forcing(P, p, f, m)
      BY <3>3, <3>4 DEF Forcing
    <3> QED BY <2>1, <3>5
  <2> QED BY <2>2, <2>3
<1> QED BY <1>1, <1>2

LEMMA PropagationKept ==
  ASSUME NEW P, IsPlannerFor(P), NEW p, Kept(P, p), NEW x \in Propagated1(P, p)
  PROVE  Kept(P, x)
<1> DEFINE n == MaxForced
           f == CHOOSE f : Forcing(P, p, f, n)
           G == {m \in 0 .. n : \A y \in f[m] : Kept(P, y)}
<1>1. n \in Nat
  BY DEF MaxForced
<1>2. Forcing(P, p, f, n)
  BY <1>1, ForcingExists
<1>3. Propagate(P, p) = f[n]
  BY DEF Propagate, Forcing
<1> HIDE DEF f, n
<1>4. \A k \in 0 .. n : f[k] = IF k = 0 THEN {p} ELSE UNION {ForceFirst(P, q) : q \in f[k - 1]}
  BY <1>2 DEF Forcing
<1>5. 0 \in G
  <2>1. 0 \in 0 .. n
    BY <1>1
  <2>2. f[0] = {p}
    BY <1>4, <2>1
  <2> QED BY <2>1, <2>2
<1>6. ASSUME NEW m \in 0 .. n - 1, m \in G PROVE m + 1 \in G
  <2>1. m + 1 \in 0 .. n /\ m + 1 # 0 /\ (m + 1) - 1 = m
    BY <1>1
  <2>2. f[m + 1] = UNION {ForceFirst(P, q) : q \in f[m]}
    BY <1>4, <2>1
  <2>3. \A y \in f[m + 1] : Kept(P, y)
    BY <1>6, <2>2, ForcedKept
  <2> QED BY <2>1, <2>3
<1> HIDE DEF G
<1>7. \A m \in 0 .. n : m \in G
  BY <1>1, <1>5, <1>6, Stepwise
<1>8. n \in G
  BY <1>1, <1>7
<1>9. \A y \in Propagate(P, p) : Kept(P, y)
  BY <1>3, <1>8 DEF G
<1> QED BY <1>9 DEF Propagated1

\* A child rebuilt from its recipe is the child.
LEMMA RecipeRebuilds ==
  ASSUME NEW P, IsPlannerFor(P), NEW p, Kept(P, p), NEW flaws, Len(flaws) \in Nat,
         NEW r \in Refinements(P, p, flaws), NEW q, NEW x, x = [raw |-> r, plan |-> q]
  PROVE  Materialized(P, Store(P, p, x)) = {q}
<1>1. x.raw = r /\ x.plan = q
  OBVIOUS
<1>2. CASE ~ (q = r /\ Len(q.ops) = Len(p.ops) + 1)
  <2>1. Store(P, p, x) = [deferred |-> FALSE, plan |-> q]
    BY <1>1, <1>2 DEF Store
  <2> QED BY <2>1 DEF Materialized
<1>3. CASE q = r /\ Len(q.ops) = Len(p.ops) + 1
  <2>1. PICK c : Sprouts(P, p, c) /\ r \in Finished(P, c) /\ (c.by = "step" => Producer(P, p, c))
    BY RefinementOrigin
  <2>2. /\ r.ops = c.plan.ops /\ r.links = c.plan.links /\ AtMostOne(Finished(P, c))
    BY <2>1, FinishedKept
  <2>3. p.ops \in Seq(Operators(P.T)) /\ Len(p.ops) \in Nat /\ p.links \in Seq(Links(P, p)) /\ IsPlan(P, p)
    BY DEF Kept, IsPlan
  <2>4. c.by = "step"
    <3>1. Len(p.ops) # Len(p.ops) + 1
      BY <2>3
    <3> QED BY <1>3, <2>1, <2>2, <3>1 DEF Sprouts
  <2>5. PICK oc \in ToSet(p.opens), o \in Operators(P.T) :
          \E e \in DOMAIN P.T.ops[o].effs : c \in AddStep(P, p, oc, o, e)
    BY <2>1, <2>4 DEF Producer
  <2>6. PICK e \in DOMAIN P.T.ops[o].effs : c \in AddStep(P, p, oc, o, e)
    BY <2>5
  <2>7. StepChild(P, p, oc, o, e, c) /\ AtMostOne(AddStep(P, p, oc, o, e))
    BY <2>3, <2>6, StepGrows
  <2>8. r.ops = Append(p.ops, o) /\ r.links = Append(p.links, NewLink(p, oc, e))
    BY <2>2, <2>7 DEF StepChild
  <2> DEFINE l == NewLink(p, oc, e)
  <2>9. r.ops[Len(r.ops)] = o
    BY <2>3, <2>8
  <2>10. r.links[Len(r.links)] = l
    BY <2>3, <2>8
  <2> HIDE DEF l
  <2> DEFINE s == [deferred |-> TRUE, plan |-> p, link |-> l, op |-> o]
  <2>11. Store(P, p, x) = s
    BY <1>1, <1>3, <2>9, <2>10 DEF Store
  <2>12. oc = [step |-> oc.step, fact |-> oc.fact]
    BY <2>3, OpenConditions
  <2>13. l.to = oc.step /\ l.fact = oc.fact /\ l.effect = e
    BY DEF l, NewLink
  <2>14. Materialized(P, s) = UNION {Finished(P, d) : d \in AddStep(P, p, oc, o, e)}
    <3>1. Materialized(P, s) =
            UNION {Finished(P, d) : d \in AddStep(P, p, [step |-> l.to, fact |-> l.fact], o, l.effect)}
      BY DEF Materialized
    <3>2. [step |-> l.to, fact |-> l.fact] = oc
      BY <2>12, <2>13
    <3> QED BY <2>13, <3>1, <3>2
  <2>15. UNION {Finished(P, d) : d \in AddStep(P, p, oc, o, e)} = Finished(P, c)
    BY <2>6, <2>7 DEF AtMostOne
  <2>16. Finished(P, c) = {r}
    BY <2>1, <2>2 DEF AtMostOne
  <2> QED BY <1>3, <2>11, <2>14, <2>15, <2>16
<1> QED BY <1>2, <1>3

-----------------------------------------------------------------------------
(* The branch.                                                              *)

LEMMA InitialKept ==
  ASSUME NEW P, IsPlannerFor(P)
  PROVE  Kept(P, InitialPlan(P))
<1> DEFINE p == InitialPlan(P)
           os == AddOpens(<<>>, GoalId, P.T.goals)
<1>1. p = [ops |-> <<>>, links |-> <<>>, ord |-> NewOrderings, threats |-> <<>>, cost |-> 0,
           suppressed |-> {}, disjunctions |-> <<>>, opens |-> os]
  BY DEF InitialPlan
<1> HIDE DEF p, os
<1>2. /\ p.ops = <<>> /\ p.links = <<>> /\ p.ord = NewOrderings /\ p.threats = <<>>
      /\ p.suppressed = {} /\ p.disjunctions = <<>> /\ p.opens = os /\ HasShape(p)
  BY <1>1 DEF HasShape
<1>3. PlanSteps(p) = {} /\ DOMAIN p.links = {} /\ Len(p.ops) = 0
  BY <1>2 DEF PlanSteps
<1>4. OrdersPlan(p)
  <2> DEFINE none == [k \in {} |-> {}]
  <2>1. p.ord = [high |-> 0, succ |-> none]
    BY <1>2 DEF NewOrderings
  <2>2. p.ord.high = 0 /\ p.ord.succ = none /\ RealSteps(p.ord) = {}
    BY <2>1 DEF RealSteps
  <2>3. none \in [{} -> SUBSET {}]
    OBVIOUS
  <2> HIDE DEF none
  <2> QED BY <1>3, <2>1, <2>2, <2>3 DEF OrdersPlan, IsOrderings, IsStrictOrder
<1>5. p.opens \in Seq(Opens(P, p))
  <2>1. P.T.goals \in Seq(Facts(P.T))
    BY DEF IsPlannerFor, IsTask
  <2>2. \A f \in Facts(P.T) : [step |-> GoalId, fact |-> f] \in Opens(P, p)
    BY DEF Opens, Consumers
  <2>3. <<>> \in Seq(Opens(P, p))
    OBVIOUS
  <2>4. os \in Seq(Opens(P, p))
    BY <2>1, <2>2, <2>3, OpenedMembers DEF os
  <2> QED BY <1>2, <2>4
<1>6. IsPlan(P, p)
  BY <1>2, <1>3, <1>4, <1>5, NoMembers, MaxStepsAssumption DEF IsPlan
<1>7. ToSet(p.threats) = {} /\ Len(p.threats) = 0
  BY <1>2, NoMembers
<1>8. Known(P, p, Pairs(p)) = {}
  BY <1>3 DEF Known, Threats
<1>9. Cached(P, p, Pairs(p)) /\ Tight(P, p)
  BY <1>7, <1>8 DEF Cached, Tight, Increasing
<1> QED BY <1>6, <1>9 DEF Kept, p

\* The inductive invariant: the planner is the one built for the task, and the
\* plan's cache says of every link and step what it should.
Sound ==
  /\ config \in DOMAIN Configs
  /\ planner = Planner(C.task, C.prune)
  /\ Kept(planner, plan)

LEMMA PlannerBuilt ==
  ASSUME config \in DOMAIN Configs, planner = Planner(C.task, C.prune)
  PROVE  IsPlannerFor(planner) /\ Len(C.flaws) \in Nat
<1>1. /\ IsTask(C.task) /\ C.flaws \in Seq(ToSet(C.flaws))
      /\ IsPlanner(planner, C.task, C.prune)
  BY ConfigsAssumption DEF C
<1>2. Len(C.flaws) \in Nat
  BY <1>1, InSeq
<1> QED BY <1>1, <1>2 DEF IsPlannerFor, IsPlanner

LEMMA ChildFollowed ==
  ASSUME NEW P, IsPlannerFor(P), NEW p, Kept(P, p), NEW flaws, Len(flaws) \in Nat, NEW term,
         NEW x \in Children(P, p, flaws, term)
  PROVE  Materialized(P, Store(P, p, x)) = {x.plan} /\ Kept(P, x.plan)
<1>1. PICK r \in Refinements(P, p, flaws) : x \in {[raw |-> r, plan |-> q] : q \in Propagated1(P, r)}
  BY DEF Children
<1>2. PICK q \in Propagated1(P, r) : x = [raw |-> r, plan |-> q]
  BY <1>1
<1>3. Kept(P, q)
  BY RefinementsKept, PropagationKept
<1>4. Materialized(P, Store(P, p, x)) = {q}
  BY <1>2, RecipeRebuilds
<1> QED BY <1>2, <1>3, <1>4

LEMMA SoundStays == Spec => []Sound
<1>1. Init => Sound
  <2> SUFFICES ASSUME Init PROVE Sound
    OBVIOUS
  <2>1. config \in DOMAIN Configs /\ planner = Planner(C.task, C.prune) /\ plan = InitialPlan(planner)
    BY DEF Init
  <2> QED BY <2>1, PlannerBuilt, InitialKept DEF Sound
<1>2. Sound /\ [Next]_vars => Sound'
  <2> SUFFICES ASSUME Sound, [Next]_vars PROVE Sound'
    OBVIOUS
  <2>1. config \in DOMAIN Configs /\ planner = Planner(C.task, C.prune) /\ Kept(planner, plan)
    BY DEF Sound
  <2>2. CASE Expand
    <3>1. PICK x \in Children(planner, plan, C.flaws, C.term) : stored' = Store(planner, plan, x)
      BY <2>2 DEF Expand
    <3>2. plan' \in Materialized(planner, stored') /\ config' = config /\ planner' = planner
      BY <2>2 DEF Expand
    <3>3. Materialized(planner, Store(planner, plan, x)) = {x.plan} /\ Kept(planner, x.plan)
      BY <2>1, <3>1, PlannerBuilt, ChildFollowed
    <3>4. Kept(planner, plan')
      BY <3>1, <3>2, <3>3
    <3> QED BY <2>1, <3>2, <3>4 DEF Sound, C
  <2>3. CASE UNCHANGED vars
    BY <2>1, <2>3 DEF Sound, C, vars
  <2> QED BY <2>2, <2>3 DEF Next
<1> QED BY <1>1, <1>2, PTL DEF Spec

(* The cache of threats that refinement updates (settle, add_link_threats    *)
(* and add_step_threats in fdr_pocl.rs) is the one a search over all links   *)
(* and steps would find, in key order, for every task and every -p rule.     *)
THEOREM ThreatCacheStaysExact == Spec => []ThreatCacheExact
<1>1. Sound => ThreatCacheExact
  <2> SUFFICES ASSUME Sound PROVE ThreatCacheExact
    OBVIOUS
  <2> DEFINE Settling == planner.T.axioms = <<>> \/ ~ HasConditionalEffects(planner.T)
             Certain(ts) == {t \in ts : Settling \/ Unguarded(planner, plan, t)}
  <2>1. IsPlannerFor(planner) /\ IsPlan(planner, plan) /\ Cached(planner, plan, Pairs(plan)) /\ Tight(planner, plan)
    BY PlannerBuilt DEF Sound, Kept
  <2>2. /\ plan.threats = ThreatSeq(ToSet(plan.threats))
        /\ \A t : Minded(planner, plan, t) =>
             (t \in ToSet(plan.threats) <=> t \in Rediscovered(planner, plan))
        /\ Rediscovered(planner, plan) \subseteq Threats(planner, plan)
        /\ ToSet(plan.threats) \subseteq Threats(planner, plan)
    BY <2>1, CacheIsRediscovered
  <2>3. ASSUME NEW t \in Threats(planner, plan), Settling \/ Unguarded(planner, plan, t)
        PROVE  Minded(planner, plan, t)
    <3>1. CASE HasConditionalEffects(planner.T)
      BY <2>3, <3>1 DEF Minded
    <3>2. CASE ~ HasConditionalEffects(planner.T)
      <4>1. t.step \in PlanSteps(plan)
            /\ (t.effect = NoEffect \/ t.effect \in DOMAIN Op(planner, plan, t.step).effs)
        BY DEF Threats
      <4>2. plan.ops[t.step] \in Operators(planner.T)
        BY <2>1, <4>1, PlanSizes
      <4>3. CASE t.effect # NoEffect
        <5>1. Eff(planner, plan, t.step, t.effect) \in ToSet(planner.T.ops[plan.ops[t.step]].effs)
          BY <4>1, <4>3 DEF Eff, Op, ToSet
        <5>2. Eff(planner, plan, t.step, t.effect).cond = {}
          BY <3>2, <4>2, <5>1 DEF HasConditionalEffects
        <5> QED BY <5>2 DEF Minded, Unguarded
      <4> QED BY <4>3 DEF Minded, Unguarded
    <3> QED BY <3>1, <3>2
  <2> HIDE DEF Settling
  <2>4. Certain(ToSet(plan.threats)) = Certain(Rediscovered(planner, plan))
    BY <2>2, <2>3
  <2> QED BY <2>2, <2>4 DEF ThreatCacheExact, Settling
<1> QED BY <1>1, SoundStays, PTL

-----------------------------------------------------------------------------
(* Counting the children of an open condition.                              *)

Yield(P, cs) == UNION {Finished(P, c) : c \in cs}

\* At most one child for each of the supporters S; of[s] makes the one of s.
LEMMA OnePerSupporter ==
  ASSUME NEW P, IsPlannerFor(P), NEW p, Kept(P, p), NEW S, IsFiniteSet(S), NEW of, NEW cs,
         \A s \in S : AtMostOne(of[s]),
         \A c \in cs : Sprouts(P, p, c) /\ \E s \in S : c \in of[s]
  PROVE  IsFiniteSet(Yield(P, cs)) /\ Cardinality(Yield(P, cs)) <= Cardinality(S)
<1> DEFINE U == Yield(P, cs)
           Makes(s, u) == \E c \in cs : c \in of[s] /\ u \in Finished(P, c)
           h == [u \in U |-> CHOOSE s \in S : Makes(s, u)]
<1>1. \A u \in U : \E s \in S : Makes(s, u)
  BY DEF Yield
<1>2. \A u \in U : h[u] \in S /\ Makes(h[u], u)
  BY <1>1
<1>3. ASSUME NEW s \in S, NEW u, NEW v, Makes(s, u), Makes(s, v)
      PROVE  u = v
  <2>1. PICK c \in cs : c \in of[s] /\ u \in Finished(P, c)
    BY <1>3
  <2>2. PICK d \in cs : d \in of[s] /\ v \in Finished(P, d)
    BY <1>3
  <2>3. c = d
    BY <2>1, <2>2 DEF AtMostOne
  <2>4. AtMostOne(Finished(P, c))
    BY FinishedKept
  <2> QED BY <2>1, <2>2, <2>3, <2>4 DEF AtMostOne
<1> HIDE DEF U, Makes
<1>4. h \in [U -> S]
  BY <1>2
<1>5. \A a, b \in U : h[a] = h[b] => a = b
  BY <1>2, <1>3
<1> HIDE DEF h
<1>6. h \in Injection(U, S)
  <2>1. DOMAIN h = U
    BY <1>4
  <2> QED BY <1>4, <1>5, <2>1 DEF Injection, IsInjective
<1> QED BY <1>6, FS_Injection DEF U

Kinds(P, p, oc) == {d \in P.supports[oc.fact] : RequirementsPossible(P, p, oc.step, d)}

LEMMA FewDerived ==
  ASSUME NEW P, IsPlannerFor(P), NEW p, Kept(P, p), NEW oc \in ToSet(p.opens),
         oc.fact \in DOMAIN P.supports
  PROVE  Cardinality(Yield(P, DerivedChildren(P, p, oc))) <= Cardinality(Kinds(P, p, oc))
<1> DEFINE S == Kinds(P, p, oc)
           child(d) == [by |-> "derived", plan |-> [p EXCEPT !.opens =
                          AddOpens(WithoutOpen(@, oc), oc.step, FactSeq(d))]]
           of == [d \in S |-> {child(d)}]
           cs == DerivedChildren(P, p, oc)
<1>1. IsFiniteSet(S)
  <2>1. IsFiniteSet(SUBSET Facts(P.T))
    BY FS_SUBSET DEF IsPlannerFor, IsTask
  <2>2. S \in SUBSET SUBSET Facts(P.T)
    BY DEF IsPlannerFor, IsPlanner, Kinds
  <2> QED BY <2>1, <2>2, FS_Subset
<1>2. \A s \in S : AtMostOne(of[s])
  BY DEF AtMostOne
<1>3. \A c \in cs : \E s \in S : c \in of[s]
  BY DEF DerivedChildren, Kinds
<1>4. \A c \in cs : Sprouts(P, p, c)
  BY DerivedKept
<1> HIDE DEF of, S, cs
<1> QED BY <1>1, <1>2, <1>3, <1>4, OnePerSupporter DEF S, cs

LEMMA FewSteps ==
  ASSUME NEW P, IsPlannerFor(P), NEW p, Kept(P, p), NEW oc \in ToSet(p.opens),
         oc.fact \notin DOMAIN P.supports
  PROVE  /\ IsFiniteSet(Yield(P, NewStepChildren(P, p, oc)))
         /\ Cardinality(Yield(P, NewStepChildren(P, p, oc))) <= Cardinality(P.achievers[oc.fact])
<1> DEFINE S == P.achievers[oc.fact]
           of == [a \in S |-> AddStep(P, p, oc, a[1], a[2])]
           cs == NewStepChildren(P, p, oc)
<1>1. IsPlan(P, p) /\ oc.fact \in Facts(P.T)
  BY OpenConditions DEF Kept
<1>2. IsFiniteSet(S)
  BY <1>1 DEF IsPlannerFor, IsPlanner
<1>3. \A a \in S : AtMostOne(of[a])
  BY DEF AddStep, AtMostOne
<1>4. \A c \in cs : \E a \in S : c \in of[a]
  BY DEF NewStepChildren
<1>5. \A c \in cs : Sprouts(P, p, c)
  BY OpenSprouts DEF OpenChildren
<1> HIDE DEF of, S, cs
<1> QED BY <1>2, <1>3, <1>4, <1>5, OnePerSupporter DEF S, cs

\* The supporters that existing steps offer and that may support.
Offers(P, p, oc) ==
  {x \in Reusable(P, p, oc) : RequirementsPossible(P, p, x[1], Eff(P, p, x[1], x[2]).cond)}

LEMMA OffersFinite ==
  ASSUME NEW P, IsPlannerFor(P), NEW p, IsPlan(P, p), NEW oc
  PROVE  IsFiniteSet(Offers(P, p, oc))
<1> DEFINE B == (1 .. Len(p.ops)) \X (1 .. NoEffect - 1)
<1>1. Len(p.ops) \in Nat /\ PlanSteps(p) = 1 .. Len(p.ops)
      /\ \A s \in PlanSteps(p) : p.ops[s] \in Operators(P.T)
  BY PlanSizes
<1>2. NoEffect - 1 \in Nat
  BY DEF NoEffect
<1>3. IsFiniteSet(1 .. Len(p.ops)) /\ IsFiniteSet(1 .. NoEffect - 1)
  BY <1>1, <1>2, FS_Interval
<1>4. IsFiniteSet(B)
  BY <1>3, FS_Product
<1>5. \A s \in PlanSteps(p) : DOMAIN Op(P, p, s).effs \subseteq 1 .. NoEffect - 1
  BY <1>1 DEF Op, IsPlannerFor, IsTask
<1>6. \A s \in PlanSteps(p) : {s} \X DOMAIN Op(P, p, s).effs \subseteq B
  BY <1>1, <1>5
<1>7. Offers(P, p, oc) \in SUBSET B
  BY <1>6 DEF Offers, Reusable
<1> QED BY <1>4, <1>7, FS_Subset

LEMMA FewReused ==
  ASSUME NEW P, IsPlannerFor(P), NEW p, Kept(P, p), NEW oc \in ToSet(p.opens),
         oc.fact \notin DOMAIN P.supports
  PROVE  /\ IsFiniteSet(Yield(P, ReuseChildren(P, p, oc)))
         /\ Cardinality(Yield(P, ReuseChildren(P, p, oc))) <= Cardinality(Offers(P, p, oc))
<1> DEFINE S == Offers(P, p, oc)
           of == [x \in S |-> Support(P, p, oc, x[1], x[2], Eff(P, p, x[1], x[2]).cond)]
           cs == ReuseChildren(P, p, oc)
<1>1. IsPlan(P, p) /\ oc.fact \in Facts(P.T)
  BY OpenConditions DEF Kept
<1>2. IsFiniteSet(S)
  BY <1>1, OffersFinite
<1>3. \A x \in S : AtMostOne(of[x])
  BY DEF Support, AtMostOne
<1>4. ASSUME NEW c \in cs PROVE \E x \in S : c \in of[x]
  <2>1. PICK s \in PlanSteps(p), a \in P.achievers[oc.fact] :
          /\ PossiblyBefore(p.ord, s, oc.step) /\ a[1] = p.ops[s] /\ ~ EffectCannotFire(P, p, s, a[2])
          /\ c \in Support(P, p, oc, s, a[2], Eff(P, p, s, a[2]).cond)
    BY DEF ReuseChildren
  <2>2. a[2] \in DOMAIN P.T.ops[a[1]].effs /\ a = <<a[1], a[2]>>
    BY <1>1, AchieverFacts
  <2>3. RequirementsPossible(P, p, s, Eff(P, p, s, a[2]).cond)
    BY <2>1 DEF Support
  <2>4. a[2] \in DOMAIN Op(P, p, s).effs /\ <<p.ops[s], a[2]>> \in P.achievers[oc.fact]
    BY <2>1, <2>2 DEF Op
  <2> DEFINE x == <<s, a[2]>>
  <2>5. x \in {s} \X DOMAIN Op(P, p, s).effs /\ x[1] = s /\ x[2] = a[2]
    BY <2>4
  <2> HIDE DEF x
  <2>6. x \in Reusable(P, p, oc)
    BY <2>1, <2>4, <2>5 DEF Reusable
  <2>7. x \in S
    BY <2>3, <2>5, <2>6 DEF Offers
  <2> QED BY <2>1, <2>5, <2>7
<1>5. \A c \in cs : Sprouts(P, p, c)
  BY OpenSprouts DEF OpenChildren
<1> HIDE DEF of, S, cs
<1> QED BY <1>2, <1>3, <1>4, <1>5, OnePerSupporter DEF S, cs

LEMMA FewInitial ==
  ASSUME NEW P, IsPlannerFor(P), NEW p, Kept(P, p), NEW oc \in ToSet(p.opens),
         oc.fact \notin DOMAIN P.supports
  PROVE  /\ IsFiniteSet(Yield(P, InitialChildren(P, p, oc)))
         /\ Cardinality(Yield(P, InitialChildren(P, p, oc)))
              <= IF P.T.init[oc.fact[1]] = oc.fact[2] THEN 1 ELSE 0
<1> DEFINE S == IF P.T.init[oc.fact[1]] = oc.fact[2] THEN {1} ELSE {}
           cs == InitialChildren(P, p, oc)
           of == [x \in {1} |-> cs]
<1>1. IsFiniteSet(S) /\ Cardinality(S) = IF P.T.init[oc.fact[1]] = oc.fact[2] THEN 1 ELSE 0
  BY FS_EmptySet, FS_Singleton
<1>2. \A x \in S : AtMostOne(of[x])
  BY DEF InitialChildren, Support, AtMostOne
<1>3. \A c \in cs : \E x \in S : c \in of[x]
  BY DEF InitialChildren
<1>4. \A c \in cs : Sprouts(P, p, c)
  BY OpenSprouts DEF OpenChildren
<1> HIDE DEF of, S, cs
<1>5. IsFiniteSet(Yield(P, cs)) /\ Cardinality(Yield(P, cs)) <= Cardinality(S)
  BY <1>1, <1>2, <1>3, <1>4, OnePerSupporter
<1> QED BY <1>1, <1>5 DEF cs

LEMMA UnionSize ==
  ASSUME NEW A, IsFiniteSet(A), NEW B, IsFiniteSet(B)
  PROVE  IsFiniteSet(A \cup B) /\ Cardinality(A \cup B) <= Cardinality(A) + Cardinality(B)
<1>1. A \cap B \in SUBSET A
  OBVIOUS
<1>2. IsFiniteSet(A \cap B)
  BY <1>1, FS_Subset
<1>3. Cardinality(A) \in Nat /\ Cardinality(B) \in Nat /\ Cardinality(A \cap B) \in Nat
  BY <1>2, FS_CardinalityType
<1>4. IsFiniteSet(A \cup B) /\ Cardinality(A \cup B) = Cardinality(A) + Cardinality(B) - Cardinality(A \cap B)
  BY FS_Union
<1> QED BY <1>3, <1>4

LEMMA CountCoversChildren ==
  ASSUME NEW P, IsPlannerFor(P), NEW p, Kept(P, p), NEW oc \in ToSet(p.opens)
  PROVE  Cardinality(ResolveOpen(P, p, oc)) <= OpenCount(P, p, oc)
<1>1. CASE oc.fact \in DOMAIN P.supports
  <2>1. ResolveOpen(P, p, oc) = Yield(P, DerivedChildren(P, p, oc))
    BY <1>1 DEF ResolveOpen, OpenChildren, Yield
  <2>2. OpenCount(P, p, oc) = Cardinality(Kinds(P, p, oc))
    BY <1>1 DEF OpenCount, Kinds
  <2> QED BY <1>1, <2>1, <2>2, FewDerived
<1>2. CASE oc.fact \notin DOMAIN P.supports
  <2> DEFINE A == Yield(P, NewStepChildren(P, p, oc))
             B == Yield(P, ReuseChildren(P, p, oc))
             D == Yield(P, InitialChildren(P, p, oc))
             a == Cardinality(P.achievers[oc.fact])
             b == Cardinality(Offers(P, p, oc))
             d == IF P.T.init[oc.fact[1]] = oc.fact[2] THEN 1 ELSE 0
  <2>1. ResolveOpen(P, p, oc) = (A \cup B) \cup D
    BY <1>2 DEF ResolveOpen, OpenChildren, Yield
  <2>2. OpenCount(P, p, oc) = d + a + b
    BY <1>2 DEF OpenCount, Offers
  <2>3. IsFiniteSet(A) /\ IsFiniteSet(B) /\ IsFiniteSet(D)
        /\ Cardinality(A) <= a /\ Cardinality(B) <= b /\ Cardinality(D) <= d
    BY <1>2, FewSteps, FewReused, FewInitial
  <2>4. IsPlan(P, p) /\ oc.fact \in Facts(P.T)
    BY OpenConditions DEF Kept
  <2>5. IsFiniteSet(P.achievers[oc.fact]) /\ IsFiniteSet(Offers(P, p, oc))
    BY <1>2, <2>4, OffersFinite DEF IsPlannerFor, IsPlanner
  <2>6. a \in Nat /\ b \in Nat /\ d \in Nat
    BY <2>5, FS_CardinalityType
  <2> HIDE DEF A, B, D, a, b, d
  <2>7. IsFiniteSet(A \cup B) /\ Cardinality(A \cup B) <= Cardinality(A) + Cardinality(B)
    BY <2>3, UnionSize
  <2>8. Cardinality((A \cup B) \cup D) <= Cardinality(A \cup B) + Cardinality(D)
        /\ IsFiniteSet((A \cup B) \cup D)
    BY <2>3, <2>7, UnionSize
  <2>9. Cardinality(A) \in Nat /\ Cardinality(B) \in Nat /\ Cardinality(D) \in Nat
        /\ Cardinality(A \cup B) \in Nat /\ Cardinality((A \cup B) \cup D) \in Nat
    BY <2>3, <2>7, <2>8, FS_CardinalityType
  <2> QED BY <2>1, <2>2, <2>3, <2>6, <2>7, <2>8, <2>9
<1> QED BY <1>1, <1>2

(* A child rebuilt from its recipe (materialize, fdr_pocl.rs) is the child   *)
(* that was checked and ranked, so the assertion that it can be rebuilt      *)
(* never fails, and open_refinement_count bounds the refinements of an open  *)
(* condition, so a choice made by force never had an alternative.            *)
THEOREM QueuedChildrenStayKept == Spec => []QueuedChildrenAreKept
<1>1. Sound => QueuedChildrenAreKept
  <2> SUFFICES ASSUME Sound PROVE QueuedChildrenAreKept
    OBVIOUS
  <2>1. IsPlannerFor(planner) /\ Kept(planner, plan) /\ Len(C.flaws) \in Nat
    BY PlannerBuilt DEF Sound
  <2>2. \A x \in IF Complete(plan) THEN {} ELSE Children(planner, plan, C.flaws, C.term) :
          Materialized(planner, Store(planner, plan, x)) = {x.plan}
    BY <2>1, ChildFollowed
  <2>3. \A oc \in ToSet(plan.opens) :
          Cardinality(ResolveOpen(planner, plan, oc)) <= OpenCount(planner, plan, oc)
    BY <2>1, CountCoversChildren
  <2> QED BY <2>2, <2>3 DEF QueuedChildrenAreKept
<1> QED BY <1>1, SoundStays, PTL

=============================================================================
