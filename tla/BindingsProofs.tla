--------------------------- MODULE BindingsProofs ---------------------------
(***************************************************************************)
(* Proofs about the bindings of a lifted plan, for every set of variables, *)
(* objects and types, every set of refinements and all caps on the table.  *)
(***************************************************************************)
EXTENDS Bindings, SequenceTheorems, WellFoundedInduction, TLAPS

\* A set of numbers has a least one: induction, by the smallest exception.
LEMMA LeastNatural ==
  ASSUME NEW T, T \subseteq Nat, T # {}
  PROVE  \E m \in T : \A k \in T : m <= k
<1> DEFINE R == OpToRel(<, Nat)
<1>1. IsWellFoundedOn(R, Nat)
  BY NatLessThanWellFounded
<1>2. \A x, y \in Nat : y < x => <<y, x>> \in R
  BY SMT DEF OpToRel
<1> HIDE DEF R
<1>3. PICK x \in T : \A y \in T : ~ (<<y, x>> \in R)
  BY <1>1, WFMin
<1>4. ASSUME NEW k \in T PROVE x <= k
  <2>1. x \in Nat /\ k \in Nat /\ ~ (k < x)
    BY <1>2, <1>3
  <2> QED BY <2>1
<1> QED BY <1>4

-----------------------------------------------------------------------------
(* Lookup.                                                                  *)

\* Position p is the newest that holds term t.
IsNewest(ch, t, p) ==
  p \in 1 .. Len(ch) /\ Holds(ch[p], t) /\ \A q \in 1 .. p - 1 : ~ Holds(ch[q], t)

LEMMA NewestExists ==
  ASSUME NEW ch \in Seq(Varsets), NEW t, NEW p \in 1 .. Len(ch), Holds(ch[p], t)
  PROVE  \E q \in 1 .. p : IsNewest(ch, t, q)
<1> DEFINE H == {q \in 1 .. p : Holds(ch[q], t)}
<1>1. H \subseteq Nat /\ p \in H
  OBVIOUS
<1>2. \A q \in 1 .. p : Holds(ch[q], t) => q \in H
  OBVIOUS
<1>3. \A q \in H : q \in 1 .. p /\ Holds(ch[q], t)
  OBVIOUS
<1> HIDE DEF H
<1>4. PICK m \in H : \A k \in H : m <= k
  BY <1>1, LeastNatural
<1>5. m \in 1 .. p /\ Holds(ch[m], t)
  BY <1>3, <1>4
<1>6. ASSUME NEW q \in 1 .. m - 1 PROVE ~ Holds(ch[q], t)
  BY <1>2, <1>4, <1>5
<1> QED BY <1>5, <1>6 DEF IsNewest

LEMMA NewestUnique ==
  ASSUME NEW ch \in Seq(Varsets), NEW t, NEW p, NEW q, IsNewest(ch, t, p), IsNewest(ch, t, q)
  PROVE  p = q
  BY DEF IsNewest

LEMMA ScanFinds ==
  ASSUME NEW ch \in Seq(Varsets), NEW t, NEW limit \in 0 .. Len(ch)
  PROVE  /\ \A p \in 1 .. limit : IsNewest(ch, t, p) => Scan(ch, t, limit) = At(ch, p)
         /\ (\A p \in 1 .. limit : ~ Holds(ch[p], t)) => Scan(ch, t, limit) = None
         /\ \/ Scan(ch, t, limit) = None /\ \A p \in 1 .. limit : ~ Holds(ch[p], t)
            \/ /\ Scan(ch, t, limit) # None
               /\ \E p \in 1 .. limit : IsNewest(ch, t, p) /\ Scan(ch, t, limit) = At(ch, p)
<1> DEFINE hits == {p \in 1 .. Len(ch) : p <= limit /\ Holds(ch[p], t)}
<1>1. Len(ch) \in Nat /\ hits = {p \in 1 .. limit : Holds(ch[p], t)}
  OBVIOUS
<1>2. Scan(ch, t, limit) = IF hits = {} THEN None ELSE At(ch, Min(hits))
  BY DEF Scan
<1>3. ASSUME NEW p \in 1 .. limit, IsNewest(ch, t, p)
      PROVE  Scan(ch, t, limit) = At(ch, p) /\ At(ch, p) # None
  <2>1. p \in hits /\ \A q \in hits : p <= q
    BY <1>1, <1>3 DEF IsNewest
  <2>2. \A q \in hits : q \in Nat
    OBVIOUS
  <2> HIDE DEF hits
  <2>3. \A x \in hits : (\A y \in hits : x =< y) => x = p
    BY <2>1, <2>2
  <2>4. Min(hits) = p
    BY <2>1, <2>3 DEF Min
  <2>5. At(ch, p) \in [pos : Nat, set : Varsets]
    BY <1>1 DEF At
  <2> QED BY <1>2, <2>1, <2>4, <2>5, NoneAssumption
<1>4. (\A p \in 1 .. limit : ~ Holds(ch[p], t)) => Scan(ch, t, limit) = None
  BY <1>1, <1>2
<1>5. (\E p \in 1 .. limit : Holds(ch[p], t)) => \E p \in 1 .. limit : IsNewest(ch, t, p)
  <2> SUFFICES ASSUME NEW p \in 1 .. limit, Holds(ch[p], t)
               PROVE  \E q \in 1 .. limit : IsNewest(ch, t, q)
    OBVIOUS
  <2>1. p \in 1 .. Len(ch)
    BY <1>1
  <2>2. PICK q \in 1 .. p : IsNewest(ch, t, q)
    BY <2>1, NewestExists
  <2> QED BY <2>2
<1> QED BY <1>3, <1>4, <1>5

\* Table ix answers for the chain behind its prefix.
Covers(ix, ch) ==
  LET older == ix.prefix + 1 .. Len(ch) IN
  /\ ix = [prefix |-> ix.prefix, members |-> ix.members, table |-> ix.table, ncd |-> ix.ncd]
  /\ ix.prefix \in 0 .. Len(ch)
  /\ \A t \in Terms :
       /\ t \in DOMAIN ix.table => \E p \in older : Holds(ch[p], t)
       /\ \A p \in older :
            Holds(ch[p], t) /\ (\A q \in older : q < p => ~ Holds(ch[q], t)) =>
              t \in DOMAIN ix.table /\ ix.table[t] = [pos |-> p - ix.prefix, set |-> ch[p]]

LEMMA LookupScans ==
  ASSUME NEW ch \in Seq(Varsets), NEW ix, ix = None \/ Covers(ix, ch), NEW t \in Terms
  PROVE  LookupIn(ix, ch, t) = Scan(ch, t, Len(ch))
<1>1. Len(ch) \in Nat
  OBVIOUS
<1>2. CASE ix = None
  BY <1>2 DEF LookupIn
<1>3. CASE ix # None
  <2>1. Covers(ix, ch) /\ ix.prefix \in 0 .. Len(ch)
    BY <1>3 DEF Covers
  <2> DEFINE recent == Scan(ch, t, ix.prefix)
             n == ix.prefix
  <2>2. LookupIn(ix, ch, t) =
          IF recent # None THEN recent
          ELSE IF t \in DOMAIN ix.table THEN Shift(ix.table[t], n) ELSE None
    BY <1>3 DEF LookupIn
  <2>3. CASE recent # None
    <3>1. PICK p \in 1 .. n : IsNewest(ch, t, p) /\ recent = At(ch, p)
      BY <2>1, <2>3, ScanFinds
    <3>2. Scan(ch, t, Len(ch)) = At(ch, p)
      BY <1>1, <2>1, <3>1, ScanFinds
    <3> QED BY <2>2, <2>3, <3>1, <3>2
  <2>4. CASE recent = None
    <3>1. \A p \in 1 .. n : ~ Holds(ch[p], t)
      BY <2>1, <2>4, ScanFinds
    <3>2. CASE \E p \in 1 .. Len(ch) : Holds(ch[p], t)
      <4>1. PICK p \in 1 .. Len(ch) : IsNewest(ch, t, p)
        BY <3>2, <1>1, NewestExists
      <4>2. p \in n + 1 .. Len(ch) /\ Holds(ch[p], t)
            /\ \A q \in n + 1 .. Len(ch) : q < p => ~ Holds(ch[q], t)
        BY <1>1, <2>1, <3>1, <4>1 DEF IsNewest
      <4>3. t \in DOMAIN ix.table /\ ix.table[t] = [pos |-> p - n, set |-> ch[p]]
        BY <2>1, <4>2 DEF Covers
      <4>4. ix.table[t] \in [pos : Nat, set : Varsets]
        BY <2>1, <4>2, <4>3
      <4>5. Shift(ix.table[t], n) = At(ch, p)
        <5>1. (p - n) + n = p
          BY <2>1, <4>2
        <5> QED BY <4>3, <4>4, <5>1, NoneAssumption DEF Shift, At
      <4>6. Scan(ch, t, Len(ch)) = At(ch, p)
        BY <1>1, <4>1, ScanFinds
      <4> QED BY <2>2, <2>4, <4>3, <4>5, <4>6
    <3>3. CASE ~ \E p \in 1 .. Len(ch) : Holds(ch[p], t)
      <4>1. t \notin DOMAIN ix.table
        BY <2>1, <3>3 DEF Covers
      <4>2. Scan(ch, t, Len(ch)) = None
        BY <1>1, <3>3, ScanFinds
      <4> QED BY <2>2, <2>4, <4>1, <4>2
    <3> QED BY <3>2, <3>3
  <2> QED BY <2>3, <2>4
<1> QED BY <1>2, <1>3

-----------------------------------------------------------------------------
(* The table.                                                               *)

\* f is the walk over the first m varsets.
Walks(ch, f, m) ==
  f = [p \in 0 .. m |-> IF p = 0 THEN EmptyIndex ELSE Entered(f[p - 1], ch[p], p)]

LEMMA WalksExist ==
  ASSUME NEW ch, NEW n \in Nat
  PROVE  \E f : Walks(ch, f, n)
<1> DEFINE T == {m \in Nat : ~ \E f : Walks(ch, f, m)}
<1>1. CASE T = {}
  BY <1>1
<1>2. CASE T # {}
  <2>1. PICK m \in T : \A k \in T : m <= k
    BY <1>2, LeastNatural
  <2>2. CASE m = 0
    <3> DEFINE f == [p \in 0 .. 0 |-> EmptyIndex]
    <3>1. Walks(ch, f, 0)
      BY DEF Walks
    <3> QED BY <2>1, <2>2, <3>1
  <2>3. CASE m # 0
    <3>1. m \in Nat /\ m - 1 \in Nat /\ m - 1 \notin T
      BY <2>1, <2>3
    <3>2. PICK old : Walks(ch, old, m - 1)
      BY <3>1
    <3> DEFINE f == [p \in 0 .. m |-> IF p = 0 THEN EmptyIndex ELSE Entered(old[p - 1], ch[p], p)]
    <3>3. \A p \in 0 .. m - 1 : f[p] = old[p]
      BY <3>1, <3>2 DEF Walks
    <3>4. \A p \in 0 .. m : p # 0 => p - 1 \in 0 .. m - 1
      BY <3>1
    <3>5. Walks(ch, f, m)
      BY <3>3, <3>4 DEF Walks
    <3> QED BY <2>1, <3>5
  <2> QED BY <2>2, <2>3
<1> QED BY <1>1, <1>2

LEMMA BuildRecursion ==
  ASSUME NEW ch, Len(ch) \in Nat
  PROVE  \E f : Walks(ch, f, Len(ch)) /\ BuildIndex(ch) = f[Len(ch)]
<1> DEFINE f == CHOOSE f : Walks(ch, f, Len(ch))
<1>1. \E g : Walks(ch, g, Len(ch))
  BY WalksExist
<1>2. Walks(ch, f, Len(ch))
  BY <1>1
<1>3. BuildIndex(ch) = f[Len(ch)]
  BY DEF BuildIndex, Walks
<1> HIDE DEF f
<1> QED BY <1>2, <1>3

\* The table knows the newest of the first m varsets for each term.
KnowsTo(ch, ix, m) ==
  /\ ix = [prefix |-> 0, members |-> 0, table |-> ix.table, ncd |-> ix.ncd]
  /\ \A t \in Terms :
       /\ t \in DOMAIN ix.table => \E p \in 1 .. m : Holds(ch[p], t)
       /\ \A p \in 1 .. m :
            IsNewest(ch, t, p) => t \in DOMAIN ix.table /\ ix.table[t] = At(ch, p)

LEMMA EnteredKnows ==
  ASSUME NEW ch \in Seq(Varsets), NEW m \in 0 .. Len(ch) - 1, NEW ix, KnowsTo(ch, ix, m)
  PROVE  KnowsTo(ch, Entered(ix, ch[m + 1], m + 1), m + 1)
<1> DEFINE keys == ToSet(ch[m + 1].cd) \cup ({ch[m + 1].constant} \ {None})
           new == Entered(ix, ch[m + 1], m + 1)
<1>1. /\ new = [prefix |-> 0, members |-> 0, table |-> new.table, ncd |-> new.ncd]
      /\ new.table = InsertNew(ix.table, keys, At(ch, m + 1))
  BY DEF Entered, At
<1>2. /\ DOMAIN new.table = DOMAIN ix.table \cup keys
      /\ \A t \in DOMAIN ix.table : new.table[t] = ix.table[t]
      /\ \A t \in keys : t \notin DOMAIN ix.table => new.table[t] = At(ch, m + 1)
  <2> HIDE DEF new, keys
  <2> QED BY <1>1 DEF InsertNew
<1>3. m + 1 \in 1 .. Len(ch) /\ ch[m + 1] \in Varsets /\ m \in Nat
  OBVIOUS
<1>4. \A t \in Terms : t \in keys <=> Holds(ch[m + 1], t)
  <2>1. ToSet(ch[m + 1].cd) \subseteq StepVars
    BY <1>3 DEF Varsets, ToSet
  <2>2. ch[m + 1].constant \in Objects \cup {None}
    BY <1>3 DEF Varsets
  <2>3. None \notin StepVars \cup Objects /\ StepVars \cap Objects = {}
    BY NoneAssumption DEF Terms
  <2> QED BY <2>1, <2>2, <2>3 DEF Holds, Terms
<1> HIDE DEF keys, new
<1>5. ASSUME NEW t \in Terms, t \in DOMAIN new.table
      PROVE  \E p \in 1 .. m + 1 : Holds(ch[p], t)
  <2>1. CASE t \in DOMAIN ix.table
    <3>1. PICK p \in 1 .. m : Holds(ch[p], t)
      BY <2>1 DEF KnowsTo
    <3>2. p \in 1 .. m + 1
      BY <1>3
    <3> QED BY <3>1, <3>2
  <2>2. CASE t \in keys
    <3>1. m + 1 \in 1 .. m + 1
      BY <1>3
    <3> QED BY <1>4, <2>2, <3>1
  <2> QED BY <1>2, <1>5, <2>1, <2>2
<1>6. ASSUME NEW t \in Terms, NEW p \in 1 .. m + 1, IsNewest(ch, t, p)
      PROVE  t \in DOMAIN new.table /\ new.table[t] = At(ch, p)
  <2>1. CASE p \in 1 .. m
    BY <1>2, <1>6, <2>1 DEF KnowsTo
  <2>2. CASE p = m + 1
    <3>1. \A q \in 1 .. m : ~ Holds(ch[q], t)
      BY <1>3, <1>6, <2>2 DEF IsNewest
    <3>2. t \notin DOMAIN ix.table
      BY <3>1 DEF KnowsTo
    <3>3. t \in keys
      BY <1>4, <1>6, <2>2 DEF IsNewest
    <3> QED BY <1>2, <2>2, <3>2, <3>3
  <2> QED BY <1>3, <2>1, <2>2
<1> QED BY <1>1, <1>5, <1>6 DEF KnowsTo, new

LEMMA BuiltCovers ==
  ASSUME NEW ch \in Seq(Varsets)
  PROVE  Covers(BuildIndex(ch), ch)
<1> DEFINE n == Len(ch)
<1>1. n \in Nat
  OBVIOUS
<1>2. PICK f : Walks(ch, f, n) /\ BuildIndex(ch) = f[n]
  BY <1>1, BuildRecursion
<1>3. f[0] = EmptyIndex /\ \A p \in 1 .. n : f[p] = Entered(f[p - 1], ch[p], p)
  BY <1>1, <1>2 DEF Walks
<1> DEFINE Good(m) == KnowsTo(ch, f[m], m)
           D == {m \in 0 .. n : ~ Good(m)}
<1>4. Good(0)
  BY <1>3 DEF KnowsTo, EmptyIndex
<1>5. ASSUME NEW m \in 0 .. n - 1, Good(m) PROVE Good(m + 1)
  <2>1. f[m + 1] = Entered(f[m], ch[m + 1], m + 1)
    <3>1. m + 1 \in 1 .. n /\ (m + 1) - 1 = m
      BY <1>1
    <3> QED BY <1>3, <3>1
  <2> QED BY <1>5, <2>1, EnteredKnows
<1>6. Good(n)
  <2>1. D \subseteq Nat /\ \A m \in D : m \in 0 .. n /\ ~ Good(m)
    OBVIOUS
  <2>2. \A m \in 0 .. n : m \notin D => Good(m)
    OBVIOUS
  <2> HIDE DEF D, Good
  <2>3. CASE D = {}
    BY <1>1, <2>2, <2>3
  <2>4. CASE D # {}
    <3>1. PICK m \in D : \A k \in D : m <= k
      BY <2>1, <2>4, LeastNatural
    <3>2. m # 0 /\ m \in 0 .. n
      BY <1>4, <2>1, <3>1
    <3>3. m - 1 \in 0 .. n - 1 /\ m - 1 \notin D /\ (m - 1) + 1 = m
      BY <1>1, <2>1, <3>1, <3>2
    <3>4. Good(m - 1)
      BY <2>2, <3>3
    <3>5. Good(m)
      BY <1>5, <3>3, <3>4
    <3> QED BY <2>1, <3>1, <3>5
  <2> QED BY <2>3, <2>4
<1> HIDE DEF Good
<1> DEFINE ix == BuildIndex(ch)
<1>7. KnowsTo(ch, ix, n)
  BY <1>2, <1>6 DEF Good
<1> HIDE DEF ix
<1>8. ix.prefix = 0 /\ ix = [prefix |-> ix.prefix, members |-> ix.members,
                             table |-> ix.table, ncd |-> ix.ncd]
  BY <1>7 DEF KnowsTo
<1>9. ASSUME NEW t \in Terms, NEW p \in 1 .. n, Holds(ch[p], t),
             \A q \in 1 .. n : q < p => ~ Holds(ch[q], t)
      PROVE  IsNewest(ch, t, p)
  BY <1>1, <1>9 DEF IsNewest
<1>10. 0 + 1 = 1 /\ \A p \in 1 .. n : p - 0 = p
  BY <1>1
<1> QED BY <1>1, <1>7, <1>8, <1>9, <1>10 DEF Covers, KnowsTo, At, ix

-----------------------------------------------------------------------------
(* Varsets.  What one says depends on the terms it holds and on the         *)
(* variables it is separated from; each operation is stated by these two.   *)

LEMMA NoneApart ==
  /\ StepVars \cap Objects = {} /\ None \notin StepVars /\ None \notin Objects
  /\ None \notin Types /\ None \notin Varsets
  /\ Terms = StepVars \cup Objects
  BY NoneAssumption DEF Terms

LEMMA VarsetFields ==
  ASSUME NEW vs \in Varsets
  PROVE  /\ vs = Varset(vs.constant, vs.cd, vs.ncd, vs.type)
         /\ vs.constant \in Objects \cup {None} /\ vs.cd \in Seq(StepVars)
         /\ vs.ncd \subseteq StepVars /\ vs.type \in Types
         /\ ToSet(vs.cd) \subseteq StepVars
  BY DEF Varsets, Varset, ToSet

LEMMA VarsetIs ==
  ASSUME NEW c, NEW cd, NEW ncd, NEW t, NEW vs, vs = Varset(c, cd, ncd, t),
         c \in Objects \cup {None}, cd \in Seq(StepVars), ncd \in SUBSET StepVars, t \in Types
  PROVE  /\ vs \in Varsets /\ vs.ncd = ncd
         /\ \A u \in Terms : Holds(vs, u) <=> u \in ToSet(cd) \/ (u = c /\ u \in Objects)
<1>1. vs \in Varsets /\ vs.ncd = ncd /\ vs.constant = c /\ vs.cd = cd
  BY DEF Varset, Varsets
<1>2. ToSet(cd) \subseteq StepVars
  BY DEF ToSet
<1>3. ASSUME NEW u \in Terms PROVE Holds(vs, u) <=> u \in ToSet(cd) \/ (u = c /\ u \in Objects)
  BY <1>1, <1>2, NoneApart DEF Holds
<1> QED BY <1>1, <1>3

LEMMA InSet ==
  ASSUME NEW S, NEW s \in Seq(S)
  PROVE  /\ \A i \in 1 .. Len(s) : s[i] \in ToSet(s)
         /\ \A e \in ToSet(s) : \E i \in 1 .. Len(s) : s[i] = e
  BY DEF ToSet

\* The members of the sequences that are built.
LEMMA MembersOf ==
  ASSUME NEW a \in Seq(StepVars), NEW b \in Seq(StepVars), NEW x \in StepVars, NEW y \in StepVars
  PROVE  /\ <<x>> \in Seq(StepVars) /\ ToSet(<<x>>) = {x}
         /\ <<x, y>> \in Seq(StepVars) /\ ToSet(<<x, y>>) = {x, y}
         /\ <<x>> \o a \in Seq(StepVars) /\ ToSet(<<x>> \o a) = ToSet(a) \cup {x}
         /\ Reverse(b) \o a \in Seq(StepVars) /\ ToSet(Reverse(b) \o a) = ToSet(a) \cup ToSet(b)
<1>1. /\ <<x>> \in Seq(StepVars) /\ ToSet(<<x>>) = {x}
      /\ <<x, y>> \in Seq(StepVars) /\ ToSet(<<x, y>>) = {x, y}
  BY DEF ToSet
<1>2. ASSUME NEW p \in Seq(StepVars), NEW q \in Seq(StepVars)
      PROVE  p \o q \in Seq(StepVars) /\ ToSet(p \o q) = ToSet(p) \cup ToSet(q)
  <2>1. /\ p \o q \in Seq(StepVars) /\ Len(p \o q) = Len(p) + Len(q)
        /\ \A i \in 1 .. Len(p) + Len(q) :
             (p \o q)[i] = IF i <= Len(p) THEN p[i] ELSE q[i - Len(p)]
    BY ConcatProperties
  <2> DEFINE r == p \o q
  <2> HIDE DEF r
  <2>2. r \in Seq(StepVars) /\ Len(r) = Len(p) + Len(q) /\ Len(p) \in Nat /\ Len(q) \in Nat
    BY <2>1 DEF r
  <2>3. \A i \in 1 .. Len(p) + Len(q) : r[i] = IF i <= Len(p) THEN p[i] ELSE q[i - Len(p)]
    BY <2>1 DEF r
  <2>4. ASSUME NEW e \in ToSet(r) PROVE e \in ToSet(p) \cup ToSet(q)
    <3>1. PICK i \in 1 .. Len(r) : r[i] = e
      BY <2>2, <2>4, InSet
    <3>2. CASE i <= Len(p)
      <4>1. i \in 1 .. Len(p) /\ p[i] = e
        BY <2>2, <2>3, <3>1, <3>2
      <4> QED BY <4>1, InSet
    <3>3. CASE ~ (i <= Len(p))
      <4>1. i - Len(p) \in 1 .. Len(q) /\ q[i - Len(p)] = e
        BY <2>2, <2>3, <3>1, <3>3
      <4> QED BY <4>1, InSet
    <3> QED BY <3>2, <3>3
  <2>5. ASSUME NEW e \in ToSet(p) PROVE e \in ToSet(r)
    <3>1. PICK i \in 1 .. Len(p) : p[i] = e
      BY <2>5, InSet
    <3>2. i \in 1 .. Len(r) /\ r[i] = e
      BY <2>2, <2>3, <3>1
    <3> QED BY <2>2, <3>2, InSet
  <2>6. ASSUME NEW e \in ToSet(q) PROVE e \in ToSet(r)
    <3>1. PICK i \in 1 .. Len(q) : q[i] = e
      BY <2>6, InSet
    <3>2. /\ i + Len(p) \in 1 .. Len(r) /\ ~ (i + Len(p) <= Len(p))
          /\ (i + Len(p)) - Len(p) = i
      BY <2>2, <3>1
    <3>3. r[i + Len(p)] = e
      BY <2>2, <2>3, <3>1, <3>2
    <3> QED BY <2>2, <3>2, <3>3, InSet
  <2> QED BY <2>1, <2>4, <2>5, <2>6 DEF r
<1>3. Reverse(b) \in Seq(StepVars) /\ ToSet(Reverse(b)) = ToSet(b)
  <2> DEFINE r == Reverse(b)
  <2>1. /\ r \in Seq(StepVars) /\ Len(r) = Len(b) /\ Len(b) \in Nat
        /\ \A i \in 1 .. Len(b) : r[i] = b[(Len(b) - i) + 1]
    BY DEF Reverse
  <2> HIDE DEF r
  <2>2. \A i \in 1 .. Len(b) :
          (Len(b) - i) + 1 \in 1 .. Len(b) /\ (Len(b) - ((Len(b) - i) + 1)) + 1 = i
    BY <2>1
  <2>3. ASSUME NEW e \in ToSet(r) PROVE e \in ToSet(b)
    <3>1. PICK i \in 1 .. Len(r) : r[i] = e
      BY <2>1, <2>3, InSet
    <3>2. (Len(b) - i) + 1 \in 1 .. Len(b) /\ b[(Len(b) - i) + 1] = e
      BY <2>1, <2>2, <3>1
    <3> QED BY <3>2, InSet
  <2>4. ASSUME NEW e \in ToSet(b) PROVE e \in ToSet(r)
    <3>1. PICK i \in 1 .. Len(b) : b[i] = e
      BY <2>4 DEF ToSet
    <3>2. r[(Len(b) - i) + 1] = e
      BY <2>1, <2>2, <3>1
    <3>3. (Len(b) - i) + 1 \in 1 .. Len(r)
      BY <2>1, <2>2, <3>1
    <3> QED BY <2>1, <3>2, <3>3, InSet
  <2> QED BY <2>1, <2>3, <2>4 DEF r
<1>4. <<x>> \o a \in Seq(StepVars) /\ ToSet(<<x>> \o a) = ToSet(a) \cup {x}
  <2>1. <<x>> \o a \in Seq(StepVars) /\ ToSet(<<x>> \o a) = ToSet(<<x>>) \cup ToSet(a)
    BY ONLY <1>1, <1>2, a \in Seq(StepVars)
  <2> QED BY <1>1, <2>1
<1>5. /\ Reverse(b) \o a \in Seq(StepVars)
      /\ ToSet(Reverse(b) \o a) = ToSet(Reverse(b)) \cup ToSet(a)
  BY ONLY <1>2, <1>3, a \in Seq(StepVars)
<1> QED BY ONLY <1>1, <1>3, <1>4, <1>5

LEMMA SpecificType ==
  ASSUME NEW s \in Types, NEW t \in Types
  PROVE  MostSpecific(s, t) \in Types \cup {None}
  BY DEF MostSpecific

\* add_object and add_var: the class gains the term.
LEMMA AddTermHolds ==
  ASSUME NEW vs \in Varsets, NEW t \in Terms, AddTerm(vs, t) # None
  PROVE  /\ AddTerm(vs, t) \in Varsets /\ AddTerm(vs, t).ncd = vs.ncd
         /\ \A u \in Terms : Holds(AddTerm(vs, t), u) <=> Holds(vs, u) \/ u = t
<1> DEFINE new == AddTerm(vs, t)
<1>1. /\ vs = [constant |-> vs.constant, cd |-> vs.cd, ncd |-> vs.ncd, type |-> vs.type]
      /\ vs.constant \in Objects \cup {None} /\ vs.cd \in Seq(StepVars)
      /\ vs.ncd \subseteq StepVars /\ vs.type \in Types
      /\ ToSet(vs.cd) \subseteq StepVars
  BY VarsetFields DEF Varset
<1>2. CASE t \in Objects
  <2>1. new = AddObject(vs, t)
    BY <1>2 DEF AddTerm
  <2>2. CASE vs.constant = t
    <3>1. new = vs
      BY <2>1, <2>2 DEF AddObject
    <3> QED BY <1>2, <2>2, <3>1, NoneApart DEF Holds
  <2>3. CASE vs.constant # t
    <3>1. /\ new = [vs EXCEPT !.constant = t, !.type = ObjType[t]] /\ vs.constant = None
      BY <2>1, <2>3 DEF AddObject
    <3>2. new = Varset(t, vs.cd, vs.ncd, ObjType[t]) /\ ObjType[t] \in Types
      BY <1>1, <1>2, <3>1, BindingsAssumption DEF Varset
    <3>3. /\ new \in Varsets /\ new.ncd = vs.ncd
          /\ \A u \in Terms : Holds(new, u) <=> u \in ToSet(vs.cd) \/ u = t
      <4>1. /\ t \in Objects \cup {None} /\ vs.cd \in Seq(StepVars)
            /\ vs.ncd \in SUBSET StepVars /\ ObjType[t] \in Types
        BY <1>1, <1>2, <3>2
      <4>2. /\ new \in Varsets /\ new.ncd = vs.ncd
            /\ \A u \in Terms : Holds(new, u) <=> u \in ToSet(vs.cd) \/ (u = t /\ u \in Objects)
        <5> HIDE DEF new
        <5> QED BY ONLY <3>2, <4>1, VarsetIs
      <4> QED BY <1>2, <4>2
    <3>4. \A u \in Terms : Holds(vs, u) <=> u \in ToSet(vs.cd)
      BY <1>1, <3>1, NoneApart DEF Holds
    <3> QED BY <3>3, <3>4
  <2> QED BY <2>2, <2>3
<1>3. CASE t \notin Objects
  <2>1. t \in StepVars /\ new = AddVar(vs, t)
    BY <1>3, NoneApart DEF AddTerm
  <2> DEFINE type == IF vs.constant # None
                     THEN IF Subtype(vs.type, VarType[t]) THEN vs.type ELSE None
                     ELSE MostSpecific(vs.type, VarType[t])
  <2>2. type # None /\ new = [vs EXCEPT !.cd = <<t>> \o vs.cd, !.type = type]
    BY <2>1 DEF AddVar
  <2>3. type \in Types
    BY <1>1, <2>1, <2>2, BindingsAssumption, SpecificType
  <2> HIDE DEF type
  <2>4. new = Varset(vs.constant, <<t>> \o vs.cd, vs.ncd, type)
    BY <1>1, <2>2 DEF Varset
  <2>5. <<t>> \o vs.cd \in Seq(StepVars) /\ ToSet(<<t>> \o vs.cd) = ToSet(vs.cd) \cup {t}
    BY <1>1, <2>1, MembersOf
  <2>6. /\ new \in Varsets /\ new.ncd = vs.ncd
        /\ \A u \in Terms :
             Holds(new, u) <=> u \in ToSet(vs.cd) \cup {t} \/ (u = vs.constant /\ u \in Objects)
    <3> DEFINE cd == <<t>> \o vs.cd
    <3>1. /\ vs.constant \in Objects \cup {None} /\ cd \in Seq(StepVars)
          /\ vs.ncd \in SUBSET StepVars /\ type \in Types
      BY <1>1, <2>3, <2>5
    <3> HIDE DEF cd
    <3>2. new = Varset(vs.constant, cd, vs.ncd, type)
      BY <2>4 DEF cd
    <3> HIDE DEF new
    <3>3. /\ new \in Varsets /\ new.ncd = vs.ncd
          /\ \A u \in Terms : Holds(new, u) <=>
                              u \in ToSet(cd) \/ (u = vs.constant /\ u \in Objects)
      BY ONLY <3>1, <3>2, VarsetIs
    <3> QED BY <2>5, <3>3 DEF cd
  <2>7. \A u \in Terms : Holds(vs, u) <=> u \in ToSet(vs.cd) \/ (u = vs.constant /\ u \in Objects)
    BY <1>1, NoneApart DEF Holds
  <2> QED BY <2>6, <2>7
<1> QED BY <1>2, <1>3

\* combine: both classes, with the separations of both.
LEMMA CombineHolds ==
  ASSUME NEW a \in Varsets, NEW b \in Varsets, Combine(a, b) # None
  PROVE  /\ Combine(a, b) \in Varsets /\ Combine(a, b).ncd = a.ncd \cup b.ncd
         /\ \A u \in Terms : Holds(Combine(a, b), u) <=> Holds(a, u) \/ Holds(b, u)
<1> DEFINE new == Combine(a, b)
           type == CombinedType(a, b)
           c == IF a.constant # None THEN a.constant ELSE b.constant
           cd == Reverse(b.cd) \o a.cd
<1>1. /\ \A v \in {a, b} : /\ v.constant \in Objects \cup {None} /\ v.cd \in Seq(StepVars)
                           /\ v.ncd \subseteq StepVars /\ v.type \in Types
                           /\ ToSet(v.cd) \subseteq StepVars
  BY VarsetFields
<1>2. type # None /\ new = Varset(c, cd, a.ncd \cup b.ncd, type)
  BY DEF Combine
<1>3. type \in Types /\ (a.constant # None /\ b.constant # None => a.constant = b.constant)
  BY <1>1, <1>2, SpecificType DEF CombinedType
<1>4. cd \in Seq(StepVars) /\ ToSet(cd) = ToSet(a.cd) \cup ToSet(b.cd)
  <2>1. \A x \in StepVars : cd \in Seq(StepVars) /\ ToSet(cd) = ToSet(a.cd) \cup ToSet(b.cd)
    BY <1>1, MembersOf
  <2>2. CASE StepVars = {}
    <3>1. a.cd = <<>> /\ b.cd = <<>>
      BY <1>1, <2>2
    <3> QED BY <3>1 DEF Reverse, ToSet
  <2> QED BY <2>1, <2>2
<1> HIDE DEF type, cd
<1>5. /\ new \in Varsets /\ new.ncd = a.ncd \cup b.ncd
      /\ \A u \in Terms : Holds(new, u) <=> u \in ToSet(cd) \/ (u = c /\ u \in Objects)
  <2> HIDE DEF new
  <2>1. c \in Objects \cup {None} /\ a.ncd \cup b.ncd \subseteq StepVars
    BY <1>1
  <2> DEFINE ncd == a.ncd \cup b.ncd
  <2>2. /\ c \in Objects \cup {None} /\ cd \in Seq(StepVars)
        /\ ncd \in SUBSET StepVars /\ type \in Types
    BY <1>3, <1>4, <2>1
  <2> HIDE DEF c, ncd
  <2>3. new = Varset(c, cd, ncd, type)
    BY <1>2 DEF c, ncd
  <2> HIDE DEF new
  <2>4. /\ new \in Varsets /\ new.ncd = ncd
        /\ \A u \in Terms : Holds(new, u) <=> u \in ToSet(cd) \/ (u = c /\ u \in Objects)
    BY ONLY <2>2, <2>3, VarsetIs
  <2> QED BY <2>4 DEF ncd, c
<1>6. \A v \in {a, b} : \A u \in Terms :
        Holds(v, u) <=> u \in ToSet(v.cd) \/ (u = v.constant /\ u \in Objects)
  BY <1>1, NoneApart DEF Holds
<1>7. \A u \in Terms : u = c /\ u \in Objects <=>
        (u = a.constant \/ u = b.constant) /\ u \in Objects
  BY <1>1, <1>3, NoneApart
<1> QED BY <1>4, <1>5, <1>6, <1>7

\* make: the class of a first equality, and of one side of an inequality.
LEMMA MakeHolds ==
  ASSUME NEW b \in BindingSet
  PROVE  /\ MakeEqual(b) # None =>
              /\ MakeEqual(b) \in Varsets /\ MakeEqual(b).ncd = {}
              /\ \A u \in Terms : Holds(MakeEqual(b), u) <=> u \in {b.var, b.term}
         /\ b.term \in StepVars =>
              /\ MakeForward(b) \in Varsets /\ MakeForward(b).ncd = {b.term}
              /\ \A u \in Terms : Holds(MakeForward(b), u) <=> u = b.var
         /\ /\ MakeReverse(b) \in Varsets /\ MakeReverse(b).ncd = {b.var}
            /\ \A u \in Terms : Holds(MakeReverse(b), u) <=> u = b.term
<1>1. /\ b.var \in StepVars /\ b.term \in Terms /\ VarType[b.var] \in Types
      /\ b.term \in StepVars => VarType[b.term] \in Types
      /\ b.term \in Objects => ObjType[b.term] \in Types
      /\ b.term \notin Objects <=> b.term \in StepVars
      /\ None \notin Terms
  BY NoneApart, BindingsAssumption DEF BindingSet
<1>2. /\ None \in Objects \cup {None} /\ {} \in SUBSET StepVars
      /\ <<>> \in Seq(StepVars) /\ ToSet(<<>>) = {}
      /\ <<b.var>> \in Seq(StepVars) /\ ToSet(<<b.var>>) = {b.var}
      /\ {b.var} \in SUBSET StepVars
  BY <1>1 DEF ToSet
<1>3. CASE b.term \in Objects
  <2> DEFINE one == <<b.var>>
             none == <<>>
             sep == {b.var}
             empty == {}
             t == ObjType[b.term]
             o == b.term
             equal == MakeEqual(b)
             reverse == MakeReverse(b)
  <2>1. /\ MakeEqual(b) = Varset(b.term, <<b.var>>, {}, ObjType[b.term])
        /\ MakeReverse(b) = Varset(b.term, <<>>, {b.var}, ObjType[b.term])
    BY <1>3 DEF MakeEqual, MakeReverse
  <2>2. /\ o \in Objects \cup {None} /\ t \in Types
        /\ one \in Seq(StepVars) /\ none \in Seq(StepVars)
        /\ sep \in SUBSET StepVars /\ empty \in SUBSET StepVars
        /\ equal = Varset(o, one, empty, t) /\ reverse = Varset(o, none, sep, t)
    BY <1>1, <1>2, <1>3, <2>1
  <2> HIDE DEF one, none, sep, empty, t, o, equal, reverse
  <2>3. /\ equal \in Varsets /\ equal.ncd = empty
        /\ \A u \in Terms : Holds(equal, u) <=> u \in ToSet(one) \/ (u = o /\ u \in Objects)
    BY ONLY <2>2, VarsetIs
  <2>4. /\ reverse \in Varsets /\ reverse.ncd = sep
        /\ \A u \in Terms : Holds(reverse, u) <=> u \in ToSet(none) \/ (u = o /\ u \in Objects)
    BY ONLY <2>2, VarsetIs
  <2> QED BY <1>1, <1>2, <1>3, <2>3, <2>4 DEF one, none, sep, empty, o, equal, reverse
<1>4. CASE b.term \in StepVars
  <2> DEFINE t == MostSpecific(VarType[b.var], VarType[b.term])
  <2>1. /\ MakeEqual(b) = IF t = None THEN None ELSE Varset(None, <<b.term, b.var>>, {}, t)
        /\ MakeForward(b) = Varset(None, <<b.var>>, {b.term}, VarType[b.var])
        /\ MakeReverse(b) = Varset(None, <<b.term>>, {b.var}, VarType[b.term])
    <3>1. b.term \notin Objects
      BY <1>1, <1>4
    <3>2. MakeEqual(b) = IF t = None THEN None ELSE Varset(None, <<b.term, b.var>>, {}, t)
      BY <3>1 DEF MakeEqual
    <3>3. MakeForward(b) = Varset(None, <<b.var>>, {b.term}, VarType[b.var])
      BY <3>1 DEF MakeForward
    <3>4. MakeReverse(b) = Varset(None, <<b.term>>, {b.var}, VarType[b.term])
      BY <3>1 DEF MakeReverse
    <3> QED BY <3>2, <3>3, <3>4
  <2>2. t \in Types \cup {None}
    BY <1>1, <1>4, SpecificType
  <2>3. /\ <<b.term>> \in Seq(StepVars) /\ ToSet(<<b.term>>) = {b.term}
        /\ <<b.term, b.var>> \in Seq(StepVars) /\ ToSet(<<b.term, b.var>>) = {b.term, b.var}
        /\ {b.term} \in SUBSET StepVars /\ VarType[b.var] \in Types /\ VarType[b.term] \in Types
    BY <1>1, <1>4 DEF ToSet
  <2> HIDE DEF t
  <2>4. ASSUME MakeEqual(b) # None
        PROVE  /\ MakeEqual(b) \in Varsets /\ MakeEqual(b).ncd = {}
               /\ \A u \in Terms : Holds(MakeEqual(b), u) <=>
                                   u \in ToSet(<<b.term, b.var>>) \/ (u = None /\ u \in Objects)
    <3> DEFINE two == <<b.term, b.var>>
               empty == {}
               equal == MakeEqual(b)
    <3>1. /\ t \in Types /\ equal = Varset(None, two, empty, t)
          /\ None \in Objects \cup {None} /\ two \in Seq(StepVars) /\ empty \in SUBSET StepVars
      BY <1>2, <2>1, <2>2, <2>3, <2>4
    <3> HIDE DEF two, empty, equal
    <3>2. /\ equal \in Varsets /\ equal.ncd = empty
          /\ \A u \in Terms : Holds(equal, u) <=>
                              u \in ToSet(two) \/ (u = None /\ u \in Objects)
      BY ONLY <3>1, VarsetIs
    <3> QED BY <3>2 DEF two, empty, equal
  <2>5. /\ MakeForward(b) \in Varsets /\ MakeForward(b).ncd = {b.term}
        /\ \A u \in Terms : Holds(MakeForward(b), u) <=>
                            u \in ToSet(<<b.var>>) \/ (u = None /\ u \in Objects)
    <3> DEFINE one == <<b.var>>
               sep == {b.term}
               type == VarType[b.var]
               forward == MakeForward(b)
    <3>1. /\ type \in Types /\ forward = Varset(None, one, sep, type)
          /\ None \in Objects \cup {None} /\ one \in Seq(StepVars) /\ sep \in SUBSET StepVars
      BY <1>2, <2>1, <2>3
    <3> HIDE DEF one, sep, type, forward
    <3>2. /\ forward \in Varsets /\ forward.ncd = sep
          /\ \A u \in Terms : Holds(forward, u) <=>
                              u \in ToSet(one) \/ (u = None /\ u \in Objects)
      BY ONLY <3>1, VarsetIs
    <3> QED BY <3>2 DEF one, sep, forward
  <2>6. /\ MakeReverse(b) \in Varsets /\ MakeReverse(b).ncd = {b.var}
        /\ \A u \in Terms : Holds(MakeReverse(b), u) <=>
                            u \in ToSet(<<b.term>>) \/ (u = None /\ u \in Objects)
    <3> DEFINE one == <<b.term>>
               sep == {b.var}
               type == VarType[b.term]
               reverse == MakeReverse(b)
    <3>1. /\ type \in Types /\ reverse = Varset(None, one, sep, type)
          /\ None \in Objects \cup {None} /\ one \in Seq(StepVars) /\ sep \in SUBSET StepVars
      BY <1>2, <2>1, <2>3
    <3> HIDE DEF one, sep, type, reverse
    <3>2. /\ reverse \in Varsets /\ reverse.ncd = sep
          /\ \A u \in Terms : Holds(reverse, u) <=>
                              u \in ToSet(one) \/ (u = None /\ u \in Objects)
      BY ONLY <3>1, VarsetIs
    <3> QED BY <3>2 DEF one, sep, reverse
  <2> QED BY <1>1, <1>2, <2>3, <2>4, <2>5, <2>6
<1> QED BY <1>1, <1>3, <1>4

LEMMA SeparateHolds ==
  ASSUME NEW vs \in Varsets, NEW v \in StepVars
  PROVE  /\ Separate(vs, v) = None <=> v \in vs.ncd
         /\ v \notin vs.ncd =>
              /\ Separate(vs, v) \in Varsets /\ Separate(vs, v).ncd = vs.ncd \cup {v}
              /\ \A u \in Terms : Holds(Separate(vs, v), u) <=> Holds(vs, u)
<1>1. vs = Varset(vs.constant, vs.cd, vs.ncd, vs.type)
  BY VarsetFields
<1>2. CASE v \in vs.ncd
  BY <1>2 DEF Separate
<1>3. CASE v \notin vs.ncd
  <2>1. Separate(vs, v) = Varset(vs.constant, vs.cd, vs.ncd \cup {v}, vs.type)
    BY <1>1, <1>3 DEF Separate, Varset
  <2>2. Separate(vs, v) \in Varsets
    BY <2>1 DEF Varset, Varsets
  <2> QED BY <1>3, <2>1, <2>2, NoneApart DEF Holds, Varset
<1> QED BY <1>2, <1>3

\* The type of a varset is that of its constant, or of one of its variables.
WellTyped(vs) ==
  \/ vs.constant # None /\ vs.type = ObjType[vs.constant]
  \/ vs.constant = None /\ \E v \in ToSet(vs.cd) : vs.type = VarType[v]

Typed(ch) == \A p \in 1 .. Len(ch) : WellTyped(ch[p])

\* A varset says that the terms it holds are equal, and that none of them
\* equals a variable it is separated from.
Agrees(vs, f) ==
  \A u, w \in Terms : Holds(vs, u) /\ Holds(vs, w) => Value(f, u) = Value(f, w)
Differs(vs, f) ==
  \A v \in vs.ncd, u \in Terms : Holds(vs, u) => f[v] # Value(f, u)

LEMMA TellsIs ==
  ASSUME NEW vs \in Varsets, NEW f \in Assignments
  PROVE  Tells(vs, f) <=> Agrees(vs, f) /\ Differs(vs, f)
<1>1. /\ vs.constant \in Objects \cup {None} /\ ToSet(vs.cd) \subseteq StepVars
      /\ Terms = StepVars \cup Objects /\ StepVars \cap Objects = {} /\ None \notin Terms
  BY VarsetFields, NoneApart
<1>2. /\ \A u \in ToSet(vs.cd) : u \in Terms /\ Holds(vs, u) /\ Value(f, u) = f[u]
      /\ vs.constant # None => /\ vs.constant \in Terms /\ Holds(vs, vs.constant)
                               /\ Value(f, vs.constant) = vs.constant
      /\ \A u \in Terms : Holds(vs, u) => u \in ToSet(vs.cd) \/ (u = vs.constant /\ u # None)
  BY <1>1 DEF Holds, Value
<1>3. ASSUME Tells(vs, f) PROVE Agrees(vs, f) /\ Differs(vs, f)
  BY <1>2, <1>3 DEF Tells, Agrees, Differs
<1>4. ASSUME Agrees(vs, f), Differs(vs, f) PROVE Tells(vs, f)
  BY <1>2, <1>4 DEF Tells, Agrees, Differs
<1> QED BY <1>3, <1>4

\* The operations keep varsets well typed.
LEMMA AddTermTyped ==
  ASSUME NEW vs \in Varsets, WellTyped(vs), NEW t \in Terms, AddTerm(vs, t) # None
  PROVE  WellTyped(AddTerm(vs, t))
<1>1. /\ vs = [constant |-> vs.constant, cd |-> vs.cd, ncd |-> vs.ncd, type |-> vs.type]
      /\ vs.constant \in Objects \cup {None} /\ vs.cd \in Seq(StepVars)
      /\ ToSet(vs.cd) \subseteq StepVars
  BY VarsetFields DEF Varset
<1>2. CASE t \in Objects
  <2>1. CASE vs.constant = t
    BY <1>2, <2>1 DEF AddTerm, AddObject
  <2>2. CASE vs.constant # t
    <3>1. AddTerm(vs, t) = [vs EXCEPT !.constant = t, !.type = ObjType[t]]
      BY <1>2, <2>2 DEF AddTerm, AddObject
    <3>2. AddTerm(vs, t) = Varset(t, vs.cd, vs.ncd, ObjType[t])
      BY <1>1, <3>1 DEF Varset
    <3> QED BY <1>2, <3>2, NoneApart DEF WellTyped, Varset
  <2> QED BY <2>1, <2>2
<1>3. CASE t \notin Objects
  <2>1. t \in StepVars /\ AddTerm(vs, t) = AddVar(vs, t)
    BY <1>3, NoneApart DEF AddTerm
  <2> DEFINE type == IF vs.constant # None
                     THEN IF Subtype(vs.type, VarType[t]) THEN vs.type ELSE None
                     ELSE MostSpecific(vs.type, VarType[t])
             cd == <<t>> \o vs.cd
  <2>2. type # None /\ AddVar(vs, t) = [vs EXCEPT !.cd = cd, !.type = type]
    BY <2>1 DEF AddVar
  <2>3. /\ vs.constant # None => type = vs.type
        /\ vs.constant = None => type = vs.type \/ type = VarType[t]
    BY <2>2 DEF MostSpecific
  <2>4. ToSet(cd) = ToSet(vs.cd) \cup {t}
    BY <1>1, <2>1, MembersOf
  <2> HIDE DEF type, cd
  <2>5. AddTerm(vs, t) = Varset(vs.constant, cd, vs.ncd, type)
    BY <1>1, <2>1, <2>2 DEF Varset
  <2>6. /\ AddTerm(vs, t).constant = vs.constant /\ AddTerm(vs, t).cd = cd
        /\ AddTerm(vs, t).type = type
    BY <2>5 DEF Varset
  <2> QED BY <2>3, <2>4, <2>6 DEF WellTyped
<1> QED BY <1>2, <1>3

LEMMA CombineTyped ==
  ASSUME NEW a \in Varsets, WellTyped(a), NEW b \in Varsets, WellTyped(b), Combine(a, b) # None
  PROVE  WellTyped(Combine(a, b))
<1> DEFINE type == CombinedType(a, b)
           c == IF a.constant # None THEN a.constant ELSE b.constant
           cd == Reverse(b.cd) \o a.cd
           new == Combine(a, b)
<1>1. type # None /\ new = Varset(c, cd, a.ncd \cup b.ncd, type)
  BY DEF Combine
<1>2. \A v \in {a, b} : v.cd \in Seq(StepVars)
  BY VarsetFields
<1>3. \A x \in StepVars : ToSet(cd) = ToSet(a.cd) \cup ToSet(b.cd)
  BY <1>2, MembersOf
<1>4. \A v \in {a, b} : ToSet(v.cd) \subseteq StepVars
  BY VarsetFields
<1>5. ToSet(a.cd) \cup ToSet(b.cd) \subseteq ToSet(cd)
  BY <1>3, <1>4
<1> HIDE DEF cd
<1>6. new.constant = c /\ new.cd = cd /\ new.type = type
  <2> DEFINE ncd == a.ncd \cup b.ncd
  <2>1. new = Varset(c, cd, ncd, type)
    BY <1>1
  <2> HIDE DEF c, ncd, type, new
  <2> QED BY <2>1 DEF Varset
<1>7. /\ a.constant # None => type = ObjType[a.constant]
      /\ a.constant = None /\ b.constant # None => type = ObjType[b.constant]
      /\ a.constant = None /\ b.constant = None => type = a.type \/ type = b.type
  BY <1>1 DEF CombinedType, MostSpecific, WellTyped
<1> HIDE DEF type, cd, new
<1> QED BY <1>5, <1>6, <1>7 DEF WellTyped, new

LEMMA MakeTyped ==
  ASSUME NEW b \in BindingSet
  PROVE  /\ MakeEqual(b) # None => WellTyped(MakeEqual(b))
         /\ b.term \in StepVars => WellTyped(MakeForward(b))
         /\ WellTyped(MakeReverse(b))
<1>1. /\ b.var \in StepVars /\ b.term \notin Objects <=> b.term \in StepVars
      /\ ToSet(<<b.var>>) = {b.var} /\ ToSet(<<b.term>>) = {b.term}
      /\ ToSet(<<b.term, b.var>>) = {b.term, b.var} /\ None \notin Objects
  BY NoneApart DEF BindingSet, ToSet
<1>2. CASE b.term \in Objects
  BY <1>1, <1>2 DEF MakeEqual, MakeReverse, WellTyped, Varset
<1>3. CASE b.term \notin Objects
  <2> DEFINE t == MostSpecific(VarType[b.var], VarType[b.term])
             two == <<b.term, b.var>>
             one == <<b.var>>
             other == <<b.term>>
  <2>1. /\ MakeEqual(b) = IF t = None THEN None ELSE Varset(None, two, {}, t)
        /\ MakeForward(b) = Varset(None, one, {b.term}, VarType[b.var])
        /\ MakeReverse(b) = Varset(None, other, {b.var}, VarType[b.term])
    BY <1>3 DEF MakeEqual, MakeForward, MakeReverse
  <2>2. t # None => t \in {VarType[b.var], VarType[b.term]}
    BY DEF MostSpecific
  <2>3. ToSet(two) = {b.term, b.var} /\ ToSet(one) = {b.var} /\ ToSet(other) = {b.term}
    BY <1>1
  <2> HIDE DEF t, two, one, other
  <2> QED BY <2>1, <2>2, <2>3 DEF WellTyped, Varset
<1> QED BY <1>2, <1>3

LEMMA SeparateTyped ==
  ASSUME NEW vs \in Varsets, WellTyped(vs), NEW v \in StepVars, v \notin vs.ncd
  PROVE  WellTyped(Separate(vs, v))
<1>1. vs = Varset(vs.constant, vs.cd, vs.ncd, vs.type)
  BY VarsetFields
<1>2. Separate(vs, v) = Varset(vs.constant, vs.cd, vs.ncd \cup {v}, vs.type)
  BY <1>1 DEF Separate, Varset
<1> QED BY <1>2 DEF WellTyped, Varset

\* What a varset says of its terms respects its type.
LEMMA TellsType ==
  ASSUME NEW vs \in Varsets, WellTyped(vs), NEW f \in Assignments, Tells(vs, f),
         NEW u \in Terms, Holds(vs, u)
  PROVE  /\ Value(f, u) \in Objects /\ Subtype(ObjType[Value(f, u)], vs.type)
         /\ vs.constant # None => Value(f, u) = vs.constant
<1>1. /\ vs.constant \in Objects \cup {None} /\ ToSet(vs.cd) \subseteq StepVars
      /\ Terms = StepVars \cup Objects /\ StepVars \cap Objects = {} /\ None \notin Terms
  BY VarsetFields, NoneApart
<1>2. Agrees(vs, f)
  BY TellsIs
<1>3. \A v \in StepVars : /\ f[v] \in Objects /\ Subtype(ObjType[f[v]], VarType[v])
                          /\ Value(f, v) = f[v]
  BY <1>1 DEF Assignments, Value
<1>4. \A o \in Objects : Value(f, o) = o /\ Subtype(ObjType[o], ObjType[o])
  BY BindingsAssumption DEF Value, Subtype
<1>5. CASE vs.constant # None
  <2>1. vs.constant \in Objects /\ vs.constant \in Terms /\ Holds(vs, vs.constant)
        /\ vs.type = ObjType[vs.constant]
    BY <1>1, <1>5 DEF Holds, WellTyped
  <2>2. Value(f, u) = Value(f, vs.constant)
    BY <1>2, <2>1 DEF Agrees
  <2> QED BY <1>4, <2>1, <2>2
<1>6. CASE vs.constant = None
  <2>1. PICK v \in ToSet(vs.cd) : vs.type = VarType[v]
    BY <1>6 DEF WellTyped
  <2>2. v \in StepVars /\ v \in Terms /\ Holds(vs, v)
    BY <1>1, <2>1 DEF Holds
  <2>3. Value(f, u) = Value(f, v)
    BY <1>2, <2>2 DEF Agrees
  <2> QED BY <1>3, <1>6, <2>1, <2>2, <2>3
<1> QED BY <1>5, <1>6

LEMMA NestedSpecific ==
  ASSUME TypesNested, NEW s \in Types, NEW t \in Types, NEW o \in Objects,
         Subtype(ObjType[o], s), Subtype(ObjType[o], t)
  PROVE  MostSpecific(s, t) # None
  BY NoneApart DEF TypesNested, MostSpecific

\* A term may join a class, and two classes may become one, whenever some
\* assignment says so.
LEMMA AddTermAccepts ==
  ASSUME TypesNested, NEW vs \in Varsets, WellTyped(vs), NEW f \in Assignments, Tells(vs, f),
         NEW t \in Terms, NEW u \in Terms, Holds(vs, u), Value(f, u) = Value(f, t)
  PROVE  AddTerm(vs, t) # None
<1>1. /\ vs = [constant |-> vs.constant, cd |-> vs.cd, ncd |-> vs.ncd, type |-> vs.type]
      /\ vs.constant \in Objects \cup {None} /\ vs.cd \in Seq(StepVars)
      /\ vs.ncd \subseteq StepVars /\ vs.type \in Types
      /\ ToSet(vs.cd) \subseteq StepVars
  BY VarsetFields DEF Varset
<1>2. /\ Value(f, u) \in Objects /\ Subtype(ObjType[Value(f, u)], vs.type)
      /\ vs.constant # None => Value(f, u) = vs.constant
  BY TellsType
<1>3. CASE t \in Objects
  <2>1. Value(f, t) = t /\ AddTerm(vs, t) = AddObject(vs, t)
    BY <1>3 DEF Value, AddTerm
  <2>2. CASE vs.constant = t
    BY <2>1, <2>2, NoneApart DEF AddObject
  <2>3. CASE vs.constant # t
    <3>1. vs.constant = None /\ Subtype(ObjType[t], vs.type)
      BY <1>2, <2>1, <2>3
    <3>2. AddTerm(vs, t) = [vs EXCEPT !.constant = t, !.type = ObjType[t]]
      BY <2>1, <2>3, <3>1 DEF AddObject
    <3>3. AddTerm(vs, t) = [constant |-> t, cd |-> vs.cd, ncd |-> vs.ncd, type |-> ObjType[t]]
      BY <1>1, <3>2
    <3>4. ObjType[t] \in Types
      BY <1>3, BindingsAssumption
    <3>5. [constant |-> t, cd |-> vs.cd, ncd |-> vs.ncd, type |-> ObjType[t]] \in Varsets
      BY <1>1, <1>3, <3>4 DEF Varsets
    <3> QED BY <3>3, <3>5, NoneApart
  <2> QED BY <2>2, <2>3
<1>4. CASE t \notin Objects
  <2>1. /\ t \in StepVars /\ AddTerm(vs, t) = AddVar(vs, t) /\ Value(f, t) = f[t]
        /\ f[t] \in Objects /\ Subtype(ObjType[f[t]], VarType[t]) /\ VarType[t] \in Types
    BY <1>4, NoneApart, BindingsAssumption DEF AddTerm, Value, Assignments
  <2> DEFINE type == IF vs.constant # None
                     THEN IF Subtype(vs.type, VarType[t]) THEN vs.type ELSE None
                     ELSE MostSpecific(vs.type, VarType[t])
             cd == <<t>> \o vs.cd
  <2>2. type # None /\ type \in Types
    <3>1. CASE vs.constant # None
      <4>1. vs.type = ObjType[f[t]]
        BY <1>2, <2>1, <3>1 DEF WellTyped
      <4> QED BY <1>1, <2>1, <3>1, <4>1, NoneApart
    <3>2. CASE vs.constant = None
      BY <1>1, <1>2, <2>1, <3>2, NestedSpecific, SpecificType
    <3> QED BY <3>1, <3>2
  <2>3. t \notin vs.ncd
    <3>1. Differs(vs, f)
      BY TellsIs
    <3> QED BY <2>1, <3>1 DEF Differs
  <2>4. AddTerm(vs, t) = [vs EXCEPT !.cd = cd, !.type = type]
    BY <2>1, <2>2, <2>3 DEF AddVar
  <2>5. cd \in Seq(StepVars)
    BY <1>1, <2>1, MembersOf
  <2> HIDE DEF type, cd
  <2>6. AddTerm(vs, t) = [constant |-> vs.constant, cd |-> cd, ncd |-> vs.ncd, type |-> type]
    BY <1>1, <2>4
  <2>7. AddTerm(vs, t) \in Varsets
    BY <1>1, <2>2, <2>5, <2>6 DEF Varsets
  <2> QED BY <2>7, NoneApart
<1> QED BY <1>3, <1>4

LEMMA CombineAccepts ==
  ASSUME TypesNested, NEW f \in Assignments,
         NEW a \in Varsets, WellTyped(a), Tells(a, f), NEW u \in Terms, Holds(a, u),
         NEW b \in Varsets, WellTyped(b), Tells(b, f), NEW w \in Terms, Holds(b, w),
         Value(f, u) = Value(f, w)
  PROVE  Combine(a, b) # None
<1>1. /\ Value(f, u) \in Objects /\ Subtype(ObjType[Value(f, u)], a.type)
      /\ a.constant # None => Value(f, u) = a.constant
  BY TellsType
<1>2. /\ Subtype(ObjType[Value(f, u)], b.type)
      /\ b.constant # None => Value(f, u) = b.constant
  BY TellsType
<1>3. \A v \in {a, b} : /\ v.type \in Types /\ v.type # None /\ ToSet(v.cd) \subseteq StepVars
                        /\ v.ncd \subseteq StepVars /\ v.cd \in Seq(StepVars)
                        /\ v.constant \in Objects \cup {None}
  BY VarsetFields, NoneApart
<1>4. CombinedType(a, b) # None /\ CombinedType(a, b) \in Types
  <2>1. CASE a.constant # None
    BY <1>1, <1>2, <1>3, <2>1 DEF CombinedType, WellTyped
  <2>2. CASE a.constant = None /\ b.constant # None
    BY <1>1, <1>2, <1>3, <2>2 DEF CombinedType, WellTyped
  <2>3. CASE a.constant = None /\ b.constant = None
    <3>1. CombinedType(a, b) = MostSpecific(a.type, b.type)
      BY <2>3 DEF CombinedType
    <3> QED BY <1>1, <1>2, <1>3, <3>1, NestedSpecific, SpecificType
  <2> QED BY <2>1, <2>2, <2>3
<1>5. a.ncd \cap ToSet(b.cd) = {} /\ ToSet(a.cd) \cap b.ncd = {}
  <2>1. /\ Agrees(a, f) /\ Differs(a, f) /\ Agrees(b, f) /\ Differs(b, f)
    BY TellsIs
  <2>2. \A v \in ToSet(a.cd) : v \in Terms /\ Holds(a, v) /\ Value(f, v) = f[v]
    BY <1>3, NoneApart DEF Holds, Value
  <2>3. \A v \in ToSet(b.cd) : v \in Terms /\ Holds(b, v) /\ Value(f, v) = f[v]
    BY <1>3, NoneApart DEF Holds, Value
  <2>4. ASSUME NEW v \in a.ncd, v \in ToSet(b.cd) PROVE FALSE
    <3>1. f[v] # Value(f, u) /\ f[v] = Value(f, w)
      BY <2>1, <2>3, <2>4 DEF Agrees, Differs
    <3> QED BY <3>1
  <2>5. ASSUME NEW v \in b.ncd, v \in ToSet(a.cd) PROVE FALSE
    <3>1. f[v] # Value(f, w) /\ f[v] = Value(f, u)
      BY <2>1, <2>2, <2>5 DEF Agrees, Differs
    <3> QED BY <3>1
  <2> QED BY <2>4, <2>5
<1> DEFINE type == CombinedType(a, b)
           c == IF a.constant # None THEN a.constant ELSE b.constant
           cd == Reverse(b.cd) \o a.cd
           ncd == a.ncd \cup b.ncd
<1>6. Combine(a, b) = Varset(c, cd, ncd, type)
  BY <1>4, <1>5 DEF Combine
<1>7. cd \in Seq(StepVars)
  <2>1. \A x \in StepVars : cd \in Seq(StepVars)
    BY <1>3, MembersOf
  <2>2. CASE StepVars = {}
    <3>1. a.cd = <<>> /\ b.cd = <<>>
      BY <1>3, <2>2
    <3> QED BY <3>1 DEF Reverse
  <2> QED BY <2>1, <2>2
<1>8. c \in Objects \cup {None} /\ ncd \in SUBSET StepVars
  BY <1>3
<1> HIDE DEF type, c, cd, ncd
<1>9. Combine(a, b) \in Varsets
  BY <1>4, <1>6, <1>7, <1>8 DEF Varset, Varsets, type
<1> QED BY <1>9, NoneApart

LEMMA MakeAccepts ==
  ASSUME TypesNested, NEW f \in Assignments, NEW b \in BindingSet, f[b.var] = Value(f, b.term)
  PROVE  MakeEqual(b) # None
<1>1. b.var \in StepVars /\ b.term \in Terms
  BY DEF BindingSet
<1>2. \A v \in StepVars : /\ f[v] \in Objects /\ Subtype(ObjType[f[v]], VarType[v])
                          /\ VarType[v] \in Types /\ Value(f, v) = f[v]
  BY NoneApart, BindingsAssumption DEF Assignments, Value
<1>3. MakeEqual(b) \in Varsets
  <2>1. CASE b.term \in Objects
    <3>1. MakeEqual(b) = Varset(b.term, <<b.var>>, {}, ObjType[b.term]) /\ ObjType[b.term] \in Types
      BY <2>1, BindingsAssumption DEF MakeEqual
    <3> QED BY <1>1, <2>1, <3>1 DEF Varset, Varsets
  <2>2. CASE b.term \notin Objects
    <3> DEFINE t == MostSpecific(VarType[b.var], VarType[b.term])
    <3>1. b.term \in StepVars
      BY <1>1, <2>2, NoneApart
    <3>2. t # None /\ t \in Types
      BY <1>1, <1>2, <3>1, NestedSpecific, SpecificType
    <3>3. MakeEqual(b) = Varset(None, <<b.term, b.var>>, {}, t)
      BY <2>2, <3>2 DEF MakeEqual
    <3> HIDE DEF t
    <3> QED BY <1>1, <3>1, <3>2, <3>3 DEF Varset, Varsets
  <2> QED BY <2>1, <2>2
<1> QED BY <1>3, NoneApart

-----------------------------------------------------------------------------
(* The chain.  What it says is what its newest varsets say.                 *)

\* The terms of a newest varset have all of them that varset as their newest.
Closed(ch) ==
  \A t \in Terms, p \in 1 .. Len(ch) : IsNewest(ch, t, p) =>
    \A u \in Terms : Holds(ch[p], u) => IsNewest(ch, u, p)

Believes(ch, f) ==
  \A t \in Terms, p \in 1 .. Len(ch) : IsNewest(ch, t, p) => Tells(ch[p], f)

LEMMA ToldIs ==
  ASSUME NEW ch \in Seq(Varsets)
  PROVE  Told(ch) = {f \in Assignments : Believes(ch, f)}
<1> DEFINE newest == {Scan(ch, t, Len(ch)) : t \in Terms} \ {None}
<1>1. Len(ch) \in 0 .. Len(ch)
  OBVIOUS
<1>2. ASSUME NEW t \in Terms, NEW p \in 1 .. Len(ch), IsNewest(ch, t, p)
      PROVE  At(ch, p) \in newest /\ At(ch, p).set = ch[p]
  <2>1. Scan(ch, t, Len(ch)) = At(ch, p)
    BY <1>1, <1>2, ScanFinds
  <2>2. At(ch, p) \in [pos : Nat, set : Varsets]
    BY DEF At
  <2> QED BY <2>1, <2>2, NoneAssumption DEF At
<1>3. ASSUME NEW n \in newest
      PROVE  \E t \in Terms, p \in 1 .. Len(ch) : IsNewest(ch, t, p) /\ n.set = ch[p]
  <2>1. PICK t \in Terms : n = Scan(ch, t, Len(ch)) /\ n # None
    OBVIOUS
  <2>2. PICK p \in 1 .. Len(ch) : IsNewest(ch, t, p) /\ n = At(ch, p)
    BY <1>1, <2>1, ScanFinds
  <2> QED BY <2>2 DEF At
<1>4. Told(ch) = {f \in Assignments : \A n \in newest : Tells(n.set, f)}
  BY DEF Told
<1> HIDE DEF newest
<1>5. ASSUME NEW f \in Assignments
      PROVE  (\A n \in newest : Tells(n.set, f)) <=> Believes(ch, f)
  BY <1>2, <1>3 DEF Believes
<1> QED BY <1>4, <1>5

\* A varset that is pushed shadows the older ones that hold a term of it.
LEMMA PushNewest ==
  ASSUME NEW ch \in Seq(Varsets), NEW s \in Varsets
  PROVE  /\ <<s>> \o ch \in Seq(Varsets) /\ Len(<<s>> \o ch) = Len(ch) + 1
         /\ (<<s>> \o ch)[1] = s /\ \A p \in 1 .. Len(ch) : (<<s>> \o ch)[p + 1] = ch[p]
         /\ \A t \in Terms, p \in 1 .. Len(ch) + 1 :
              IsNewest(<<s>> \o ch, t, p) <=>
                \/ p = 1 /\ Holds(s, t)
                \/ p > 1 /\ ~ Holds(s, t) /\ IsNewest(ch, t, p - 1)
<1> DEFINE new == <<s>> \o ch
<1>1. /\ new \in Seq(Varsets) /\ Len(new) = Len(ch) + 1 /\ Len(ch) \in Nat
      /\ new[1] = s /\ \A p \in 1 .. Len(ch) : new[p + 1] = ch[p]
  OBVIOUS
<1> HIDE DEF new
<1>2. ASSUME NEW t \in Terms, NEW p \in 1 .. Len(ch) + 1, p > 1
      PROVE  IsNewest(new, t, p) <=> ~ Holds(s, t) /\ IsNewest(ch, t, p - 1)
  <2>1. p - 1 \in 1 .. Len(ch) /\ new[p] = ch[p - 1] /\ p \in 1 .. Len(new)
    <3>1. p - 1 \in 1 .. Len(ch) /\ (p - 1) + 1 = p
      BY <1>1, <1>2
    <3> QED BY <1>1, <3>1
  <2>2. (\A q \in 1 .. p - 1 : ~ Holds(new[q], t)) <=>
          ~ Holds(s, t) /\ \A q \in 1 .. (p - 1) - 1 : ~ Holds(ch[q], t)
    <3>1. 1 \in 1 .. p - 1 /\ \A q \in 1 .. (p - 1) - 1 : q + 1 \in 1 .. p - 1 /\ q \in 1 .. Len(ch)
      BY <1>1, <1>2
    <3>2. \A q \in 1 .. p - 1 : q = 1 \/ (q - 1 \in 1 .. (p - 1) - 1 /\ (q - 1) + 1 = q
                                          /\ q - 1 \in 1 .. Len(ch))
      BY <1>1, <1>2
    <3>3. \A q \in 1 .. (p - 1) - 1 : new[q + 1] = ch[q]
      BY <1>1, <3>1
    <3>4. \A q \in 1 .. p - 1 : q = 1 \/ new[q] = ch[q - 1]
      BY <1>1, <3>2
    <3>5. new[1] = s
      BY <1>1
    <3> QED BY <3>1, <3>2, <3>3, <3>4, <3>5
  <2> QED BY <2>1, <2>2 DEF IsNewest
<1>3. ASSUME NEW t \in Terms PROVE IsNewest(new, t, 1) <=> Holds(s, t)
  BY <1>1 DEF IsNewest
<1>4. \A p \in 1 .. Len(ch) + 1 : p = 1 \/ p > 1
  BY <1>1
<1> QED BY <1>1, <1>2, <1>3, <1>4 DEF new

\* Varset s holds some term, and keeps all that the newest varsets of its
\* terms say.
Absorbs(s, ch) ==
  /\ s \in Varsets /\ WellTyped(s) /\ \E t \in Terms : Holds(s, t)
  /\ \A t \in Terms, p \in 1 .. Len(ch) : Holds(s, t) /\ IsNewest(ch, t, p) =>
       ch[p].ncd \subseteq s.ncd /\ \A u \in Terms : Holds(ch[p], u) => Holds(s, u)

\* The chain goes on as new: with s, it says what it said and what s says.
GrowsBy(ch, s, new) ==
  /\ new = <<s>> \o ch /\ new \in Seq(Varsets) /\ Len(new) = Len(ch) + 1
  /\ Closed(new)
  /\ \A f \in Assignments : Believes(new, f) <=> Believes(ch, f) /\ Tells(s, f)

LEMMA PushGrows ==
  ASSUME NEW ch \in Seq(Varsets), NEW s, Closed(ch), Absorbs(s, ch)
  PROVE  GrowsBy(ch, s, <<s>> \o ch)
<1> DEFINE new == <<s>> \o ch
<1>0. s \in Varsets /\ Len(ch) \in Nat
  BY DEF Absorbs
<1>1. /\ new \in Seq(Varsets) /\ Len(new) = Len(ch) + 1
      /\ new[1] = s /\ \A p \in 1 .. Len(ch) : new[p + 1] = ch[p]
      /\ \A t \in Terms, p \in 1 .. Len(ch) + 1 :
           IsNewest(new, t, p) <=> \/ p = 1 /\ Holds(s, t)
                                   \/ p > 1 /\ ~ Holds(s, t) /\ IsNewest(ch, t, p - 1)
  BY <1>0, PushNewest
<1> HIDE DEF new
<1>2. \A p \in 1 .. Len(ch) + 1 :
        p > 1 => p - 1 \in 1 .. Len(ch) /\ (p - 1) + 1 = p /\ new[p] = ch[p - 1]
  <2>1. \A p \in 1 .. Len(ch) + 1 : p > 1 => p - 1 \in 1 .. Len(ch) /\ (p - 1) + 1 = p
    BY <1>0
  <2> QED BY <1>1, <2>1
<1>3. \A p \in 1 .. Len(ch) :
        p + 1 \in 1 .. Len(ch) + 1 /\ p + 1 > 1 /\ (p + 1) - 1 = p /\ 1 \in 1 .. Len(ch) + 1
  BY <1>0
<1>4. Closed(new)
  <2> SUFFICES ASSUME NEW t \in Terms, NEW p \in 1 .. Len(ch) + 1, IsNewest(new, t, p),
                      NEW u \in Terms, Holds(new[p], u)
               PROVE  IsNewest(new, u, p)
    BY <1>1 DEF Closed
  <2>1. CASE p = 1
    BY <1>1, <2>1
  <2>2. CASE p > 1
    <3>1. /\ p - 1 \in 1 .. Len(ch) /\ new[p] = ch[p - 1]
          /\ ~ Holds(s, t) /\ IsNewest(ch, t, p - 1)
      BY <1>1, <1>2, <2>2
    <3>2. IsNewest(ch, u, p - 1) /\ Holds(ch[p - 1], t)
      BY <3>1 DEF Closed, IsNewest
    <3>3. ~ Holds(s, u)
      BY <3>1, <3>2 DEF Absorbs
    <3> QED BY <1>1, <2>2, <3>2, <3>3
  <2> QED BY <2>1, <2>2, <1>0
<1>5. ASSUME NEW f \in Assignments, Believes(new, f) PROVE Believes(ch, f) /\ Tells(s, f)
  <2>1. Tells(s, f)
    <3>1. PICK t \in Terms : Holds(s, t)
      BY DEF Absorbs
    <3>2. 1 \in 1 .. Len(new) /\ 1 \in 1 .. Len(ch) + 1
      BY <1>0, <1>1
    <3>3. IsNewest(new, t, 1)
      BY <1>1, <3>1, <3>2
    <3> QED BY <1>1, <1>5, <3>2, <3>3 DEF Believes
  <2>2. ASSUME NEW t \in Terms, NEW p \in 1 .. Len(ch), IsNewest(ch, t, p)
        PROVE  Tells(ch[p], f)
    <3>1. CASE Holds(s, t)
      <4>1. ch[p] \in Varsets /\ ch[p].ncd \subseteq s.ncd
            /\ \A u \in Terms : Holds(ch[p], u) => Holds(s, u)
        BY <2>2, <3>1 DEF Absorbs
      <4>2. Agrees(s, f) /\ Differs(s, f)
        BY <1>0, <2>1, TellsIs
      <4>3. Agrees(ch[p], f) /\ Differs(ch[p], f)
        BY <4>1, <4>2 DEF Agrees, Differs
      <4> QED BY <4>1, <4>3, TellsIs
    <3>2. CASE ~ Holds(s, t)
      <4>1. p + 1 \in 1 .. Len(ch) + 1 /\ p + 1 > 1 /\ (p + 1) - 1 = p
        BY <1>3
      <4>2. IsNewest(new, t, p + 1) /\ p + 1 \in 1 .. Len(new) /\ new[p + 1] = ch[p]
        BY <1>1, <2>2, <3>2, <4>1
      <4> QED BY <1>5, <4>2 DEF Believes
    <3> QED BY <3>1, <3>2
  <2> QED BY <2>1, <2>2 DEF Believes
<1>6. ASSUME NEW f \in Assignments, Believes(ch, f), Tells(s, f) PROVE Believes(new, f)
  <2> SUFFICES ASSUME NEW t \in Terms, NEW p \in 1 .. Len(ch) + 1, IsNewest(new, t, p)
               PROVE  Tells(new[p], f)
    BY <1>1 DEF Believes
  <2>1. CASE p = 1
    BY <1>1, <1>6, <2>1
  <2>2. CASE p > 1
    <3>1. p - 1 \in 1 .. Len(ch) /\ new[p] = ch[p - 1] /\ IsNewest(ch, t, p - 1)
      BY <1>1, <1>2, <2>2
    <3> QED BY <1>6, <3>1 DEF Believes
  <2> QED BY <2>1, <2>2, <1>0
<1> QED BY <1>1, <1>4, <1>5, <1>6 DEF GrowsBy, new

-----------------------------------------------------------------------------
(* One binding.  A lookup gives the class of a term: what is known of it,   *)
(* or the term alone.                                                       *)

Finds(ch, x, vs) ==
  \/ vs = None /\ \A p \in 1 .. Len(ch) : ~ Holds(ch[p], x)
  \/ vs # None /\ \E p \in 1 .. Len(ch) : IsNewest(ch, x, p) /\ vs = At(ch, p)

InClass(vs, x, u) == IF vs = None THEN u = x ELSE Holds(vs.set, u)
Separated(vs) == IF vs = None THEN {} ELSE vs.set.ncd

\* The class of a term agrees on one value, which no variable separated from
\* it has.
LEMMA ClassAgrees ==
  ASSUME NEW ch \in Seq(Varsets), Closed(ch), NEW x \in Terms, NEW vs, Finds(ch, x, vs)
  PROVE  /\ InClass(vs, x, x)
         /\ Separated(vs) \subseteq StepVars
         /\ \A t \in Terms, p \in 1 .. Len(ch) : InClass(vs, x, t) /\ IsNewest(ch, t, p) =>
              /\ ch[p].ncd \subseteq Separated(vs)
              /\ \A u \in Terms : Holds(ch[p], u) => InClass(vs, x, u)
         /\ \A f \in Assignments : Believes(ch, f) =>
              /\ \A u \in Terms : InClass(vs, x, u) => Value(f, u) = Value(f, x)
              /\ \A v \in Separated(vs) : f[v] # Value(f, x)
<1>1. CASE vs = None
  <2>1. \A p \in 1 .. Len(ch) : ~ Holds(ch[p], x)
    BY <1>1 DEF Finds
  <2> QED BY <1>1, <2>1 DEF InClass, Separated, IsNewest
<1>2. CASE vs # None
  <2>1. PICK p \in 1 .. Len(ch) : IsNewest(ch, x, p) /\ vs = At(ch, p)
    BY <1>2 DEF Finds
  <2>2. ch[p] \in Varsets /\ vs.set = ch[p] /\ Holds(ch[p], x)
    BY <2>1 DEF At, IsNewest
  <2>3. ASSUME NEW t \in Terms, NEW q \in 1 .. Len(ch), Holds(ch[p], t), IsNewest(ch, t, q)
        PROVE  q = p
    <3>1. IsNewest(ch, t, p)
      BY <2>1, <2>3 DEF Closed
    <3> QED BY <2>3, <3>1, NewestUnique
  <2>4. ASSUME NEW f \in Assignments, Believes(ch, f)
        PROVE  Agrees(ch[p], f) /\ Differs(ch[p], f)
    <3>1. Tells(ch[p], f)
      BY <2>1, <2>4 DEF Believes
    <3> QED BY <2>2, <3>1, TellsIs
  <2>5. \A u : InClass(vs, x, u) <=> Holds(ch[p], u)
    BY <1>2, <2>2 DEF InClass
  <2>6. Separated(vs) = ch[p].ncd /\ ch[p].ncd \subseteq StepVars
    BY <1>2, <2>2, VarsetFields DEF Separated
  <2>7. ASSUME NEW f \in Assignments, Believes(ch, f)
        PROVE  /\ \A u \in Terms : InClass(vs, x, u) => Value(f, u) = Value(f, x)
               /\ \A v \in Separated(vs) : f[v] # Value(f, x)
    BY <2>2, <2>4, <2>5, <2>6, <2>7 DEF Agrees, Differs
  <2> QED BY <2>2, <2>3, <2>5, <2>6, <2>7
<1> QED BY <1>1, <1>2

\* Two classes in one: they are equal.
LEMMA MergedClass ==
  ASSUME NEW ch \in Seq(Varsets), Closed(ch), NEW x \in Terms, NEW y \in Terms,
         NEW vs1, Finds(ch, x, vs1), NEW vs2, Finds(ch, y, vs2),
         NEW s \in Varsets, WellTyped(s), s.ncd = Separated(vs1) \cup Separated(vs2),
         \A u \in Terms : Holds(s, u) <=> InClass(vs1, x, u) \/ InClass(vs2, y, u)
  PROVE  /\ Absorbs(s, ch)
         /\ \A f \in Assignments : Believes(ch, f) => (Tells(s, f) <=> Value(f, x) = Value(f, y))
<1>1. /\ InClass(vs1, x, x)
      /\ \A t \in Terms, p \in 1 .. Len(ch) : InClass(vs1, x, t) /\ IsNewest(ch, t, p) =>
           /\ ch[p].ncd \subseteq Separated(vs1)
           /\ \A u \in Terms : Holds(ch[p], u) => InClass(vs1, x, u)
      /\ \A f \in Assignments : Believes(ch, f) =>
           /\ \A u \in Terms : InClass(vs1, x, u) => Value(f, u) = Value(f, x)
           /\ \A v \in Separated(vs1) : f[v] # Value(f, x)
  BY ClassAgrees
<1>2. /\ InClass(vs2, y, y)
      /\ \A t \in Terms, p \in 1 .. Len(ch) : InClass(vs2, y, t) /\ IsNewest(ch, t, p) =>
           /\ ch[p].ncd \subseteq Separated(vs2)
           /\ \A u \in Terms : Holds(ch[p], u) => InClass(vs2, y, u)
      /\ \A f \in Assignments : Believes(ch, f) =>
           /\ \A u \in Terms : InClass(vs2, y, u) => Value(f, u) = Value(f, y)
           /\ \A v \in Separated(vs2) : f[v] # Value(f, y)
  BY ClassAgrees
<1>3. Absorbs(s, ch)
  BY <1>1, <1>2 DEF Absorbs
<1>4. ASSUME NEW f \in Assignments, Believes(ch, f)
      PROVE  Tells(s, f) <=> Value(f, x) = Value(f, y)
  <2>1. Tells(s, f) => Value(f, x) = Value(f, y)
    BY <1>1, <1>2, TellsIs DEF Agrees
  <2>2. ASSUME Value(f, x) = Value(f, y) PROVE Agrees(s, f) /\ Differs(s, f)
    <3>1. \A u \in Terms : Holds(s, u) => Value(f, u) = Value(f, x)
      BY <1>1, <1>2, <1>4, <2>2
    <3>2. \A v \in s.ncd : f[v] # Value(f, x)
      BY <1>1, <1>2, <1>4, <2>2
    <3> QED BY <3>1, <3>2 DEF Agrees, Differs
  <2> QED BY <2>1, <2>2, TellsIs
<1> QED BY <1>3, <1>4

\* A class with one more separation: its term differs from that variable.
LEMMA SeparatedClass ==
  ASSUME NEW ch \in Seq(Varsets), Closed(ch), NEW x \in Terms, NEW v \in StepVars,
         NEW vs, Finds(ch, x, vs),
         NEW s \in Varsets, WellTyped(s), s.ncd = Separated(vs) \cup {v},
         \A u \in Terms : Holds(s, u) <=> InClass(vs, x, u)
  PROVE  /\ Absorbs(s, ch)
         /\ \A f \in Assignments : Believes(ch, f) => (Tells(s, f) <=> f[v] # Value(f, x))
<1>1. /\ InClass(vs, x, x)
      /\ \A t \in Terms, p \in 1 .. Len(ch) : InClass(vs, x, t) /\ IsNewest(ch, t, p) =>
           /\ ch[p].ncd \subseteq Separated(vs)
           /\ \A u \in Terms : Holds(ch[p], u) => InClass(vs, x, u)
      /\ \A f \in Assignments : Believes(ch, f) =>
           /\ \A u \in Terms : InClass(vs, x, u) => Value(f, u) = Value(f, x)
           /\ \A w \in Separated(vs) : f[w] # Value(f, x)
  BY ClassAgrees
<1>2. Absorbs(s, ch)
  BY <1>1 DEF Absorbs
<1>3. ASSUME NEW f \in Assignments, Believes(ch, f)
      PROVE  Tells(s, f) <=> f[v] # Value(f, x)
  <2>1. Agrees(s, f)
    BY <1>1, <1>3 DEF Agrees
  <2>2. Differs(s, f) <=> f[v] # Value(f, x)
    BY <1>1, <1>3 DEF Differs
  <2> QED BY <2>1, <2>2, TellsIs
<1> QED BY <1>2, <1>3

LEMMA SatisfiesIs ==
  ASSUME NEW b \in BindingSet, NEW f \in Assignments
  PROVE  /\ b.eq = TRUE => (Satisfies(f, b) <=> f[b.var] = Value(f, b.term))
         /\ b.eq = FALSE => (Satisfies(f, b) <=> f[b.var] # Value(f, b.term))
         /\ b.eq \in BOOLEAN /\ b.var \in StepVars /\ b.term \in Terms
         /\ b.var \in Terms /\ Value(f, b.var) = f[b.var]
         /\ b.term \in StepVars => Value(f, b.term) = f[b.term]
  BY NoneApart DEF Satisfies, BindingSet, Value

\* acc carries the chain base behind delta new varsets.
Accumulates(base, acc) ==
  /\ acc = [chain |-> acc.chain, delta |-> acc.delta, ok |-> acc.ok]
  /\ acc.chain \in Seq(Varsets) /\ acc.delta \in Nat /\ Closed(acc.chain) /\ Typed(acc.chain)
  /\ Len(acc.chain) = Len(base) + acc.delta
  /\ \A p \in 1 .. Len(base) : acc.chain[p + acc.delta] = base[p]

\* The terms that occur in a chain.
Held(ch) == {t \in Terms : \E p \in 1 .. Len(ch) : Holds(ch[p], t)}

LEMMA PushStep ==
  ASSUME NEW base \in Seq(Varsets), NEW acc, Accumulates(base, acc),
         NEW s, Absorbs(s, acc.chain)
  PROVE  /\ Accumulates(base, Push(acc, s)) /\ Push(acc, s).ok = acc.ok
         /\ GrowsBy(acc.chain, s, Push(acc, s).chain)
         /\ Held(Push(acc, s).chain) \subseteq Held(acc.chain) \cup {t \in Terms : Holds(s, t)}
<1> DEFINE r == Push(acc, s)
           ch == acc.chain
           new == <<s>> \o ch
<1>1. /\ s \in Varsets /\ s # None /\ ch \in Seq(Varsets) /\ acc.delta \in Nat
      /\ Len(ch) \in Nat /\ Len(base) \in Nat /\ Len(ch) = Len(base) + acc.delta
      /\ Closed(ch) /\ Typed(ch) /\ WellTyped(s)
  BY NoneApart DEF Absorbs, Accumulates
<1>2. r = [chain |-> new, delta |-> acc.delta + 1, ok |-> acc.ok]
  BY <1>1 DEF Push, Accumulates
<1>3. GrowsBy(ch, s, new)
  BY <1>1, PushGrows
<1>4. /\ new \in Seq(Varsets) /\ Len(new) = Len(ch) + 1
      /\ new[1] = s /\ \A p \in 1 .. Len(ch) : new[p + 1] = ch[p]
  BY <1>1, PushNewest
<1>5. Closed(new)
  BY <1>3 DEF GrowsBy
<1> HIDE DEF new, r
<1>6. ASSUME NEW p \in 1 .. Len(base) PROVE new[p + (acc.delta + 1)] = base[p]
  <2>1. p + acc.delta \in 1 .. Len(ch) /\ p + (acc.delta + 1) = (p + acc.delta) + 1
    BY <1>1
  <2>2. ch[p + acc.delta] = base[p]
    BY DEF Accumulates
  <2>3. new[(p + acc.delta) + 1] = ch[p + acc.delta]
    BY <1>4, <2>1
  <2> QED BY <2>1, <2>2, <2>3
<1>7. r.chain = new /\ r.delta = acc.delta + 1 /\ r.ok = acc.ok
  BY <1>2
<1>8. Accumulates(base, r)
  <2>1. Len(new) = Len(base) + (acc.delta + 1) /\ acc.delta + 1 \in Nat
    BY <1>1, <1>4
  <2>2. \A p \in 1 .. Len(new) : p = 1 \/ (p - 1 \in 1 .. Len(ch) /\ (p - 1) + 1 = p)
    BY <1>1, <1>4
  <2>3. Typed(new)
    BY <1>1, <1>4, <2>2 DEF Typed
  <2> QED BY <1>2, <1>4, <1>5, <1>6, <1>7, <2>1, <2>3 DEF Accumulates
<1>9. Held(new) \subseteq Held(ch) \cup {t \in Terms : Holds(s, t)}
  <2> SUFFICES ASSUME NEW t \in Terms, NEW p \in 1 .. Len(new), Holds(new[p], t)
               PROVE  Holds(s, t) \/ \E q \in 1 .. Len(ch) : Holds(ch[q], t)
    BY DEF Held
  <2>1. p = 1 \/ (p - 1 \in 1 .. Len(ch) /\ (p - 1) + 1 = p)
    BY <1>1, <1>4
  <2> QED BY <1>4, <2>1
<1> QED BY <1>3, <1>7, <1>8, <1>9 DEF r

\* After r, the chain says what it said and binding b.
Records(base, acc, b, r) ==
  /\ Accumulates(base, r)
  /\ \A f \in Assignments : Believes(r.chain, f) <=> Believes(acc.chain, f) /\ Satisfies(f, b)
  /\ Held(r.chain) \subseteq Held(acc.chain) \cup {b.var, b.term}

LEMMA FoundClass ==
  ASSUME NEW ch \in Seq(Varsets), Typed(ch), NEW x \in Terms,
         NEW vs, Finds(ch, x, vs), vs # None
  PROVE  /\ vs.set \in Varsets /\ WellTyped(vs.set)
         /\ \A u \in Terms : Holds(vs.set, u) => u \in Held(ch)
  BY DEF Finds, IsNewest, At, Held, Typed

LEMMA EquateRecords ==
  ASSUME NEW base \in Seq(Varsets), NEW acc, Accumulates(base, acc), acc.ok = TRUE,
         NEW b \in BindingSet, b.eq = TRUE,
         NEW vs1, Finds(acc.chain, b.var, vs1), NEW vs2, Finds(acc.chain, b.term, vs2),
         Equate(acc, b, vs1, vs2).ok = TRUE
  PROVE  Records(base, acc, b, Equate(acc, b, vs1, vs2))
<1> DEFINE ch == acc.chain
           r == Equate(acc, b, vs1, vs2)
<1>1. /\ b.var \in StepVars /\ b.term \in Terms /\ b.var \in Terms /\ b.var \notin Objects
      /\ ch \in Seq(Varsets) /\ Closed(ch) /\ Typed(ch)
      /\ acc = [chain |-> acc.chain, delta |-> acc.delta, ok |-> acc.ok]
  BY NoneApart DEF BindingSet, Accumulates
<1>2. \A f \in Assignments : /\ Satisfies(f, b) <=> Value(f, b.var) = Value(f, b.term)
  BY SatisfiesIs
<1>3. CASE SameClass(vs1, vs2)
  <2>1. r = acc
    BY <1>3 DEF Equate
  <2>2. PICK p \in 1 .. Len(ch), q \in 1 .. Len(ch) :
          IsNewest(ch, b.var, p) /\ vs1 = At(ch, p) /\ IsNewest(ch, b.term, q) /\ vs2 = At(ch, q)
    BY <1>3 DEF SameClass, Finds
  <2>3. p = q
    BY <1>3, <2>2 DEF SameClass, At
  <2>4. ASSUME NEW f \in Assignments, Believes(ch, f) PROVE Satisfies(f, b)
    <3>1. Tells(ch[p], f) /\ ch[p] \in Varsets
      BY <1>1, <2>2, <2>4 DEF Believes
    <3>2. Agrees(ch[p], f)
      BY <3>1, TellsIs
    <3> QED BY <1>1, <1>2, <2>2, <2>3, <3>2 DEF Agrees, IsNewest
  <2> QED BY <2>1, <2>4 DEF Records
<1>4. CASE ~ SameClass(vs1, vs2)
  <2> DEFINE both == IF vs1 = None
                     THEN IF vs2 = None THEN MakeEqual(b) ELSE AddVar(vs2.set, b.var)
                     ELSE IF vs2 = None THEN AddTerm(vs1.set, b.term)
                          ELSE Combine(vs1.set, vs2.set)
  <2>1. r = IF both = None THEN [acc EXCEPT !.ok = FALSE] ELSE Push(acc, both)
    BY <1>4 DEF Equate
  <2>2. both # None
    <3> HIDE DEF both
    <3>1. r.ok = TRUE
      OBVIOUS
    <3>2. [acc EXCEPT !.ok = FALSE].ok = FALSE
      BY <1>1
    <3> HIDE DEF r
    <3> QED BY <2>1, <3>1, <3>2
  <2>3. /\ vs1 # None => /\ vs1.set \in Varsets /\ WellTyped(vs1.set)
                         /\ \A u \in Terms : Holds(vs1.set, u) => u \in Held(ch)
        /\ vs2 # None => /\ vs2.set \in Varsets /\ WellTyped(vs2.set)
                         /\ \A u \in Terms : Holds(vs2.set, u) => u \in Held(ch)
    BY <1>1, FoundClass
  <2>4. /\ both \in Varsets /\ WellTyped(both) /\ both.ncd = Separated(vs1) \cup Separated(vs2)
        /\ \A u \in Terms : Holds(both, u) <=> InClass(vs1, b.var, u) \/ InClass(vs2, b.term, u)
    <3>1. CASE vs1 = None /\ vs2 = None
      <4>1. MakeEqual(b) # None /\ both = MakeEqual(b)
        BY <2>2, <3>1
      <4>2. /\ MakeEqual(b) \in Varsets /\ WellTyped(MakeEqual(b)) /\ MakeEqual(b).ncd = {}
            /\ \A u \in Terms : Holds(MakeEqual(b), u) <=> u \in {b.var, b.term}
        BY <4>1, MakeHolds, MakeTyped
      <4> QED BY <3>1, <4>1, <4>2 DEF InClass, Separated
    <3>2. CASE vs1 = None /\ vs2 # None
      <4>1. both = AddTerm(vs2.set, b.var) /\ AddTerm(vs2.set, b.var) # None
        BY <1>1, <2>2, <3>2 DEF AddTerm
      <4>2. /\ AddTerm(vs2.set, b.var) \in Varsets /\ AddTerm(vs2.set, b.var).ncd = vs2.set.ncd
            /\ WellTyped(AddTerm(vs2.set, b.var))
            /\ \A u \in Terms : Holds(AddTerm(vs2.set, b.var), u) <=> Holds(vs2.set, u) \/ u = b.var
        BY <1>1, <2>3, <3>2, <4>1, AddTermHolds, AddTermTyped
      <4> HIDE DEF both
      <4> QED BY <3>2, <4>1, <4>2 DEF InClass, Separated
    <3>3. CASE vs1 # None /\ vs2 = None
      <4>1. both = AddTerm(vs1.set, b.term) /\ AddTerm(vs1.set, b.term) # None
        BY <2>2, <3>3
      <4>2. /\ AddTerm(vs1.set, b.term) \in Varsets /\ AddTerm(vs1.set, b.term).ncd = vs1.set.ncd
            /\ WellTyped(AddTerm(vs1.set, b.term))
            /\ \A u \in Terms : Holds(AddTerm(vs1.set, b.term), u) <=> Holds(vs1.set, u) \/ u = b.term
        BY <1>1, <2>3, <3>3, <4>1, AddTermHolds, AddTermTyped
      <4> HIDE DEF both
      <4> QED BY <3>3, <4>1, <4>2 DEF InClass, Separated
    <3>4. CASE vs1 # None /\ vs2 # None
      <4>1. both = Combine(vs1.set, vs2.set) /\ Combine(vs1.set, vs2.set) # None
        BY <2>2, <3>4
      <4>2. /\ Combine(vs1.set, vs2.set) \in Varsets
            /\ WellTyped(Combine(vs1.set, vs2.set))
            /\ Combine(vs1.set, vs2.set).ncd = vs1.set.ncd \cup vs2.set.ncd
            /\ \A u \in Terms : Holds(Combine(vs1.set, vs2.set), u) <=>
                                Holds(vs1.set, u) \/ Holds(vs2.set, u)
        BY <2>3, <3>4, <4>1, CombineHolds, CombineTyped
      <4> HIDE DEF both
      <4> QED BY <3>4, <4>1, <4>2 DEF InClass, Separated
    <3> QED BY <3>1, <3>2, <3>3, <3>4
  <2>5. r = Push(acc, both)
    BY <2>1, <2>2
  <2> HIDE DEF both, r
  <2>6. /\ Absorbs(both, ch)
        /\ \A f \in Assignments :
             Believes(ch, f) => (Tells(both, f) <=> Value(f, b.var) = Value(f, b.term))
    BY <1>1, <2>4, MergedClass
  <2>7. /\ Accumulates(base, r) /\ GrowsBy(ch, both, r.chain)
        /\ Held(r.chain) \subseteq Held(ch) \cup {t \in Terms : Holds(both, t)}
    BY <2>5, <2>6, PushStep
  <2>8. {t \in Terms : Holds(both, t)} \subseteq Held(ch) \cup {b.var, b.term}
    BY <2>3, <2>4 DEF InClass
  <2>9. \A f \in Assignments : Believes(r.chain, f) <=> Believes(ch, f) /\ Satisfies(f, b)
    BY <1>2, <2>6, <2>7 DEF GrowsBy
  <2> QED BY <2>7, <2>8, <2>9 DEF Records, r
<1> QED BY <1>3, <1>4

\* What is pushed for one term leaves the class of the other as it was.
LEMMA OtherClassStays ==
  ASSUME NEW ch \in Seq(Varsets), NEW s \in Varsets, NEW y \in Terms, ~ Holds(s, y),
         NEW vs, Finds(ch, y, vs)
  PROVE  \E now : /\ Finds(<<s>> \o ch, y, now)
                  /\ now = None <=> vs = None
                  /\ vs # None => now.set = vs.set
<1> DEFINE new == <<s>> \o ch
<1>1. /\ new \in Seq(Varsets) /\ Len(new) = Len(ch) + 1 /\ Len(ch) \in Nat
      /\ new[1] = s /\ \A p \in 1 .. Len(ch) : new[p + 1] = ch[p]
      /\ \A t \in Terms, p \in 1 .. Len(ch) + 1 :
           IsNewest(new, t, p) <=> \/ p = 1 /\ Holds(s, t)
                                   \/ p > 1 /\ ~ Holds(s, t) /\ IsNewest(ch, t, p - 1)
  BY PushNewest
<1> HIDE DEF new
<1>2. CASE vs = None
  <2>1. \A p \in 1 .. Len(ch) : ~ Holds(ch[p], y)
    BY <1>2 DEF Finds
  <2>2. \A p \in 1 .. Len(new) : p = 1 \/ (p - 1 \in 1 .. Len(ch) /\ (p - 1) + 1 = p)
    BY <1>1
  <2>3. \A p \in 1 .. Len(new) : ~ Holds(new[p], y)
    BY <1>1, <2>1, <2>2
  <2>4. Finds(new, y, None)
    BY <2>3 DEF Finds
  <2> QED BY <1>2, <2>4 DEF new
<1>3. CASE vs # None
  <2>1. PICK p \in 1 .. Len(ch) : IsNewest(ch, y, p) /\ vs = At(ch, p)
    BY <1>3 DEF Finds
  <2>2. /\ p + 1 \in 1 .. Len(new) /\ p + 1 > 1 /\ (p + 1) - 1 = p
        /\ p + 1 \in 1 .. Len(ch) + 1
    BY <1>1
  <2>3. IsNewest(new, y, p + 1) /\ new[p + 1] = ch[p]
    BY <1>1, <2>1, <2>2
  <2>4. At(new, p + 1) \in [pos : Nat, set : Varsets] /\ At(new, p + 1).set = vs.set
    BY <1>1, <2>1, <2>2, <2>3 DEF At
  <2>5. At(new, p + 1) # None
    BY <2>4, NoneAssumption
  <2>6. Finds(new, y, At(new, p + 1))
    BY <2>2, <2>3, <2>5 DEF Finds
  <2> QED BY <1>3, <2>4, <2>5, <2>6 DEF new
<1> QED BY <1>2, <1>3

LEMMA DistinguishRecords ==
  ASSUME NEW base \in Seq(Varsets), NEW acc, Accumulates(base, acc), acc.ok = TRUE,
         NEW b \in BindingSet, b.var # b.term, b.eq = FALSE,
         NEW vs1, Finds(acc.chain, b.var, vs1), NEW vs2, Finds(acc.chain, b.term, vs2),
         Distinguish(acc, b, vs1, vs2).ok = TRUE
  PROVE  Records(base, acc, b, Distinguish(acc, b, vs1, vs2))
<1> DEFINE ch == acc.chain
           r == Distinguish(acc, b, vs1, vs2)
           first  == IF vs1 = None THEN MakeForward(b)
                     ELSE IF b.term \in Objects THEN None ELSE Separate(vs1.set, b.term)
           second == IF vs2 = None THEN MakeReverse(b) ELSE Separate(vs2.set, b.var)
           mid == Push(acc, first)
<1>1. /\ b.var \in StepVars /\ b.term \in Terms /\ b.var \in Terms /\ b.var \notin Objects
      /\ b.term \notin Objects => b.term \in StepVars
      /\ ch \in Seq(Varsets) /\ Closed(ch) /\ Typed(ch)
      /\ acc = [chain |-> acc.chain, delta |-> acc.delta, ok |-> acc.ok]
  BY NoneApart DEF BindingSet, Accumulates
<1>2. \A f \in Assignments : /\ Satisfies(f, b) <=> f[b.var] # Value(f, b.term)
                             /\ Value(f, b.var) = f[b.var]
                             /\ b.term \in StepVars => Value(f, b.term) = f[b.term]
  BY SatisfiesIs
<1>3. ~ SameClass(vs1, vs2) /\ r = Push(mid, second)
  <2>1. CASE SameClass(vs1, vs2)
    <3>1. r.ok = FALSE
      BY <1>1, <2>1 DEF Distinguish
    <3> QED BY <3>1
  <2>2. CASE ~ SameClass(vs1, vs2)
    BY <2>2 DEF Distinguish
  <2> QED BY <2>1, <2>2
<1>4. /\ vs1 # None => /\ vs1.set \in Varsets /\ WellTyped(vs1.set)
                       /\ \A u \in Terms : Holds(vs1.set, u) => u \in Held(ch)
      /\ vs2 # None => /\ vs2.set \in Varsets /\ WellTyped(vs2.set)
                       /\ \A u \in Terms : Holds(vs2.set, u) => u \in Held(ch)
  BY <1>1, FoundClass
<1>5. ~ InClass(vs1, b.var, b.term)
  <2>1. CASE vs1 = None
    BY <2>1 DEF InClass
  <2>2. CASE vs1 # None /\ InClass(vs1, b.var, b.term)
    <3>1. PICK p \in 1 .. Len(ch) : IsNewest(ch, b.var, p) /\ vs1 = At(ch, p)
      BY <2>2 DEF Finds
    <3>2. IsNewest(ch, b.term, p)
      BY <1>1, <2>2, <3>1 DEF Closed, InClass, At
    <3>3. Holds(ch[p], b.term)
      BY <3>2 DEF IsNewest
    <3>4. PICK q \in 1 .. Len(ch) : IsNewest(ch, b.term, q) /\ vs2 = At(ch, q) /\ vs2 # None
      BY <3>3 DEF Finds
    <3>5. p = q
      BY <1>1, <3>2, <3>4, NewestUnique
    <3> QED BY <1>3, <2>2, <3>1, <3>4, <3>5 DEF SameClass
  <2> QED BY <2>1, <2>2
<1> HIDE DEF r, mid, first, second
<1>6. /\ Accumulates(base, mid) /\ mid.ok = TRUE
      /\ \A f \in Assignments : Believes(mid.chain, f) => Believes(ch, f)
      /\ \A f \in Assignments :
           Believes(ch, f) /\ f[b.var] # Value(f, b.term) => Believes(mid.chain, f)
      /\ Held(mid.chain) \subseteq Held(ch) \cup {b.var, b.term}
      /\ \E now : /\ Finds(mid.chain, b.term, now)
                  /\ now = None <=> vs2 = None
                  /\ vs2 # None => now.set = vs2.set
  <2>1. CASE first = None
    <3>1. mid = acc
      BY <2>1 DEF Push, mid
    <3> QED BY <3>1
  <2>2. CASE first # None
    <3>1. /\ b.term \in StepVars /\ first \in Varsets /\ WellTyped(first)
          /\ first.ncd = Separated(vs1) \cup {b.term}
          /\ \A u \in Terms : Holds(first, u) <=> InClass(vs1, b.var, u)
      <4>1. CASE vs1 = None
        <5>1. first = MakeForward(b) /\ b.term \in StepVars
          BY <1>1, <2>2, <4>1 DEF first, MakeForward
        <5>2. /\ MakeForward(b) \in Varsets /\ WellTyped(MakeForward(b))
              /\ MakeForward(b).ncd = {b.term}
              /\ \A u \in Terms : Holds(MakeForward(b), u) <=> u = b.var
          BY <5>1, MakeHolds, MakeTyped
        <5> QED BY <4>1, <5>1, <5>2 DEF InClass, Separated
      <4>2. CASE vs1 # None
        <5>1. first = Separate(vs1.set, b.term) /\ b.term \in StepVars
          BY <1>1, <2>2, <4>2 DEF first
        <5>2. /\ Separate(vs1.set, b.term) \in Varsets /\ WellTyped(Separate(vs1.set, b.term))
              /\ Separate(vs1.set, b.term).ncd = vs1.set.ncd \cup {b.term}
              /\ \A u \in Terms : Holds(Separate(vs1.set, b.term), u) <=> Holds(vs1.set, u)
          BY <1>4, <2>2, <4>2, <5>1, SeparateHolds, SeparateTyped
        <5> QED BY <4>2, <5>1, <5>2 DEF InClass, Separated
      <4> QED BY <4>1, <4>2
    <3>2. /\ Absorbs(first, ch)
          /\ \A f \in Assignments :
               Believes(ch, f) => (Tells(first, f) <=> f[b.term] # Value(f, b.var))
      BY <1>1, <3>1, SeparatedClass
    <3>3. mid = Push(acc, first)
      BY DEF mid
    <3>4. /\ Accumulates(base, mid) /\ mid.ok = acc.ok /\ GrowsBy(ch, first, mid.chain)
          /\ Held(mid.chain) \subseteq Held(ch) \cup {t \in Terms : Holds(first, t)}
      BY <3>2, <3>3, PushStep
    <3>5. {t \in Terms : Holds(first, t)} \subseteq Held(ch) \cup {b.var, b.term}
      BY <1>4, <3>1 DEF InClass
    <3>6. /\ mid.chain = <<first>> \o ch
          /\ \A f \in Assignments : Believes(mid.chain, f) <=> Believes(ch, f) /\ Tells(first, f)
      BY <3>4 DEF GrowsBy
    <3>7. ~ Holds(first, b.term)
      BY <1>1, <1>5, <3>1
    <3>8. \E now : /\ Finds(mid.chain, b.term, now)
                   /\ now = None <=> vs2 = None
                   /\ vs2 # None => now.set = vs2.set
      <4>1. \E now : /\ Finds(<<first>> \o ch, b.term, now)
                     /\ now = None <=> vs2 = None
                     /\ vs2 # None => now.set = vs2.set
        BY <1>1, <3>1, <3>7, OtherClassStays
      <4> QED BY <3>6, <4>1
    <3>9. \A f \in Assignments :
            Believes(ch, f) /\ f[b.var] # Value(f, b.term) => Believes(mid.chain, f)
      BY <1>2, <3>1, <3>2, <3>6
    <3> QED BY <3>4, <3>5, <3>6, <3>8, <3>9
  <2> QED BY <2>1, <2>2
<1>7. PICK now : /\ Finds(mid.chain, b.term, now)
                 /\ now = None <=> vs2 = None
                 /\ vs2 # None => now.set = vs2.set
  BY <1>6
<1>8. mid.chain \in Seq(Varsets) /\ Closed(mid.chain)
  BY <1>6 DEF Accumulates
<1>9. \A u : InClass(now, b.term, u) <=> InClass(vs2, b.term, u)
  BY <1>7 DEF InClass
<1>10. Separated(now) = Separated(vs2)
  BY <1>7 DEF Separated
<1>11. CASE second = None
  <2>1. r = mid
    BY <1>3, <1>11 DEF Push
  <2>2. b.var \in Separated(now)
    <3>1. vs2 # None
      BY <1>11, MakeHolds, NoneApart DEF second
    <3>2. Separate(vs2.set, b.var) = None
      BY <1>11, <3>1 DEF second
    <3> QED BY <1>1, <1>4, <1>10, <3>1, <3>2, SeparateHolds DEF Separated
  <2>3. \A f \in Assignments : Believes(mid.chain, f) => f[b.var] # Value(f, b.term)
    BY <1>1, <1>7, <1>8, <2>2, ClassAgrees
  <2>4. \A f \in Assignments : Believes(r.chain, f) <=> Believes(ch, f) /\ Satisfies(f, b)
    BY <1>2, <1>6, <2>1, <2>3
  <2> QED BY <1>6, <2>1, <2>4 DEF Records, r
<1>12. CASE second # None
  <2>1. /\ second \in Varsets /\ WellTyped(second) /\ second.ncd = Separated(now) \cup {b.var}
        /\ \A u \in Terms : Holds(second, u) <=> InClass(now, b.term, u)
    <3>1. CASE vs2 = None
      <4>1. second = MakeReverse(b)
        BY <3>1 DEF second
      <4>2. /\ MakeReverse(b) \in Varsets /\ WellTyped(MakeReverse(b))
            /\ MakeReverse(b).ncd = {b.var}
            /\ \A u \in Terms : Holds(MakeReverse(b), u) <=> u = b.term
        BY MakeHolds, MakeTyped
      <4> QED BY <1>7, <3>1, <4>1, <4>2 DEF InClass, Separated
    <3>2. CASE vs2 # None
      <4>1. second = Separate(vs2.set, b.var)
        BY <3>2 DEF second
      <4>2. /\ Separate(vs2.set, b.var) \in Varsets /\ WellTyped(Separate(vs2.set, b.var))
            /\ Separate(vs2.set, b.var).ncd = vs2.set.ncd \cup {b.var}
            /\ \A u \in Terms : Holds(Separate(vs2.set, b.var), u) <=> Holds(vs2.set, u)
        BY <1>1, <1>4, <1>12, <3>2, <4>1, SeparateHolds, SeparateTyped
      <4> QED BY <1>7, <3>2, <4>1, <4>2 DEF InClass, Separated
    <3> QED BY <3>1, <3>2
  <2>2. /\ Absorbs(second, mid.chain)
        /\ \A f \in Assignments :
             Believes(mid.chain, f) => (Tells(second, f) <=> f[b.var] # Value(f, b.term))
    BY <1>1, <1>7, <1>8, <2>1, SeparatedClass
  <2>3. /\ Accumulates(base, r) /\ GrowsBy(mid.chain, second, r.chain)
        /\ Held(r.chain) \subseteq Held(mid.chain) \cup {t \in Terms : Holds(second, t)}
    BY <1>3, <1>6, <2>2, PushStep
  <2>4. {t \in Terms : Holds(second, t)} \subseteq Held(ch) \cup {b.var, b.term}
    BY <1>4, <1>9, <2>1 DEF InClass
  <2>5. \A f \in Assignments : Believes(r.chain, f) <=> Believes(ch, f) /\ Satisfies(f, b)
    BY <1>2, <1>6, <2>2, <2>3 DEF GrowsBy
  <2> QED BY <1>6, <2>3, <2>4, <2>5 DEF Records, r
<1> QED BY <1>11, <1>12

-----------------------------------------------------------------------------
(* The collection.                                                          *)

\* A collection whose table covers its chain, and whose high step is no less
\* than the step of any variable that its chain holds.
Collection(c) ==
  /\ c = [chain |-> c.chain, high |-> c.high, index |-> c.index]
  /\ c.chain \in Seq(Varsets) /\ c.high \in Nat
  /\ c.index = None \/ Covers(c.index, c.chain)
  /\ Closed(c.chain) /\ Typed(c.chain)
  /\ \A v \in StepVars : v \in Held(c.chain) => StepOf[v] <= c.high

LEMMA IndexStateCovers ==
  ASSUME NEW c, Collection(c)
  PROVE  IndexState(c) = None \/ Covers(IndexState(c), c.chain)
  BY BuiltCovers DEF Collection, IndexState

LEMMA KnownFinds ==
  ASSUME NEW c, Collection(c), NEW t \in Terms
  PROVE  Finds(c.chain, t, Known(c, t))
<1>1. c.chain \in Seq(Varsets) /\ c.high \in Nat /\ Len(c.chain) \in 0 .. Len(c.chain)
  BY DEF Collection
<1>2. CASE t \in StepVars /\ StepOf[t] > c.high
  <2>1. StepOf[t] \in Nat
    BY <1>2, BindingsAssumption
  <2>2. t \notin Held(c.chain)
    BY <1>1, <1>2, <2>1 DEF Collection
  <2>3. Known(c, t) = None
    BY <1>2 DEF Known
  <2> QED BY <2>2, <2>3 DEF Finds, Held
<1>3. CASE ~ (t \in StepVars /\ StepOf[t] > c.high)
  <2>1. Lookup(c, t) = Scan(c.chain, t, Len(c.chain))
    BY <1>1, IndexStateCovers, LookupScans DEF Lookup
  <2>2. Known(c, t) = Scan(c.chain, t, Len(c.chain))
    BY <1>3, <2>1 DEF Known
  <2> QED BY <1>1, <2>2, ScanFinds DEF Finds
<1> QED BY <1>2, <1>3

LEMMA ResolveFinds ==
  ASSUME NEW c, Collection(c), NEW acc, Accumulates(c.chain, acc), NEW t \in Terms
  PROVE  Finds(acc.chain, t, Resolve(c, acc, t))
<1> DEFINE base == c.chain
           ch == acc.chain
           d == acc.delta
           recent == Scan(ch, t, d)
           known == Known(c, t)
<1>1. /\ base \in Seq(Varsets) /\ ch \in Seq(Varsets) /\ d \in Nat /\ Len(base) \in Nat
      /\ Len(ch) = Len(base) + d /\ \A p \in 1 .. Len(base) : ch[p + d] = base[p]
  BY DEF Collection, Accumulates
<1>2. Resolve(c, acc, t) = IF recent # None THEN recent ELSE Shift(known, d)
  BY DEF Resolve
<1>3. d \in 0 .. Len(ch)
  BY <1>1
<1>4. Finds(base, t, known)
  BY KnownFinds
<1>5. \/ recent = None /\ \A p \in 1 .. d : ~ Holds(ch[p], t)
      \/ recent # None /\ \E p \in 1 .. d : IsNewest(ch, t, p) /\ recent = At(ch, p)
  BY <1>1, <1>3, ScanFinds
<1> HIDE DEF recent, known, base, ch, d
<1>6. CASE recent # None
  <2>1. PICK p \in 1 .. d : IsNewest(ch, t, p) /\ recent = At(ch, p)
    BY <1>5, <1>6
  <2>2. p \in 1 .. Len(ch)
    BY <1>1
  <2> QED BY <1>2, <1>6, <2>1, <2>2 DEF Finds, ch
<1>7. CASE recent = None
  <2>1. \A p \in 1 .. d : ~ Holds(ch[p], t)
    BY <1>5, <1>7
  <2>2. CASE known = None
    <3>1. \A p \in 1 .. Len(base) : ~ Holds(base[p], t)
      BY <1>4, <2>2 DEF Finds
    <3>2. \A p \in 1 .. Len(ch) : p \in 1 .. d \/ (p - d \in 1 .. Len(base) /\ (p - d) + d = p)
      BY <1>1
    <3>3. \A p \in 1 .. Len(ch) : ~ Holds(ch[p], t)
      BY <1>1, <2>1, <3>1, <3>2
    <3>4. Resolve(c, acc, t) = None
      BY <1>2, <1>7, <2>2 DEF Shift
    <3> QED BY <3>3, <3>4 DEF Finds, ch
  <2>3. CASE known # None
    <3>1. PICK p \in 1 .. Len(base) : IsNewest(base, t, p) /\ known = At(base, p)
      BY <1>4, <2>3 DEF Finds
    <3>2. p + d \in 1 .. Len(ch) /\ ch[p + d] = base[p] /\ Holds(base[p], t)
          /\ \A q \in 1 .. p - 1 : ~ Holds(base[q], t)
      BY <1>1, <3>1 DEF IsNewest
    <3>3. \A q \in 1 .. (p + d) - 1 :
            q \in 1 .. d \/ (q - d \in 1 .. p - 1 /\ (q - d) + d = q /\ q - d \in 1 .. Len(base))
      BY <1>1, <3>1
    <3>4. \A q \in 1 .. (p + d) - 1 : ~ Holds(ch[q], t)
      BY <1>1, <2>1, <3>2, <3>3
    <3>5. IsNewest(ch, t, p + d)
      BY <3>2, <3>4 DEF IsNewest
    <3>6. Resolve(c, acc, t) = At(ch, p + d)
      BY <1>2, <1>7, <2>3, <3>1, <3>2 DEF Shift, At
    <3>7. At(ch, p + d) \in [pos : Nat, set : Varsets]
      BY <1>1, <3>1, <3>2 DEF At
    <3>8. At(ch, p + d) # None
      BY <3>7, NoneAssumption
    <3> QED BY <3>2, <3>5, <3>6, <3>8 DEF Finds, ch
  <2> QED BY <2>2, <2>3
<1> QED BY <1>6, <1>7

LEMMA ClassTells ==
  ASSUME NEW ch \in Seq(Varsets), Typed(ch), NEW x \in Terms,
         NEW vs, Finds(ch, x, vs), vs # None, NEW f \in Assignments, Believes(ch, f)
  PROVE  /\ vs.set \in Varsets /\ WellTyped(vs.set)
         /\ Tells(vs.set, f) /\ Holds(vs.set, x)
<1>1. PICK p \in 1 .. Len(ch) : IsNewest(ch, x, p) /\ vs = At(ch, p)
  BY DEF Finds
<1>2. vs.set = ch[p] /\ ch[p] \in Varsets /\ WellTyped(ch[p]) /\ Holds(ch[p], x)
  BY <1>1 DEF At, IsNewest, Typed
<1>3. Tells(ch[p], f)
  BY <1>1 DEF Believes
<1> QED BY <1>2, <1>3

\* Terms of one class are equal.
LEMMA SameClassAgrees ==
  ASSUME NEW ch \in Seq(Varsets), Typed(ch), NEW x \in StepVars, NEW y \in Terms,
         NEW vs1, Finds(ch, x, vs1), NEW vs2, Finds(ch, y, vs2), SameClass(vs1, vs2),
         NEW f \in Assignments, Believes(ch, f)
  PROVE  f[x] = Value(f, y)
<1>1. x \in Terms /\ Value(f, x) = f[x]
  BY NoneApart DEF Value
<1>2. PICK p \in 1 .. Len(ch), q \in 1 .. Len(ch) :
        IsNewest(ch, x, p) /\ vs1 = At(ch, p) /\ IsNewest(ch, y, q) /\ vs2 = At(ch, q)
  BY <1>1 DEF SameClass, Finds
<1>3. p = q
  BY <1>2 DEF SameClass, At
<1>4. Holds(ch[p], x) /\ Holds(ch[p], y) /\ ch[p] \in Varsets
  BY <1>2, <1>3 DEF IsNewest
<1>5. Tells(ch[p], f)
  BY <1>1, <1>2 DEF Believes
<1>6. Agrees(ch[p], f)
  BY <1>4, <1>5, TellsIs
<1> QED BY <1>1, <1>4, <1>6 DEF Agrees

LEMMA EquateAccepts ==
  ASSUME TypesNested, NEW base, NEW acc, Accumulates(base, acc), acc.ok = TRUE,
         NEW b \in BindingSet, NEW vs1, Finds(acc.chain, b.var, vs1),
         NEW vs2, Finds(acc.chain, b.term, vs2),
         NEW f \in Assignments, Believes(acc.chain, f), f[b.var] = Value(f, b.term)
  PROVE  Equate(acc, b, vs1, vs2).ok = TRUE
<1> DEFINE ch == acc.chain
           both == IF vs1 = None
                   THEN IF vs2 = None THEN MakeEqual(b) ELSE AddVar(vs2.set, b.var)
                   ELSE IF vs2 = None THEN AddTerm(vs1.set, b.term)
                        ELSE Combine(vs1.set, vs2.set)
           r == Equate(acc, b, vs1, vs2)
<1>1. /\ b.var \in StepVars /\ b.term \in Terms /\ b.var \in Terms /\ b.var \notin Objects
      /\ ch \in Seq(Varsets) /\ Typed(ch) /\ Value(f, b.var) = Value(f, b.term)
      /\ acc = [chain |-> acc.chain, delta |-> acc.delta, ok |-> acc.ok]
  BY NoneApart DEF BindingSet, Accumulates, Value
<1>2. /\ vs1 # None => /\ vs1.set \in Varsets /\ WellTyped(vs1.set)
                       /\ Tells(vs1.set, f) /\ Holds(vs1.set, b.var)
      /\ vs2 # None => /\ vs2.set \in Varsets /\ WellTyped(vs2.set)
                       /\ Tells(vs2.set, f) /\ Holds(vs2.set, b.term)
  BY <1>1, ClassTells
<1>3. both # None
  <2>1. CASE vs1 = None /\ vs2 = None
    BY <2>1, MakeAccepts
  <2>2. CASE vs1 = None /\ vs2 # None
    <3>1. AddTerm(vs2.set, b.var) # None
      BY <1>1, <1>2, <2>2, AddTermAccepts
    <3> QED BY <1>1, <2>2, <3>1 DEF AddTerm
  <2>3. CASE vs1 # None /\ vs2 = None
    <3>1. AddTerm(vs1.set, b.term) # None
      BY <1>1, <1>2, <2>3, AddTermAccepts
    <3> QED BY <2>3, <3>1
  <2>4. CASE vs1 # None /\ vs2 # None
    <3>1. Combine(vs1.set, vs2.set) # None
      BY <1>1, <1>2, <2>4, CombineAccepts
    <3> QED BY <2>4, <3>1
  <2> QED BY <2>1, <2>2, <2>3, <2>4
<1>4. r = IF SameClass(vs1, vs2) THEN acc
          ELSE IF both = None THEN [acc EXCEPT !.ok = FALSE] ELSE Push(acc, both)
  BY DEF Equate
<1> HIDE DEF both, r
<1>5. Push(acc, both).ok = TRUE
  BY <1>1 DEF Push
<1> QED BY <1>3, <1>4, <1>5 DEF r

\* A binding that is not refused is recorded, and one that some assignment
\* satisfies with the chain is not refused.
LEMMA AddOneRecords ==
  ASSUME NEW c, Collection(c), NEW acc, Accumulates(c.chain, acc), acc.ok = TRUE,
         NEW b \in BindingSet, b.eq \/ b.term # b.var
  PROVE  /\ AddOne(c, acc, b).ok \in BOOLEAN
         /\ AddOne(c, acc, b).ok = TRUE => Records(c.chain, acc, b, AddOne(c, acc, b))
         /\ \A f \in Assignments :
              TypesNested /\ Believes(acc.chain, f) /\ Satisfies(f, b) =>
                AddOne(c, acc, b).ok = TRUE
<1> DEFINE vs1 == Resolve(c, acc, b.var)
           vs2 == Resolve(c, acc, b.term)
           r == AddOne(c, acc, b)
<1>1. /\ c.chain \in Seq(Varsets) /\ b.eq \in BOOLEAN /\ b.var \in Terms /\ b.term \in Terms
      /\ b.var \in StepVars /\ acc.chain \in Seq(Varsets) /\ Typed(acc.chain)
      /\ acc = [chain |-> acc.chain, delta |-> acc.delta, ok |-> acc.ok]
  BY NoneApart DEF Collection, BindingSet, Accumulates
<1>2. Finds(acc.chain, b.var, vs1) /\ Finds(acc.chain, b.term, vs2)
  BY <1>1, ResolveFinds
<1>3. r = IF b.eq THEN Equate(acc, b, vs1, vs2) ELSE Distinguish(acc, b, vs1, vs2)
  BY DEF AddOne
<1> HIDE DEF vs1, vs2
<1>4. \A s, t : Push(acc, s).ok = TRUE /\ Push(Push(acc, s), t).ok = TRUE
  <2>1. \A s : /\ Push(acc, s).ok = TRUE
               /\ \E chain, delta :
                    Push(acc, s) = [chain |-> chain, delta |-> delta, ok |-> TRUE]
    BY <1>1 DEF Push
  <2> SUFFICES ASSUME NEW s, NEW t PROVE Push(Push(acc, s), t).ok = TRUE
    BY <2>1
  <2>2. PICK chain, delta : Push(acc, s) = [chain |-> chain, delta |-> delta, ok |-> TRUE]
    BY <2>1
  <2> QED BY <2>2 DEF Push
<1>5. Equate(acc, b, vs1, vs2).ok \in BOOLEAN
  BY <1>1, <1>4 DEF Equate
<1>6. Distinguish(acc, b, vs1, vs2).ok \in BOOLEAN
  <2>1. [acc EXCEPT !.ok = FALSE].ok = FALSE
    BY <1>1
  <2> QED BY <1>4, <2>1 DEF Distinguish
<1> HIDE DEF r
<1>7. CASE b.eq = TRUE
  <2>1. r = Equate(acc, b, vs1, vs2)
    BY <1>3, <1>7
  <2>2. r.ok = TRUE => Records(c.chain, acc, b, r)
    BY <1>1, <1>2, <1>7, <2>1, EquateRecords
  <2>3. ASSUME NEW f \in Assignments, TypesNested, Believes(acc.chain, f), Satisfies(f, b)
        PROVE  r.ok = TRUE
    <3>1. f[b.var] = Value(f, b.term)
      BY <1>7, <2>3, SatisfiesIs
    <3> QED BY <1>1, <1>2, <1>7, <2>1, <2>3, <3>1, EquateAccepts
  <2> QED BY <1>5, <2>1, <2>2, <2>3 DEF r
<1>8. CASE b.eq = FALSE
  <2>1. r = Distinguish(acc, b, vs1, vs2)
    BY <1>3, <1>8
  <2>2. r.ok = TRUE => Records(c.chain, acc, b, r)
    BY <1>1, <1>2, <1>8, <2>1, DistinguishRecords
  <2>3. ASSUME NEW f \in Assignments, TypesNested, Believes(acc.chain, f), Satisfies(f, b)
        PROVE  r.ok = TRUE
    <3>1. f[b.var] # Value(f, b.term)
      BY <1>8, <2>3, SatisfiesIs
    <3>2. ~ SameClass(vs1, vs2)
      <4> SUFFICES ASSUME SameClass(vs1, vs2) PROVE FALSE
        OBVIOUS
      <4>1. f[b.var] = Value(f, b.term)
        BY <1>1, <1>2, <2>3, SameClassAgrees
      <4> QED BY <3>1, <4>1
    <3> DEFINE first  == IF vs1 = None THEN MakeForward(b)
                         ELSE IF b.term \in Objects THEN None ELSE Separate(vs1.set, b.term)
               second == IF vs2 = None THEN MakeReverse(b) ELSE Separate(vs2.set, b.var)
    <3>3. r = Push(Push(acc, first), second)
      BY <2>1, <3>2 DEF Distinguish
    <3> HIDE DEF first, second
    <3> QED BY <1>4, <3>3
  <2> QED BY <1>6, <2>1, <2>2, <2>3 DEF r
<1> QED BY <1>1, <1>7, <1>8

-----------------------------------------------------------------------------
(* The bindings of a refinement, one after the other.                       *)

\* f is the loop of try_add over the first m bindings.
Start(c) == [chain |-> c.chain, delta |-> 0, ok |-> TRUE]

Tries(c, bs, f, m) ==
  f = [k \in 0 .. m |-> IF k = 0 THEN Start(c) ELSE AddOne(c, f[k - 1], bs[k])]

LEMMA TriesExist ==
  ASSUME NEW c, NEW bs, NEW n \in Nat
  PROVE  \E f : Tries(c, bs, f, n)
<1> DEFINE T == {m \in Nat : ~ \E f : Tries(c, bs, f, m)}
<1>1. CASE T = {}
  BY <1>1
<1>2. CASE T # {}
  <2>1. PICK m \in T : \A k \in T : m <= k
    BY <1>2, LeastNatural
  <2>2. CASE m = 0
    <3> DEFINE f == [k \in 0 .. 0 |-> Start(c)]
    <3>1. Tries(c, bs, f, 0)
      BY DEF Tries
    <3> QED BY <2>1, <2>2, <3>1
  <2>3. CASE m # 0
    <3>1. m \in Nat /\ m - 1 \in Nat /\ m - 1 \notin T
      BY <2>1, <2>3
    <3>2. PICK old : Tries(c, bs, old, m - 1)
      BY <3>1
    <3> DEFINE f == [k \in 0 .. m |-> IF k = 0 THEN Start(c) ELSE AddOne(c, old[k - 1], bs[k])]
    <3>3. \A k \in 0 .. m - 1 : f[k] = old[k]
      BY <3>1, <3>2 DEF Tries
    <3>4. \A k \in 0 .. m : k # 0 => k - 1 \in 0 .. m - 1
      BY <3>1
    <3>5. Tries(c, bs, f, m)
      BY <3>3, <3>4 DEF Tries
    <3> QED BY <2>1, <3>5
  <2> QED BY <2>2, <2>3
<1> QED BY <1>1, <1>2

LEMMA TryAddRecursion ==
  ASSUME NEW c, NEW bs, Len(bs) \in Nat
  PROVE  \E f : Tries(c, bs, f, Len(bs)) /\ TryAdd(c, bs) = f[Len(bs)]
<1> DEFINE f == CHOOSE f : Tries(c, bs, f, Len(bs))
<1>1. \E g : Tries(c, bs, g, Len(bs))
  BY TriesExist
<1>2. Tries(c, bs, f, Len(bs))
  BY <1>1
<1>3. TryAdd(c, bs) = f[Len(bs)]
  BY DEF TryAdd, Tries, Start
<1> HIDE DEF f
<1> QED BY <1>2, <1>3

\* The terms of the first m bindings, and what acc has recorded after them.
TermsOf(bs, m) == UNION {{bs[k].var, bs[k].term} : k \in 1 .. m}

RecordsAll(base, bs, m, acc) ==
  /\ Accumulates(base, acc)
  /\ \A f \in Assignments :
       Believes(acc.chain, f) <=> Believes(base, f) /\ \A k \in 1 .. m : Satisfies(f, bs[k])
  /\ Held(acc.chain) \subseteq Held(base) \cup TermsOf(bs, m)

LEMMA TryAddRecords ==
  ASSUME NEW c, Collection(c), NEW bs \in Seq(BindingSet),
         \A k \in 1 .. Len(bs) : bs[k].eq \/ bs[k].term # bs[k].var
  PROVE  /\ TryAdd(c, bs).ok \in BOOLEAN
         /\ TryAdd(c, bs).ok = TRUE => RecordsAll(c.chain, bs, Len(bs), TryAdd(c, bs))
         /\ \A g \in Assignments :
              /\ TypesNested /\ Believes(c.chain, g)
              /\ \A k \in 1 .. Len(bs) : Satisfies(g, bs[k])
              => TryAdd(c, bs).ok = TRUE
<1> DEFINE n == Len(bs)
<1>1. /\ n \in Nat /\ c.chain \in Seq(Varsets) /\ Len(c.chain) \in Nat
      /\ Closed(c.chain) /\ Typed(c.chain)
  BY DEF Collection
<1>2. PICK f : Tries(c, bs, f, n) /\ TryAdd(c, bs) = f[n]
  BY <1>1, TryAddRecursion
<1>3. f[0] = Start(c) /\ \A k \in 1 .. n : f[k] = AddOne(c, f[k - 1], bs[k])
  BY <1>1, <1>2 DEF Tries
<1> DEFINE Good(m) == /\ f[m].ok \in BOOLEAN
                      /\ f[m].ok = TRUE => RecordsAll(c.chain, bs, m, f[m])
                      /\ \A g \in Assignments :
                           /\ TypesNested /\ Believes(c.chain, g)
                           /\ \A k \in 1 .. m : Satisfies(g, bs[k])
                           => f[m].ok = TRUE
           D == {m \in 0 .. n : ~ Good(m)}
<1>4. Good(0)
  <2>1. \A p \in 1 .. Len(c.chain) : p + 0 = p
    BY <1>1
  <2>2. Accumulates(c.chain, f[0])
    BY <1>1, <1>3, <2>1 DEF Accumulates, Start
  <2>3. f[0].chain = c.chain /\ f[0].ok = TRUE
    BY <1>3 DEF Start
  <2>4. \A g : (\A k \in 1 .. 0 : Satisfies(g, bs[k]))
    OBVIOUS
  <2>5. RecordsAll(c.chain, bs, 0, f[0])
    BY <2>2, <2>3, <2>4 DEF RecordsAll
  <2> QED BY <2>3, <2>5
<1>5. ASSUME NEW m \in 0 .. n - 1, Good(m) PROVE Good(m + 1)
  <2>1. m + 1 \in 1 .. n /\ (m + 1) - 1 = m /\ m \in Nat
    BY <1>1
  <2>2. f[m + 1] = AddOne(c, f[m], bs[m + 1])
    BY <1>3, <2>1
  <2>3. bs[m + 1] \in BindingSet /\ (bs[m + 1].eq \/ bs[m + 1].term # bs[m + 1].var)
    BY <2>1
  <2>0. \A k : k \in 1 .. m + 1 <=> k \in 1 .. m \/ k = m + 1
    BY <2>1
  <2>4. CASE f[m].ok = FALSE
    <3>1. f[m + 1].ok = FALSE
      BY <2>2, <2>4 DEF AddOne
    <3>2. \A g \in Assignments :
            ~ (/\ TypesNested /\ Believes(c.chain, g)
               /\ \A k \in 1 .. m : Satisfies(g, bs[k]))
      BY <1>5, <2>4
    <3>3. \A g \in Assignments :
            ~ (/\ TypesNested /\ Believes(c.chain, g)
               /\ \A k \in 1 .. m + 1 : Satisfies(g, bs[k]))
      BY <2>0, <3>2
    <3> QED BY <3>1, <3>3
  <2>5. CASE f[m].ok = TRUE
    <3>1. RecordsAll(c.chain, bs, m, f[m])
      BY <1>5, <2>5
    <3>2. /\ f[m + 1].ok \in BOOLEAN
          /\ f[m + 1].ok = TRUE => Records(c.chain, f[m], bs[m + 1], f[m + 1])
          /\ \A g \in Assignments :
               TypesNested /\ Believes(f[m].chain, g) /\ Satisfies(g, bs[m + 1]) =>
                 f[m + 1].ok = TRUE
      <4>1. Accumulates(c.chain, f[m])
        BY <3>1 DEF RecordsAll
      <4>2. /\ AddOne(c, f[m], bs[m + 1]).ok \in BOOLEAN
            /\ AddOne(c, f[m], bs[m + 1]).ok = TRUE =>
                 Records(c.chain, f[m], bs[m + 1], AddOne(c, f[m], bs[m + 1]))
            /\ \A g \in Assignments :
                 TypesNested /\ Believes(f[m].chain, g) /\ Satisfies(g, bs[m + 1]) =>
                   AddOne(c, f[m], bs[m + 1]).ok = TRUE
        BY <2>3, <2>5, <4>1, AddOneRecords
      <4> QED BY <2>2, <4>2
    <3>3. ASSUME Records(c.chain, f[m], bs[m + 1], f[m + 1])
          PROVE  RecordsAll(c.chain, bs, m + 1, f[m + 1])
      <4>1. \A k : k \in 1 .. m + 1 <=> k \in 1 .. m \/ k = m + 1
        BY <2>0
      <4>2. TermsOf(bs, m + 1) = TermsOf(bs, m) \cup {bs[m + 1].var, bs[m + 1].term}
        BY <4>1 DEF TermsOf
      <4>3. ASSUME NEW g \in Assignments
            PROVE  Believes(f[m + 1].chain, g) <=>
                     Believes(c.chain, g) /\ \A k \in 1 .. m + 1 : Satisfies(g, bs[k])
        <5>1. Believes(f[m + 1].chain, g) <=> Believes(f[m].chain, g) /\ Satisfies(g, bs[m + 1])
          BY <3>3 DEF Records
        <5>2. Believes(f[m].chain, g) <=>
                Believes(c.chain, g) /\ \A k \in 1 .. m : Satisfies(g, bs[k])
          BY <3>1 DEF RecordsAll
        <5> QED BY <4>1, <5>1, <5>2
      <4>4. /\ Accumulates(c.chain, f[m + 1])
            /\ Held(f[m + 1].chain) \subseteq
                 Held(f[m].chain) \cup {bs[m + 1].var, bs[m + 1].term}
            /\ Held(f[m].chain) \subseteq Held(c.chain) \cup TermsOf(bs, m)
        BY <3>1, <3>3 DEF Records, RecordsAll
      <4>5. Held(f[m + 1].chain) \subseteq Held(c.chain) \cup TermsOf(bs, m + 1)
        BY <4>2, <4>4
      <4> QED BY <4>3, <4>4, <4>5 DEF RecordsAll
    <3>4. ASSUME NEW g \in Assignments, TypesNested, Believes(c.chain, g),
                 \A k \in 1 .. m + 1 : Satisfies(g, bs[k])
          PROVE  f[m + 1].ok = TRUE
      <4>1. Satisfies(g, bs[m + 1]) /\ \A k \in 1 .. m : Satisfies(g, bs[k])
        BY <2>0, <3>4
      <4>2. Believes(f[m].chain, g)
        BY <3>1, <3>4, <4>1 DEF RecordsAll
      <4> QED BY <3>2, <3>4, <4>1, <4>2
    <3> QED BY <3>2, <3>3, <3>4
  <2> QED BY <1>5, <2>4, <2>5
<1>6. Good(n)
  <2>1. D \subseteq Nat /\ \A m \in D : m \in 0 .. n /\ ~ Good(m)
    OBVIOUS
  <2>2. \A m \in 0 .. n : m \notin D => Good(m)
    OBVIOUS
  <2> HIDE DEF D, Good
  <2>3. CASE D = {}
    BY <1>1, <2>2, <2>3
  <2>4. CASE D # {}
    <3>1. PICK m \in D : \A k \in D : m <= k
      BY <2>1, <2>4, LeastNatural
    <3>2. m # 0 /\ m \in 0 .. n
      BY <1>4, <2>1, <3>1
    <3>3. m - 1 \in 0 .. n - 1 /\ m - 1 \notin D /\ (m - 1) + 1 = m
      BY <1>1, <2>1, <3>1, <3>2
    <3>4. Good(m - 1)
      BY <2>2, <3>3
    <3>5. Good(m)
      BY <1>5, <3>3, <3>4
    <3> QED BY <2>1, <3>1, <3>5
  <2> QED BY <2>3, <2>4
<1> QED BY <1>2, <1>6 DEF Good

-----------------------------------------------------------------------------
(* The high step.                                                           *)

LEMMA GreatestNatural ==
  ASSUME NEW S, S \subseteq Nat, S # {}, NEW bound \in Nat, \A k \in S : k <= bound
  PROVE  \E m \in S : \A k \in S : m >= k
<1> DEFINE U == {m \in Nat : \A k \in S : k <= m}
<1>1. U \subseteq Nat /\ U # {} /\ \A m : m \in U <=> m \in Nat /\ \A k \in S : k <= m
  OBVIOUS
<1> HIDE DEF U
<1>2. PICK m \in U : \A k \in U : m <= k
  BY <1>1, LeastNatural
<1>3. CASE m \in S
  BY <1>1, <1>2, <1>3
<1>4. CASE m \notin S
  <2>1. m \in Nat /\ \A k \in S : k <= m /\ k # m /\ k \in Nat
    BY <1>1, <1>2, <1>4
  <2>2. m - 1 \in Nat /\ \A k \in S : k <= m - 1
    <3>1. PICK k \in S : TRUE
      OBVIOUS
    <3>2. m # 0
      BY <2>1, <3>1
    <3>3. \A i, j \in Nat : i <= j /\ i # j => i <= j - 1
      OBVIOUS
    <3> QED BY <2>1, <3>2, <3>3
  <2>3. m - 1 \in U
    BY <1>1, <2>2
  <2>4. m <= m - 1
    BY <1>2, <2>3
  <2> QED BY <2>1, <2>4
<1> QED BY <1>3, <1>4

\* The steps of a sequence of bindings have a greatest one.
LEMMA StepsBounded ==
  ASSUME NEW bs \in Seq(BindingSet)
  PROVE  \E bound \in Nat : \A t \in StepVars : t \in TermsOf(bs, Len(bs)) => StepOf[t] <= bound
<1> DEFINE n == Len(bs)
           Bounded(m) == \E bound \in Nat : \A t \in StepVars : t \in TermsOf(bs, m) => StepOf[t] <= bound
           D == {m \in 0 .. n : ~ Bounded(m)}
<1>1. n \in Nat
  OBVIOUS
<1>2. Bounded(0)
  <2>1. TermsOf(bs, 0) = {}
    BY DEF TermsOf
  <2>2. 0 \in Nat
    OBVIOUS
  <2> QED BY <2>1, <2>2
<1>3. ASSUME NEW m \in 0 .. n - 1, Bounded(m) PROVE Bounded(m + 1)
  <2>1. PICK bound \in Nat : \A t \in StepVars : t \in TermsOf(bs, m) => StepOf[t] <= bound
    BY <1>3
  <2>2. m + 1 \in 1 .. n /\ \A k : k \in 1 .. m + 1 <=> k \in 1 .. m \/ k = m + 1
    BY <1>1
  <2>3. TermsOf(bs, m + 1) = TermsOf(bs, m) \cup {bs[m + 1].var, bs[m + 1].term}
    BY <2>2 DEF TermsOf
  <2> DEFINE step(t) == IF t \in StepVars THEN StepOf[t] ELSE 0
             v == step(bs[m + 1].var)
             w == step(bs[m + 1].term)
  <2>4. v \in Nat /\ w \in Nat
    BY BindingsAssumption
  <2>7. \A i, j, k \in Nat :
          i + j + k \in Nat /\ i <= i + j + k /\ j <= i + j + k /\ k <= i + j + k
    OBVIOUS
  <2>5. bound + v + w \in Nat /\ bound <= bound + v + w /\ v <= bound + v + w /\ w <= bound + v + w
    <3> HIDE DEF v, w
    <3> QED BY <2>4, <2>7
  <2>6. ASSUME NEW t \in StepVars, t \in TermsOf(bs, m + 1) PROVE StepOf[t] <= bound + v + w
    <3>1. StepOf[t] \in Nat
      BY BindingsAssumption
    <3>2. CASE t \in TermsOf(bs, m)
      BY <2>1, <2>4, <3>1, <3>2
    <3>3. CASE t = bs[m + 1].var
      BY <2>5, <3>3
    <3>4. CASE t = bs[m + 1].term
      BY <2>5, <3>4
    <3> QED BY <2>3, <2>6, <3>2, <3>3, <3>4
  <2> QED BY <2>5, <2>6
<1>4. Bounded(n)
  <2>1. D \subseteq Nat /\ \A m \in D : m \in 0 .. n /\ ~ Bounded(m)
    OBVIOUS
  <2>2. \A m \in 0 .. n : m \notin D => Bounded(m)
    OBVIOUS
  <2> HIDE DEF D, Bounded
  <2>3. CASE D = {}
    BY <1>1, <2>2, <2>3
  <2>4. CASE D # {}
    <3>1. PICK m \in D : \A k \in D : m <= k
      BY <2>1, <2>4, LeastNatural
    <3>2. m # 0 /\ m \in 0 .. n
      BY <1>2, <2>1, <3>1
    <3>3. m - 1 \in 0 .. n - 1 /\ m - 1 \notin D /\ (m - 1) + 1 = m
      BY <1>1, <2>1, <3>1, <3>2
    <3>4. Bounded(m - 1)
      BY <2>2, <3>3
    <3>5. Bounded(m)
      BY <1>3, <3>3, <3>4
    <3> QED BY <2>1, <3>1, <3>5
  <2> QED BY <2>3, <2>4
<1> QED BY <1>4

LEMMA HighStepIs ==
  ASSUME NEW c, c.high \in Nat, NEW bs \in Seq(BindingSet)
  PROVE  /\ HighStep(c, bs) \in Nat /\ c.high <= HighStep(c, bs)
         /\ \A t \in StepVars : t \in TermsOf(bs, Len(bs)) => StepOf[t] <= HighStep(c, bs)
<1> DEFINE S == {c.high} \cup {StepOf[b.var] : b \in ToSet(bs)}
                  \cup {StepOf[b.term] : b \in {d \in ToSet(bs) : d.term \in StepVars}}
<1>1. \A b \in ToSet(bs) : /\ b.var \in StepVars /\ StepOf[b.var] \in Nat
                           /\ b.term \in StepVars => StepOf[b.term] \in Nat
                           /\ b.var \in TermsOf(bs, Len(bs)) /\ b.term \in TermsOf(bs, Len(bs))
  <2> SUFFICES ASSUME NEW b \in ToSet(bs)
               PROVE  /\ b.var \in StepVars /\ StepOf[b.var] \in Nat
                      /\ b.term \in StepVars => StepOf[b.term] \in Nat
                      /\ b.var \in TermsOf(bs, Len(bs)) /\ b.term \in TermsOf(bs, Len(bs))
    OBVIOUS
  <2>1. PICK k \in 1 .. Len(bs) : bs[k] = b
    BY InSet
  <2>2. b.var \in StepVars
    <3>1. bs[k] \in BindingSet
      OBVIOUS
    <3>2. \A d \in BindingSet : d.var \in StepVars
      BY DEF BindingSet
    <3> QED BY <2>1, <3>1, <3>2
  <2>3. b.var \in TermsOf(bs, Len(bs)) /\ b.term \in TermsOf(bs, Len(bs))
    BY <2>1 DEF TermsOf
  <2>4. \A t \in StepVars : StepOf[t] \in Nat
    BY BindingsAssumption
  <2> QED BY <2>2, <2>3, <2>4
<1>2. \A t \in StepVars : t \in TermsOf(bs, Len(bs)) => StepOf[t] \in S
  <2> SUFFICES ASSUME NEW t \in StepVars, t \in TermsOf(bs, Len(bs)) PROVE StepOf[t] \in S
    OBVIOUS
  <2>1. PICK k \in 1 .. Len(bs) : t = bs[k].var \/ t = bs[k].term
    BY DEF TermsOf
  <2>2. bs[k] \in ToSet(bs)
    BY InSet
  <2> QED BY <2>1, <2>2
<1>3. PICK bound \in Nat : \A t \in StepVars : t \in TermsOf(bs, Len(bs)) => StepOf[t] <= bound
  BY StepsBounded
<1>4. S \subseteq Nat /\ c.high \in S
  BY <1>1
<1>5. \A k \in S : k = c.high \/ k <= bound
  BY <1>1, <1>3
<1>6. HighStep(c, bs) = Max(S)
  BY DEF HighStep
<1> HIDE DEF S
<1>7. c.high + bound \in Nat /\ \A k \in S : k <= c.high + bound
  BY <1>4, <1>5
<1>8. PICK m \in S : \A k \in S : m >= k
  BY <1>4, <1>7, GreatestNatural
<1>9. Max(S) \in S /\ \A k \in S : Max(S) >= k
  BY <1>8 DEF Max
<1> QED BY <1>2, <1>4, <1>6, <1>9

-----------------------------------------------------------------------------
(* The child of a collection.                                               *)

LEMMA IndexedCollection ==
  ASSUME NEW c, Collection(c)
  PROVE  Collection(Indexed(c)) /\ Indexed(c).chain = c.chain /\ Indexed(c).high = c.high
<1>1. Indexed(c) = [chain |-> c.chain, high |-> c.high, index |-> IndexState(c)]
  BY DEF Indexed, Collection
<1>2. IndexState(c) = None \/ Covers(IndexState(c), c.chain)
  BY IndexStateCovers
<1> DEFINE d == Indexed(c)
           ix == IndexState(c)
<1> HIDE DEF d, ix
<1>3. d.chain = c.chain /\ d.high = c.high /\ d.index = ix
      /\ d = [chain |-> d.chain, high |-> d.high, index |-> d.index]
  BY <1>1 DEF d, ix
<1>4. ix = None \/ Covers(ix, c.chain)
  BY <1>2 DEF ix
<1> QED BY <1>3, <1>4 DEF Collection, d

\* A table that covers the older part of a chain covers it behind what the
\* child has pushed.
LEMMA InheritedCovers ==
  ASSUME NEW base \in Seq(Varsets), NEW acc, Accumulates(base, acc),
         NEW ix, ix = None \/ Covers(ix, base), NEW new, Len(new) = acc.delta
  PROVE  Inherited(ix, new) = None \/ Covers(Inherited(ix, new), acc.chain)
<1> DEFINE next == [prefix |-> ix.prefix + Len(new), members |-> ix.members + Members(new),
                    table |-> ix.table, ncd |-> ix.ncd]
           ch == acc.chain
           d == acc.delta
           n == ix.prefix
<1>1. CASE Inherited(ix, new) = None
  BY <1>1
<1>2. CASE Inherited(ix, new) # None
  <2>1. ix # None /\ Inherited(ix, new) = next
    BY <1>2 DEF Inherited
  <2>2. Covers(ix, base)
    BY <2>1
  <2>3. /\ n \in 0 .. Len(base) /\ Len(base) \in Nat /\ d \in Nat /\ Len(ch) = Len(base) + d
        /\ \A p \in 1 .. Len(base) : ch[p + d] = base[p]
    BY <2>2 DEF Covers, Accumulates
  <2>4. next = [prefix |-> n + d, members |-> ix.members + Members(new),
                table |-> ix.table, ncd |-> ix.ncd]
    OBVIOUS
  <2> DEFINE out == Inherited(ix, new)
  <2>5. /\ out = [prefix |-> out.prefix, members |-> out.members, table |-> out.table, ncd |-> out.ncd]
        /\ out.prefix = n + d /\ out.table = ix.table
    <3> DEFINE members == ix.members + Members(new)
    <3> HIDE DEF members
    <3>1. out = [prefix |-> n + d, members |-> members, table |-> ix.table, ncd |-> ix.ncd]
      BY <2>1, <2>4 DEF members
    <3> HIDE DEF out
    <3> QED BY <3>1
  <2> HIDE DEF out, next, ch, d, n
  <2>6. n + d \in 0 .. Len(ch)
    BY <2>3
  <2>7. \A p \in n + 1 .. Len(base) : p + d \in n + d + 1 .. Len(ch) /\ ch[p + d] = base[p]
    BY <2>3
  <2>8. \A p \in n + d + 1 .. Len(ch) :
          /\ p - d \in n + 1 .. Len(base) /\ (p - d) + d = p /\ (p - d) - n = p - (n + d)
    BY <2>3
  <2>9. \A p \in n + d + 1 .. Len(ch) : ch[p] = base[p - d]
    BY <2>3, <2>7, <2>8
  <2>10. ASSUME NEW t \in Terms, t \in DOMAIN out.table
         PROVE  \E p \in n + d + 1 .. Len(ch) : Holds(ch[p], t)
    <3>1. PICK p \in n + 1 .. Len(base) : Holds(base[p], t)
      BY <2>2, <2>5, <2>10 DEF Covers, n
    <3> QED BY <2>7, <3>1
  <2>11. ASSUME NEW t \in Terms, NEW p \in n + d + 1 .. Len(ch), Holds(ch[p], t),
                \A q \in n + d + 1 .. Len(ch) : q < p => ~ Holds(ch[q], t)
         PROVE  t \in DOMAIN out.table /\ out.table[t] = [pos |-> p - (n + d), set |-> ch[p]]
    <3>1. p - d \in n + 1 .. Len(base) /\ ch[p] = base[p - d] /\ (p - d) - n = p - (n + d)
      BY <2>8, <2>9
    <3>2. ASSUME NEW q \in n + 1 .. Len(base), q < p - d PROVE ~ Holds(base[q], t)
      <4>1. q + d \in n + d + 1 .. Len(ch) /\ ch[q + d] = base[q] /\ q + d < p
        BY <2>3, <2>7, <3>2
      <4> QED BY <2>11, <4>1
    <3>3. \A q \in n + 1 .. Len(base) :
            Holds(base[q], t) /\ (\A k \in n + 1 .. Len(base) : k < q => ~ Holds(base[k], t)) =>
              t \in DOMAIN ix.table /\ ix.table[t] = [pos |-> q - n, set |-> base[q]]
      BY <2>2 DEF Covers, n
    <3>4. t \in DOMAIN ix.table /\ ix.table[t] = [pos |-> (p - d) - n, set |-> base[p - d]]
      BY <2>11, <3>1, <3>2, <3>3
    <3> QED BY <2>5, <3>1, <3>4
  <2> DEFINE m == n + d
  <2> HIDE DEF m
  <2>12. /\ out.prefix = m /\ m \in 0 .. Len(ch)
         /\ \A t \in Terms :
              /\ t \in DOMAIN out.table => \E p \in m + 1 .. Len(ch) : Holds(ch[p], t)
              /\ \A p \in m + 1 .. Len(ch) :
                   Holds(ch[p], t) /\ (\A q \in m + 1 .. Len(ch) : q < p => ~ Holds(ch[q], t)) =>
                     t \in DOMAIN out.table /\ out.table[t] = [pos |-> p - m, set |-> ch[p]]
    BY <2>5, <2>6, <2>10, <2>11 DEF m
  <2>13. Covers(out, ch)
    BY <2>5, <2>12 DEF Covers
  <2> QED BY <2>13 DEF out, ch
<1> QED BY <1>1, <1>2

\* A refinement that is not refused: the child says what its parent said and
\* the bindings that were added.
LEMMA AddedSays ==
  ASSUME NEW c, Collection(c), NEW bs \in Seq(BindingSet),
         \A k \in 1 .. Len(bs) : bs[k].term # bs[k].var, Consistent(c, bs)
  PROVE  /\ Collection(Added(c, bs))
         /\ \A f \in Assignments :
              Believes(Added(c, bs).chain, f) <=>
                Believes(c.chain, f) /\ \A k \in 1 .. Len(bs) : Satisfies(f, bs[k])
<1> DEFINE r == TryAdd(c, bs)
           high == HighStep(c, bs)
           n == Len(bs)
           ix == Inherited(IndexState(c), SubSeq(r.chain, 1, r.delta))
           child == [chain |-> r.chain, high |-> high, index |-> ix]
<1>1. RecordsAll(c.chain, bs, n, r)
  BY TryAddRecords DEF Consistent
<1>2. Added(c, bs) = IF r.delta = 0 /\ high = c.high THEN Indexed(c) ELSE child
  BY DEF Added
<1>3. /\ c.chain \in Seq(Varsets) /\ c.high \in Nat /\ Len(c.chain) \in Nat
      /\ \A v \in StepVars : v \in Held(c.chain) => StepOf[v] <= c.high
  BY DEF Collection
<1>4. /\ Accumulates(c.chain, r) /\ r.chain \in Seq(Varsets) /\ r.delta \in Nat /\ Closed(r.chain) /\ Typed(r.chain)
      /\ Len(r.chain) = Len(c.chain) + r.delta
      /\ \A p \in 1 .. Len(c.chain) : r.chain[p + r.delta] = c.chain[p]
      /\ \A f \in Assignments :
           Believes(r.chain, f) <=> Believes(c.chain, f) /\ \A k \in 1 .. n : Satisfies(f, bs[k])
      /\ Held(r.chain) \subseteq Held(c.chain) \cup TermsOf(bs, n)
  BY <1>1 DEF RecordsAll, Accumulates
<1>5. /\ high \in Nat /\ c.high <= high
      /\ \A t \in StepVars : t \in TermsOf(bs, n) => StepOf[t] <= high
  BY <1>3, HighStepIs
<1>6. IndexState(c) = None \/ Covers(IndexState(c), c.chain)
  BY IndexStateCovers
<1> HIDE DEF r, high
<1>7. CASE r.delta = 0 /\ high = c.high
  <2>1. \A p \in 1 .. Len(c.chain) : p + 0 = p
    BY <1>3
  <2>2. r.chain = c.chain
    BY <1>3, <1>4, <1>7, <2>1
  <2>3. Collection(Indexed(c)) /\ Indexed(c).chain = c.chain
    BY IndexedCollection
  <2> QED BY <1>2, <1>4, <1>7, <2>2, <2>3
<1>8. CASE ~ (r.delta = 0 /\ high = c.high)
  <2>1. Added(c, bs) = child
    BY <1>2, <1>8
  <2> DEFINE new == SubSeq(r.chain, 1, r.delta)
  <2>2. Len(new) = r.delta
    BY <1>3, <1>4
  <2>3. ix = None \/ Covers(ix, r.chain)
    <3> DEFINE old == IndexState(c)
    <3>1. old = None \/ Covers(old, c.chain)
      BY <1>6
    <3> HIDE DEF new, old
    <3>2. Inherited(old, new) = None \/ Covers(Inherited(old, new), r.chain)
      BY <1>3, <1>4, <2>2, <3>1, InheritedCovers
    <3> QED BY <3>2 DEF old, new
  <2>4. \A v \in StepVars : v \in Held(r.chain) => StepOf[v] <= high
    <3>1. \A v \in StepVars : StepOf[v] \in Nat
      BY BindingsAssumption
    <3> QED BY <1>3, <1>4, <1>5, <3>1
  <2> HIDE DEF ix
  <2>5. child.chain = r.chain /\ child.high = high /\ child.index = ix
        /\ child = [chain |-> child.chain, high |-> child.high, index |-> child.index]
    OBVIOUS
  <2> HIDE DEF child
  <2>6. Collection(child)
    BY <1>4, <1>5, <2>3, <2>4, <2>5 DEF Collection
  <2> QED BY <1>4, <2>1, <2>5, <2>6
<1> QED BY <1>7, <1>8

-----------------------------------------------------------------------------
(* Flattened sequences.                                                     *)

Flattens(s, f, m) == f = [i \in 1 .. m |-> IF i = 1 THEN s[i] ELSE f[i - 1] \o s[i]]

LEMMA FlatteningExists ==
  ASSUME NEW s, NEW n \in Nat
  PROVE  \E f : Flattens(s, f, n)
<1> DEFINE T == {m \in Nat : ~ \E f : Flattens(s, f, m)}
<1>1. CASE T = {}
  BY <1>1
<1>2. CASE T # {}
  <2>1. PICK m \in T : \A k \in T : m <= k
    BY <1>2, LeastNatural
  <2>2. CASE m = 0
    <3> DEFINE f == [i \in {} |-> s[i]]
    <3>1. 1 .. 0 = {}
      OBVIOUS
    <3>2. \A g : [i \in {} |-> s[i]] = [i \in {} |-> IF i = 1 THEN s[i] ELSE g[i - 1] \o s[i]]
      BY Zenon
    <3>3. f = [i \in {} |-> IF i = 1 THEN s[i] ELSE f[i - 1] \o s[i]]
      BY <3>2
    <3>4. Flattens(s, f, 0)
      BY <3>1, <3>3 DEF Flattens
    <3> QED BY <2>1, <2>2, <3>4
  <2>3. CASE m # 0
    <3>1. m \in Nat /\ m - 1 \in Nat /\ m - 1 \notin T
      BY <2>1, <2>3
    <3>2. PICK old : Flattens(s, old, m - 1)
      BY <3>1
    <3> DEFINE f == [i \in 1 .. m |-> IF i = 1 THEN s[i] ELSE old[i - 1] \o s[i]]
    <3>3. \A i \in 1 .. m - 1 : f[i] = old[i]
      <4>1. \A i \in 1 .. m - 1 : old[i] = IF i = 1 THEN s[i] ELSE old[i - 1] \o s[i]
        BY <3>2 DEF Flattens
      <4>2. \A i \in 1 .. m - 1 : i \in 1 .. m
        BY <3>1
      <4> QED BY <4>1, <4>2, Zenon
    <3>4. \A i \in 1 .. m : i # 1 => i - 1 \in 1 .. m - 1
      BY <3>1
    <3>5. Flattens(s, f, m)
      BY <3>3, <3>4 DEF Flattens
    <3> QED BY <2>1, <3>5
  <2> QED BY <2>2, <2>3
<1> QED BY <1>1, <1>2

LEMMA FlattenRecursion ==
  ASSUME NEW s, Len(s) \in Nat, Len(s) # 0
  PROVE  \E f : Flattens(s, f, Len(s)) /\ FlattenSeq(s) = f[Len(s)]
<1> DEFINE f == CHOOSE f : Flattens(s, f, Len(s))
<1>1. \E g : Flattens(s, g, Len(s))
  BY FlatteningExists
<1>2. Flattens(s, f, Len(s))
  BY <1>1
<1>3. FlattenSeq(s) = f[Len(s)]
  BY DEF FlattenSeq, Flattens
<1> HIDE DEF f
<1> QED BY <1>2, <1>3

LEMMA ConcatMembers ==
  ASSUME NEW S, NEW a \in Seq(S), NEW b \in Seq(S)
  PROVE  a \o b \in Seq(S) /\ ToSet(a \o b) = ToSet(a) \cup ToSet(b)
<1>1. a \o b \in Seq(S) /\ Len(a \o b) = Len(a) + Len(b) /\ Len(a) \in Nat /\ Len(b) \in Nat
  OBVIOUS
<1>2. \A i \in 1 .. Len(a) : i \in 1 .. Len(a \o b) /\ (a \o b)[i] = a[i]
  BY <1>1
<1>3. \A j \in 1 .. Len(b) : j + Len(a) \in 1 .. Len(a \o b) /\ (a \o b)[j + Len(a)] = b[j]
  BY <1>1
<1>4. \A i \in 1 .. Len(a \o b) :
        i \in 1 .. Len(a) \/ (i - Len(a) \in 1 .. Len(b) /\ (i - Len(a)) + Len(a) = i)
  BY <1>1
<1> DEFINE c == a \o b
<1> HIDE DEF c
<1>5. /\ \A i \in 1 .. Len(a) : i \in 1 .. Len(c) /\ c[i] = a[i]
      /\ \A j \in 1 .. Len(b) : j + Len(a) \in 1 .. Len(c) /\ c[j + Len(a)] = b[j]
      /\ \A i \in 1 .. Len(c) :
           i \in 1 .. Len(a) \/ (i - Len(a) \in 1 .. Len(b) /\ (i - Len(a)) + Len(a) = i)
      /\ c \in Seq(S)
  BY <1>1, <1>2, <1>3, <1>4 DEF c
<1>6. ASSUME NEW e \in ToSet(a) \cup ToSet(b) PROVE e \in ToSet(c)
  <2>1. CASE e \in ToSet(a)
    BY <1>5, <2>1, InSet
  <2>2. CASE e \in ToSet(b)
    <3>1. PICK j \in 1 .. Len(b) : b[j] = e
      BY <2>2, InSet
    <3>2. j + Len(a) \in 1 .. Len(c) /\ c[j + Len(a)] = e
      BY <1>5, <3>1
    <3> QED BY <1>5, <3>2, InSet
  <2> QED BY <1>6, <2>1, <2>2
<1>7. ASSUME NEW e \in ToSet(c) PROVE e \in ToSet(a) \cup ToSet(b)
  <2>1. PICK i \in 1 .. Len(c) : c[i] = e
    BY <1>5, <1>7, InSet
  <2>2. CASE i \in 1 .. Len(a)
    BY <1>5, <2>1, <2>2, InSet
  <2>3. CASE i - Len(a) \in 1 .. Len(b) /\ (i - Len(a)) + Len(a) = i
    <3>1. c[i] = b[i - Len(a)]
      BY <1>5, <2>3
    <3> QED BY <2>1, <2>3, <3>1, InSet
  <2> QED BY <1>5, <2>1, <2>2, <2>3
<1> QED BY <1>1, <1>6, <1>7 DEF c

LEMMA FlattenMembers ==
  ASSUME NEW S, NEW s \in Seq(Seq(S))
  PROVE  /\ FlattenSeq(s) \in Seq(S)
         /\ \A e : e \in ToSet(FlattenSeq(s)) <=> \E i \in 1 .. Len(s) : e \in ToSet(s[i])
<1> DEFINE n == Len(s)
<1>1. n \in Nat /\ \A i \in 1 .. n : s[i] \in Seq(S)
  OBVIOUS
<1>2. CASE n = 0
  <2>1. s = <<>> /\ FlattenSeq(s) = s
    BY <1>2 DEF FlattenSeq
  <2>2. <<>> \in Seq(S) /\ (\A i : i \notin 1 .. Len(<<>>)) /\ <<>> \in Seq(Seq(S))
    OBVIOUS
  <2>3. \A e : e \notin ToSet(<<>>)
    BY <2>2, InSet
  <2> QED BY <2>1, <2>2, <2>3
<1>3. CASE n # 0
  <2>1. PICK f : Flattens(s, f, n) /\ FlattenSeq(s) = f[n]
    BY <1>1, <1>3, FlattenRecursion
  <2>2. \A i \in 1 .. n : f[i] = IF i = 1 THEN s[i] ELSE f[i - 1] \o s[i]
    BY <2>1 DEF Flattens
  <2> DEFINE Good(m) == /\ f[m] \in Seq(S)
                        /\ \A e : e \in ToSet(f[m]) <=> \E i \in 1 .. m : e \in ToSet(s[i])
             D == {m \in 1 .. n : ~ Good(m)}
  <2>3. Good(1)
    <3>1. 1 \in 1 .. n /\ \A i : i \in 1 .. 1 <=> i = 1
      BY <1>1, <1>3
    <3>2. f[1] = s[1]
      BY <2>2, <3>1
    <3> QED BY <1>1, <3>1, <3>2
  <2>4. ASSUME NEW m \in 1 .. n - 1, Good(m) PROVE Good(m + 1)
    <3>1. m + 1 \in 1 .. n /\ m + 1 # 1 /\ (m + 1) - 1 = m
      BY <1>1
    <3>2. f[m + 1] = f[m] \o s[m + 1]
      BY <2>2, <3>1
    <3>3. \A i : i \in 1 .. m + 1 <=> i \in 1 .. m \/ i = m + 1
      BY <1>1
    <3>4. f[m + 1] \in Seq(S) /\ ToSet(f[m + 1]) = ToSet(f[m]) \cup ToSet(s[m + 1])
      BY <1>1, <2>4, <3>1, <3>2, ConcatMembers
    <3> QED BY <2>4, <3>3, <3>4
  <2>5. Good(n)
    <3> HIDE DEF Good
    <3>1. D \subseteq Nat /\ \A m \in D : m \in 1 .. n /\ ~ Good(m)
      OBVIOUS
    <3>2. \A m \in 1 .. n : m \notin D => Good(m)
      OBVIOUS
    <3>3. n \in 1 .. n
      BY <1>1, <1>3
    <3> HIDE DEF D
    <3>4. CASE D = {}
      BY <3>2, <3>3, <3>4
    <3>5. CASE D # {}
      <4>1. PICK m \in D : \A k \in D : m <= k
        BY <3>1, <3>5, LeastNatural
      <4>2. m # 1 /\ m \in 1 .. n
        BY <2>3, <3>1, <4>1
      <4>3. m - 1 \in 1 .. n - 1 /\ m - 1 \in 1 .. n /\ m - 1 \notin D /\ (m - 1) + 1 = m
        BY <1>1, <3>1, <4>1, <4>2
      <4>4. Good(m - 1)
        BY <3>2, <4>3
      <4>5. Good(m)
        BY <2>4, <4>3, <4>4
      <4> QED BY <3>1, <4>1, <4>5
    <3> QED BY <3>4, <3>5
  <2> QED BY <2>1, <2>5
<1> QED BY <1>2, <1>3

-----------------------------------------------------------------------------
(* The answers: an assignment that believes the chain agrees with them.     *)

Believer(c, f) == Collection(c) /\ f \in Assignments /\ Believes(c.chain, f)

LEMMA BelieverSays ==
  ASSUME NEW c, NEW f, Believer(c, f)
  PROVE  /\ c.chain \in Seq(Varsets) /\ Typed(c.chain) /\ f \in Assignments
         /\ Believes(c.chain, f) /\ Collection(c)
         /\ \A v \in StepVars : f[v] \in Objects /\ Subtype(ObjType[f[v]], VarType[v])
  BY DEF Believer, Collection, Assignments

LEMMA LookupFinds ==
  ASSUME NEW c, Collection(c), NEW t \in Terms
  PROVE  Finds(c.chain, t, Lookup(c, t))
<1>1. c.chain \in Seq(Varsets) /\ Len(c.chain) \in 0 .. Len(c.chain)
  BY DEF Collection
<1>2. Lookup(c, t) = Scan(c.chain, t, Len(c.chain))
  BY <1>1, IndexStateCovers, LookupScans DEF Lookup
<1> QED BY <1>1, <1>2, ScanFinds DEF Finds

\* What a class tells of its terms.
LEMMA FoundTells ==
  ASSUME NEW c, NEW f, Believer(c, f), NEW t \in Terms,
         NEW vs, Finds(c.chain, t, vs), vs # None
  PROVE  /\ vs.set \in Varsets /\ Holds(vs.set, t)
         /\ \A u \in Terms : Holds(vs.set, u) => Value(f, u) = Value(f, t)
         /\ \A v \in vs.set.ncd : f[v] # Value(f, t)
         /\ vs.set.constant # None => /\ vs.set.constant \in Objects
                                       /\ vs.set.constant = Value(f, t)
<1>1. /\ vs.set \in Varsets /\ Holds(vs.set, t) /\ Tells(vs.set, f) /\ f \in Assignments
  BY BelieverSays, ClassTells
<1>2. Agrees(vs.set, f) /\ Differs(vs.set, f)
  BY <1>1, TellsIs
<1>3. /\ \A u \in Terms : Holds(vs.set, u) => Value(f, u) = Value(f, t)
      /\ \A v \in vs.set.ncd : f[v] # Value(f, t)
  BY <1>1, <1>2 DEF Agrees, Differs
<1>4. ASSUME vs.set.constant # None
      PROVE  vs.set.constant \in Objects /\ vs.set.constant = Value(f, t)
  <2>1. vs.set.constant \in Objects /\ vs.set.constant \in Terms
    BY <1>1, <1>4, VarsetFields, NoneApart
  <2>2. Holds(vs.set, vs.set.constant) /\ Value(f, vs.set.constant) = vs.set.constant
    BY <2>1 DEF Holds, Value
  <2> QED BY <1>3, <2>1, <2>2
<1> QED BY <1>1, <1>3, <1>4

LEMMA BindingAgrees ==
  ASSUME NEW c, NEW f, Believer(c, f), NEW t \in Terms
  PROVE  /\ Binding(c, t) \in Terms /\ Value(f, Binding(c, t)) = Value(f, t)
         /\ t \in Objects => Binding(c, t) = t
         /\ Binding(c, t) \notin Objects => Binding(c, t) = t
<1> DEFINE vs == Known(c, t)
<1>1. Finds(c.chain, t, vs)
  BY BelieverSays, KnownFinds
<1>2. Binding(c, t) = IF vs = None THEN t ELSE IF vs.set.constant = None THEN t ELSE vs.set.constant
  BY DEF Binding
<1> HIDE DEF vs
<1>3. CASE vs = None \/ vs.set.constant = None
  BY <1>2, <1>3
<1>4. CASE vs # None /\ vs.set.constant # None
  <2>1. vs.set.constant \in Objects /\ vs.set.constant = Value(f, t)
    BY <1>1, <1>4, FoundTells
  <2>2. vs.set.constant \in Terms /\ Value(f, vs.set.constant) = vs.set.constant
    BY <2>1, NoneApart DEF Value
  <2>3. t \in Objects => Value(f, t) = t
    BY DEF Value
  <2> QED BY <1>2, <1>4, <2>1, <2>2, <2>3
<1> QED BY <1>3, <1>4

LEMMA DomainKeeps ==
  ASSUME NEW c, NEW f, Believer(c, f), NEW v \in StepVars
  PROVE  f[v] \in Domain(c, v)
<1>1. v \in Terms /\ Value(f, v) = f[v] /\ \A u \in StepVars : u \in Terms /\ Value(f, u) = f[u]
  BY NoneApart DEF Value
<1>2. f[v] \in CompatibleObjects(VarType[v])
  BY BelieverSays DEF CompatibleObjects
<1>3. ASSUME NEW vs \in {Known(c, v)} \ {None},
             NEW n \in {Lookup(c, u) : u \in vs.set.ncd} \ {None}
      PROVE  n.set.constant # f[v]
  <2>1. PICK u \in vs.set.ncd : n = Lookup(c, u) /\ n # None
    BY <1>3
  <2>2. Finds(c.chain, v, vs) /\ vs # None
    BY <1>1, BelieverSays, KnownFinds
  <2>3. vs.set \in Varsets /\ f[u] # f[v]
    BY <1>1, <2>1, <2>2, FoundTells
  <2>4. u \in StepVars
    BY <2>1, <2>3, VarsetFields
  <2>5. Finds(c.chain, u, n)
    BY <1>1, <2>1, <2>4, BelieverSays, LookupFinds
  <2>6. n.set.constant # None => n.set.constant = f[u]
    BY <1>1, <2>1, <2>4, <2>5, FoundTells
  <2>7. f[v] # None
    BY BelieverSays, NoneApart
  <2> QED BY <2>3, <2>6, <2>7
<1> QED BY <1>2, <1>3 DEF Domain

LEMMA InequalityAgrees ==
  ASSUME NEW c, NEW f, Believer(c, f), NEW v \in StepVars, NEW o \in Objects, f[v] # o
  PROVE  ConsistentWithInequality(c, v, o)
<1> SUFFICES ASSUME NEW vs \in {Known(c, o)} \ {None} PROVE ~ Holds(vs.set, v)
  BY DEF ConsistentWithInequality
<1>1. v \in Terms /\ o \in Terms /\ Value(f, v) = f[v] /\ Value(f, o) = o
  BY NoneApart DEF Value
<1>2. Finds(c.chain, o, vs) /\ vs # None
  BY <1>1, BelieverSays, KnownFinds
<1> QED BY <1>1, <1>2, FoundTells

LEMMA EqualTermsAgree ==
  ASSUME NEW c, NEW f, Believer(c, f), NEW s \in Terms, NEW t \in Terms, TermsEqual(c, s, t)
  PROVE  Value(f, s) = Value(f, t)
<1> DEFINE l == Binding(c, s)
           r == Binding(c, t)
<1>1. /\ l \in Terms /\ r \in Terms
      /\ Value(f, l) = Value(f, s) /\ Value(f, r) = Value(f, t)
  BY BindingAgrees
<1>2. \/ l = r
      \/ \E vs \in {Lookup(c, l)} \ {None} : Holds(vs.set, r)
  BY DEF TermsEqual
<1> HIDE DEF l, r
<1>3. CASE l = r
  BY <1>1, <1>3
<1>4. CASE \E vs \in {Lookup(c, l)} \ {None} : Holds(vs.set, r)
  <2>1. PICK vs : vs = Lookup(c, l) /\ vs # None /\ Holds(vs.set, r)
    BY <1>4
  <2>2. Finds(c.chain, l, vs)
    BY <1>1, <2>1, BelieverSays, LookupFinds
  <2>3. Value(f, r) = Value(f, l)
    BY <1>1, <2>1, <2>2, FoundTells
  <2> QED BY <1>1, <2>3
<1> QED BY <1>2, <1>3, <1>4

\* Equalities that an assignment satisfies are not refused.
LEMMA SatisfiedAccepted ==
  ASSUME TypesNested, NEW c, NEW f, Believer(c, f), NEW bs \in Seq(BindingSet),
         \A b \in ToSet(bs) : Satisfies(f, b), \A b \in ToSet(bs) : b.eq
  PROVE  Consistent(c, bs)
<1>1. \A k \in 1 .. Len(bs) : Satisfies(f, bs[k]) /\ bs[k].eq
  BY InSet
<1>2. TryAdd(c, bs).ok = TRUE
  BY <1>1, BelieverSays, TryAddRecords
<1> QED BY <1>2 DEF Consistent

LEMMA EquatedSays ==
  ASSUME NEW f \in Assignments, NEW s \in Terms, NEW t \in Terms, ~ ({s, t} \subseteq Objects)
  PROVE  /\ Equated(s, t) \in BindingSet /\ Equated(s, t).eq
         /\ <<Equated(s, t)>> \in Seq(BindingSet) /\ ToSet(<<Equated(s, t)>>) = {Equated(s, t)}
         /\ Satisfies(f, Equated(s, t)) <=> Value(f, s) = Value(f, t)
<1> DEFINE b == Equated(s, t)
<1>1. /\ s \in StepVars => b = [var |-> s, term |-> t, eq |-> TRUE]
      /\ s \notin StepVars => b = [var |-> t, term |-> s, eq |-> TRUE] /\ t \in StepVars
  BY NoneApart DEF Equated
<1>2. \A v \in StepVars : Value(f, v) = f[v]
  BY NoneApart DEF Value
<1> HIDE DEF b
<1>3. b \in BindingSet /\ b.eq /\ (Satisfies(f, b) <=> Value(f, s) = Value(f, t))
  <2>1. CASE s \in StepVars
    <3>1. b = [var |-> s, term |-> t, eq |-> TRUE]
      BY <1>1, <2>1
    <3>2. [var |-> s, term |-> t, eq |-> TRUE] \in BindingSet
      BY <2>1, <3>1, Zenon DEF BindingSet
    <3>3. b.var = s /\ b.term = t /\ b.eq = TRUE
      BY <3>1
    <3>4. b \in BindingSet
      BY <3>1, <3>2
    <3> QED BY <1>2, <2>1, <3>1, <3>3, <3>4 DEF Satisfies
  <2>2. CASE s \notin StepVars
    <3>1. b = [var |-> t, term |-> s, eq |-> TRUE] /\ t \in StepVars
      BY <1>1, <2>2
    <3>2. [var |-> t, term |-> s, eq |-> TRUE] \in BindingSet
      BY <2>2, <3>1, Zenon DEF BindingSet
    <3>3. b.var = t /\ b.term = s /\ b.eq = TRUE
      BY <3>1
    <3>4. b \in BindingSet
      BY <3>1, <3>2
    <3> QED BY <1>2, <2>2, <3>1, <3>3, <3>4 DEF Satisfies
  <2> QED BY <2>1, <2>2
<1>5. <<b>> \in Seq(BindingSet) /\ ToSet(<<b>>) = {b}
  BY <1>3 DEF ToSet
<1> QED BY <1>3, <1>5 DEF b

LEMMA EqualTermsCanBe ==
  ASSUME TypesNested, NEW c, NEW f, Believer(c, f), NEW s \in Terms, NEW t \in Terms,
         Value(f, s) = Value(f, t)
  PROVE  TermsCanEqual(c, s, t)
<1> DEFINE l == Binding(c, s)
           r == Binding(c, t)
<1>1. /\ l \in Terms /\ r \in Terms /\ Value(f, l) = Value(f, r)
  BY BindingAgrees
<1>2. TermsCanEqual(c, s, t) = IF {l, r} \subseteq Objects THEN l = r ELSE Consistent(c, <<Equated(l, r)>>)
  BY DEF TermsCanEqual
<1> HIDE DEF l, r
<1>3. CASE {l, r} \subseteq Objects
  <2>1. l = r
    BY <1>1, <1>3 DEF Value
  <2> QED BY <1>2, <1>3, <2>1
<1>4. CASE ~ ({l, r} \subseteq Objects)
  <2>1. f \in Assignments
    BY BelieverSays
  <2>2. /\ <<Equated(l, r)>> \in Seq(BindingSet)
        /\ \A b \in ToSet(<<Equated(l, r)>>) : b.eq /\ Satisfies(f, b)
    BY <1>1, <1>4, <2>1, EquatedSays
  <2>3. Consistent(c, <<Equated(l, r)>>)
    BY <2>2, SatisfiedAccepted
  <2> QED BY <1>2, <1>4, <2>3
<1> QED BY <1>3, <1>4

-----------------------------------------------------------------------------
(* Unifiers.                                                                *)

\* The assignment makes the two argument lists equal.
Alike(f, a1, a2) == \A i \in 1 .. Len(a1) : Value(f, a1[i]) = Value(f, a2[i])

\* A sequence of equalities that says that they are.
Unifies(f, a1, a2, mgu) ==
  /\ mgu \in Seq(BindingSet) /\ \A b \in ToSet(mgu) : b.eq
  /\ (\A b \in ToSet(mgu) : Satisfies(f, b)) <=> Alike(f, a1, a2)

\* The equalities of one position, which say something of the assignment.
Says(f, bs, holds) ==
  /\ bs \in Seq(BindingSet) /\ \A b \in ToSet(bs) : b.eq
  /\ (\A b \in ToSet(bs) : Satisfies(f, b)) <=> holds

\* Position by position.
LEMMA FlattenSays ==
  ASSUME NEW n \in Nat, NEW s, s = [i \in 1 .. n |-> s[i]], NEW f,
         \A i \in 1 .. n : s[i] \in Seq(BindingSet) /\ \A b \in ToSet(s[i]) : b.eq
  PROVE  /\ FlattenSeq(s) \in Seq(BindingSet) /\ \A b \in ToSet(FlattenSeq(s)) : b.eq
         /\ (\A b \in ToSet(FlattenSeq(s)) : Satisfies(f, b)) <=>
              \A i \in 1 .. n : \A b \in ToSet(s[i]) : Satisfies(f, b)
<1>1. s \in Seq(Seq(BindingSet)) /\ Len(s) = n
  <2>1. \A i \in 1 .. n : s[i] \in Seq(BindingSet)
    OBVIOUS
  <2> DEFINE T == Seq(BindingSet)
  <2>2. \A i \in 1 .. n : s[i] \in T
    BY <2>1
  <2> HIDE DEF T
  <2>3. s \in Seq(T) /\ Len(s) = n
    BY <2>2
  <2> QED BY <2>3 DEF T
<1>2. FlattenSeq(s) \in Seq(BindingSet)
  BY <1>1, FlattenMembers
<1>3. \A e : e \in ToSet(FlattenSeq(s)) <=> \E i \in 1 .. n : e \in ToSet(s[i])
  BY <1>1, FlattenMembers
<1> QED BY <1>2, <1>3

\* The first position of the term at position i.
LEMMA EarliestIs ==
  ASSUME NEW args, NEW i \in Nat, Earlier(args, i) # {}
  PROVE  /\ Min(Earlier(args, i)) \in 1 .. i - 1
         /\ args[Min(Earlier(args, i))] = args[i]
         /\ Earlier(args, Min(Earlier(args, i))) = {}
<1> DEFINE S == Earlier(args, i)
           m == Min(S)
<1>1. S \subseteq 1 .. i - 1 /\ S \subseteq Nat /\ \A j \in 1 .. i - 1 : j \in S <=> args[j] = args[i]
  BY DEF Earlier
<1>2. S # {}
  OBVIOUS
<1> HIDE DEF S
<1>3. \E x \in S : \A y \in S : x <= y
  BY <1>1, <1>2, LeastNatural
<1>4. m \in S /\ \A y \in S : m <= y
  BY <1>3 DEF Min
<1> HIDE DEF m
<1>5. m \in 1 .. i - 1 /\ args[m] = args[i]
  BY <1>1, <1>4
<1>6. ASSUME NEW j \in 1 .. m - 1 PROVE args[j] # args[m]
  <2>1. j \in 1 .. i - 1 /\ ~ (m <= j)
    BY <1>5
  <2> QED BY <1>1, <1>4, <1>5, <2>1
<1>7. Earlier(args, m) = {}
  BY <1>6 DEF Earlier
<1> QED BY <1>5, <1>7 DEF S, m

LEMMA ObjectFits ==
  ASSUME NEW c, NEW f, Believer(c, f), NEW args \in Seq(Terms), NEW objs \in Seq(Objects),
         Len(args) = Len(objs), Alike(f, args, objs), NEW i \in 1 .. Len(args)
  PROVE  FitsObject(c, args, objs, i)
<1>1. \A j \in 1 .. Len(args) : args[j] \in Terms /\ objs[j] \in Objects /\ Value(f, args[j]) = objs[j]
  BY DEF Alike, Value
<1>2. CASE Earlier(args, i) # {}
  <2> DEFINE m == Min(Earlier(args, i))
  <2>1. m \in 1 .. i - 1 /\ args[m] = args[i]
    BY <1>2, EarliestIs
  <2> HIDE DEF m
  <2>2. m \in 1 .. Len(args)
    BY <2>1
  <2>3. objs[m] = objs[i]
    BY <1>1, <2>1, <2>2
  <2> QED BY <1>2, <2>3 DEF FitsObject, m
<1>3. CASE Earlier(args, i) = {} /\ Binding(c, args[i]) \in Objects
  <2>1. Value(f, Binding(c, args[i])) = Value(f, args[i])
    BY <1>1, BindingAgrees
  <2>2. Value(f, Binding(c, args[i])) = Binding(c, args[i])
    BY <1>3 DEF Value
  <2>3. Binding(c, args[i]) = objs[i]
    BY <1>1, <2>1, <2>2
  <2> QED BY <1>3, <2>3 DEF FitsObject
<1>4. CASE Earlier(args, i) = {} /\ Binding(c, args[i]) \notin Objects
  <2>1. args[i] \notin Objects /\ args[i] \in StepVars
    BY <1>1, <1>4, BindingAgrees, NoneApart
  <2>2. f[args[i]] = objs[i]
    BY <1>1, <2>1 DEF Value
  <2>3. Subtype(ObjType[objs[i]], VarType[args[i]])
    BY <2>1, <2>2, BelieverSays
  <2> QED BY <1>4, <2>3 DEF FitsObject
<1> QED BY <1>2, <1>3, <1>4

\* The first position of a term: what is bound there makes it its object.
LEMMA ObjectBinds ==
  ASSUME NEW c, NEW f, Believer(c, f), NEW args \in Seq(Terms), NEW objs \in Seq(Objects),
         Len(args) = Len(objs), NEW i \in 1 .. Len(args), FitsObject(c, args, objs, i)
  PROVE  Says(f, BindsObject(c, args, objs, i),
              Earlier(args, i) # {} \/ Value(f, args[i]) = objs[i])
<1> DEFINE t == args[i]
           o == objs[i]
           bs == BindsObject(c, args, objs, i)
<1>1. t \in Terms /\ o \in Objects
  OBVIOUS
<1>2. <<>> \in Seq(BindingSet) /\ ToSet(<<>>) = {}
  BY DEF ToSet
<1>3. CASE Earlier(args, i) # {}
  <2>1. bs = <<>>
    BY <1>3 DEF BindsObject
  <2> QED BY <1>2, <1>3, <2>1 DEF Says
<1>4. CASE Earlier(args, i) = {} /\ Binding(c, t) \in Objects
  <2>1. bs = <<>> /\ Binding(c, t) = o
    BY <1>4 DEF BindsObject, FitsObject
  <2>2. Value(f, t) = o
    BY <1>1, <2>1, BindingAgrees DEF Value
  <2> QED BY <1>2, <2>1, <2>2 DEF Says
<1>5. CASE Earlier(args, i) = {} /\ Binding(c, t) \notin Objects
  <2>1. t \notin Objects /\ t \in StepVars
    BY <1>1, <1>5, BindingAgrees, NoneApart
  <2>2. bs = <<[var |-> t, term |-> o, eq |-> TRUE]>>
    BY <1>5 DEF BindsObject
  <2>3. Equated(t, o) = [var |-> t, term |-> o, eq |-> TRUE]
    BY <2>1 DEF Equated
  <2>4. bs = <<Equated(t, o)>> /\ o \in Terms /\ ~ ({t, o} \subseteq Objects) /\ f \in Assignments
        /\ Value(f, o) = o
    BY <1>1, <2>1, <2>2, <2>3, BelieverSays, NoneApart DEF Value
  <2>5. /\ <<Equated(t, o)>> \in Seq(BindingSet) /\ ToSet(<<Equated(t, o)>>) = {Equated(t, o)}
        /\ Equated(t, o).eq /\ (Satisfies(f, Equated(t, o)) <=> Value(f, t) = Value(f, o))
    BY <1>1, <2>4, EquatedSays
  <2> QED BY <1>5, <2>4, <2>5 DEF Says
<1> QED BY <1>3, <1>4, <1>5

LEMMA GroundUnifies ==
  ASSUME NEW c, NEW f, Believer(c, f), NEW args \in Seq(Terms), NEW objs \in Seq(Objects),
         Len(args) = Len(objs)
  PROVE  /\ Alike(f, args, objs) => UnifyGround(c, args, objs) # None
         /\ UnifyGround(c, args, objs) # None =>
              Unifies(f, args, objs, UnifyGround(c, args, objs))
<1> DEFINE n == Len(args)
           s == [i \in 1 .. n |-> BindsObject(c, args, objs, i)]
           mgu == FlattenSeq(s)
<1>1. n \in Nat /\ UnifyGround(c, args, objs) =
        IF \E i \in 1 .. n : ~ FitsObject(c, args, objs, i) THEN None ELSE mgu
  BY DEF UnifyGround
<1>2. ASSUME \A i \in 1 .. n : FitsObject(c, args, objs, i)
      PROVE  Unifies(f, args, objs, mgu) /\ mgu # None
  <2>1. \A i \in 1 .. n : Says(f, s[i], Earlier(args, i) # {} \/ Value(f, args[i]) = objs[i])
    BY <1>2, ObjectBinds
  <2>2. s = [i \in 1 .. n |-> s[i]]
    OBVIOUS
  <2> HIDE DEF s
  <2>3. \A i \in 1 .. n : s[i] \in Seq(BindingSet) /\ \A b \in ToSet(s[i]) : b.eq
    BY <2>1 DEF Says
  <2>4. /\ mgu \in Seq(BindingSet) /\ \A b \in ToSet(mgu) : b.eq
        /\ (\A b \in ToSet(mgu) : Satisfies(f, b)) <=>
             \A i \in 1 .. n : \A b \in ToSet(s[i]) : Satisfies(f, b)
    BY <1>1, <2>2, <2>3, FlattenSays
  <2>5. (\A b \in ToSet(mgu) : Satisfies(f, b)) <=>
          \A i \in 1 .. n : Earlier(args, i) # {} \/ Value(f, args[i]) = objs[i]
    BY <2>1, <2>4 DEF Says
  <2> HIDE DEF mgu
  <2>6. \A i \in 1 .. n : Value(f, objs[i]) = objs[i]
    BY DEF Value
  <2>7. ASSUME \A i \in 1 .. n : Earlier(args, i) # {} \/ Value(f, args[i]) = objs[i],
               NEW i \in 1 .. n
        PROVE  Value(f, args[i]) = objs[i]
    <3>1. CASE Earlier(args, i) = {}
      BY <2>7, <3>1
    <3>2. CASE Earlier(args, i) # {}
      <4> DEFINE m == Min(Earlier(args, i))
      <4>1. m \in 1 .. i - 1 /\ args[m] = args[i] /\ Earlier(args, m) = {}
        BY <3>2, EarliestIs
      <4>2. objs[m] = objs[i]
        BY <1>2, <3>2 DEF FitsObject
      <4> HIDE DEF m
      <4>3. m \in 1 .. n
        BY <4>1
      <4>4. Value(f, args[m]) = objs[m]
        BY <2>7, <4>1, <4>3
      <4> QED BY <4>1, <4>2, <4>4
    <3> QED BY <3>1, <3>2
  <2>8. Alike(f, args, objs) <=>
          \A i \in 1 .. n : Earlier(args, i) # {} \/ Value(f, args[i]) = objs[i]
    BY <2>6, <2>7 DEF Alike
  <2>9. Unifies(f, args, objs, mgu)
    BY <2>4, <2>5, <2>8 DEF Unifies
  <2>10. None \notin Seq(BindingSet)
    BY NoneAssumption
  <2> QED BY <2>4, <2>9, <2>10
<1>3. Alike(f, args, objs) => \A i \in 1 .. n : FitsObject(c, args, objs, i)
  BY ObjectFits
<1> HIDE DEF mgu
<1> QED BY <1>1, <1>2, <1>3

\* Neither list is ground.  An object lies in two types only when they are
\* comparable, which is what the check by type asks.
LEMMA TermFits ==
  ASSUME TypesNested, NEW c, NEW f, Believer(c, f), NEW s \in Terms, NEW t \in Terms,
         Value(f, s) = Value(f, t)
  PROVE  FitsTerm(s, t)
<1>1. \A v \in Terms : v \notin Objects => v \in StepVars /\ Value(f, v) = f[v]
  BY NoneApart DEF Value
<1>2. \A o \in Objects : Value(f, o) = o
  BY DEF Value
<1>3. \A v \in StepVars : f[v] \in Objects /\ Subtype(ObjType[f[v]], VarType[v])
  BY BelieverSays
<1>4. CASE s \in Objects /\ t \in Objects
  BY <1>2, <1>4 DEF FitsTerm
<1>5. CASE s \in Objects /\ t \notin Objects
  BY <1>1, <1>2, <1>3, <1>5 DEF FitsTerm
<1>6. CASE s \notin Objects /\ t \in Objects
  BY <1>1, <1>2, <1>3, <1>6 DEF FitsTerm
<1>7. CASE s \notin Objects /\ t \notin Objects
  <2>1. s \in StepVars /\ t \in StepVars /\ f[s] = f[t] /\ f[s] \in Objects
    BY <1>1, <1>3, <1>7
  <2>2. Subtype(ObjType[f[s]], VarType[s]) /\ Subtype(ObjType[f[s]], VarType[t])
    BY <1>3, <2>1
  <2>3. VarType[s] \in Types /\ VarType[t] \in Types
    BY <2>1, BindingsAssumption
  <2>4. Subtype(VarType[s], VarType[t]) \/ Subtype(VarType[t], VarType[s])
    BY <2>1, <2>2, <2>3 DEF TypesNested
  <2> QED BY <1>7, <2>4 DEF FitsTerm
<1> QED BY <1>4, <1>5, <1>6, <1>7

LEMMA TermBinds ==
  ASSUME NEW f \in Assignments, NEW s \in Terms, NEW t \in Terms, FitsTerm(s, t)
  PROVE  Says(f, BindsTerm(s, t), Value(f, s) = Value(f, t))
<1>1. CASE {s, t} \subseteq Objects
  <2>1. s = t /\ BindsTerm(s, t) = <<>>
    BY <1>1 DEF FitsTerm, BindsTerm
  <2>2. <<>> \in Seq(BindingSet) /\ ToSet(<<>>) = {}
    BY DEF ToSet
  <2> QED BY <2>1, <2>2 DEF Says
<1>2. CASE ~ ({s, t} \subseteq Objects)
  <2>1. BindsTerm(s, t) = <<Equated(s, t)>>
    BY <1>2 DEF BindsTerm
  <2>2. /\ <<Equated(s, t)>> \in Seq(BindingSet) /\ ToSet(<<Equated(s, t)>>) = {Equated(s, t)}
        /\ Equated(s, t).eq /\ (Satisfies(f, Equated(s, t)) <=> Value(f, s) = Value(f, t))
    BY <1>2, EquatedSays
  <2> QED BY <2>1, <2>2 DEF Says
<1> QED BY <1>1, <1>2

LEMMA LiftedUnifies ==
  ASSUME TypesNested, NEW c, NEW f, Believer(c, f), NEW a1 \in Seq(Terms), NEW a2 \in Seq(Terms),
         Len(a1) = Len(a2)
  PROVE  /\ Alike(f, a1, a2) => UnifyLifted(a1, a2) # None
         /\ UnifyLifted(a1, a2) # None => Unifies(f, a1, a2, UnifyLifted(a1, a2))
<1> DEFINE n == Len(a1)
           s == [i \in 1 .. n |-> BindsTerm(a1[i], a2[i])]
           mgu == FlattenSeq(s)
<1>1. /\ n \in Nat /\ \A i \in 1 .. n : a1[i] \in Terms /\ a2[i] \in Terms
      /\ f \in Assignments
      /\ UnifyLifted(a1, a2) = IF \E i \in 1 .. n : ~ FitsTerm(a1[i], a2[i]) THEN None ELSE mgu
  BY BelieverSays DEF UnifyLifted
<1>2. ASSUME \A i \in 1 .. n : FitsTerm(a1[i], a2[i])
      PROVE  Unifies(f, a1, a2, mgu) /\ mgu # None
  <2>1. \A i \in 1 .. n : Says(f, s[i], Value(f, a1[i]) = Value(f, a2[i]))
    BY <1>1, <1>2, TermBinds
  <2>2. s = [i \in 1 .. n |-> s[i]]
    OBVIOUS
  <2> HIDE DEF s
  <2>3. \A i \in 1 .. n : s[i] \in Seq(BindingSet) /\ \A b \in ToSet(s[i]) : b.eq
    BY <2>1 DEF Says
  <2>4. /\ mgu \in Seq(BindingSet) /\ \A b \in ToSet(mgu) : b.eq
        /\ (\A b \in ToSet(mgu) : Satisfies(f, b)) <=>
             \A i \in 1 .. n : \A b \in ToSet(s[i]) : Satisfies(f, b)
    BY <1>1, <2>2, <2>3, FlattenSays
  <2>5. (\A b \in ToSet(mgu) : Satisfies(f, b)) <=>
          \A i \in 1 .. n : Value(f, a1[i]) = Value(f, a2[i])
    BY <2>1, <2>4 DEF Says
  <2> HIDE DEF mgu
  <2>6. Unifies(f, a1, a2, mgu)
    BY <2>4, <2>5 DEF Unifies, Alike
  <2>7. None \notin Seq(BindingSet)
    BY NoneAssumption
  <2> QED BY <2>4, <2>6, <2>7
<1>3. Alike(f, a1, a2) => \A i \in 1 .. n : FitsTerm(a1[i], a2[i])
  BY <1>1, TermFits DEF Alike
<1> HIDE DEF mgu
<1> QED BY <1>1, <1>2, <1>3

LEMMA GroundIs ==
  ASSUME NEW a \in Seq(Terms)
  PROVE  Ground(a) => a \in Seq(Objects)
<1> SUFFICES ASSUME Ground(a) PROVE a \in Seq(Objects)
  OBVIOUS
<1>1. \A i \in 1 .. Len(a) : a[i] \in Objects
  BY InSet DEF Ground
<1> QED BY <1>1

\* A unifier says that the lists are equal, and there is one when they are.
LEMMA UnifyAnswers ==
  ASSUME TypesNested, NEW c, NEW f, Believer(c, f), NEW a1 \in Seq(Terms), NEW a2 \in Seq(Terms),
         Len(a1) = Len(a2)
  PROVE  /\ Alike(f, a1, a2) => Unify(c, a1, a2) # None
         /\ Unify(c, a1, a2) # None => Unifies(f, a1, a2, Unify(c, a1, a2))
<1> DEFINE Answers(mgu) == /\ Alike(f, a1, a2) => mgu # None
                           /\ mgu # None => Unifies(f, a1, a2, mgu)
           args == IF Ground(a1) THEN a2 ELSE a1
           objs == IF Ground(a1) THEN a1 ELSE a2
           raw == IF Ground(a1) /\ Ground(a2) THEN IF a1 = a2 THEN <<>> ELSE None
                  ELSE IF Ground(a1) \/ Ground(a2) THEN UnifyGround(c, args, objs)
                  ELSE UnifyLifted(a1, a2)
<1>1. Unify(c, a1, a2) = IF raw = None \/ ~ Consistent(c, raw) THEN None ELSE raw
  BY DEF Unify
<1>2. None \notin Seq(BindingSet) /\ f \in Assignments
  BY NoneAssumption, BelieverSays
<1>3. Answers(raw)
  <2>1. CASE Ground(a1) /\ Ground(a2)
    <3>1. a1 \in Seq(Objects) /\ a2 \in Seq(Objects)
      BY <2>1, GroundIs
    <3>2. \A o \in Objects : Value(f, o) = o
      BY DEF Value
    <3>3. Alike(f, a1, a2) <=> \A i \in 1 .. Len(a1) : a1[i] = a2[i]
      BY <3>1, <3>2 DEF Alike
    <3>4. Alike(f, a1, a2) <=> a1 = a2
      BY <3>1, <3>3
    <3>5. <<>> \in Seq(BindingSet) /\ ToSet(<<>>) = {}
      BY DEF ToSet
    <3>6. CASE a1 = a2
      <4>1. raw = <<>> /\ Alike(f, a1, a2)
        BY <2>1, <3>4, <3>6
      <4>2. Unifies(f, a1, a2, <<>>)
        BY <3>5, <4>1 DEF Unifies
      <4> QED BY <1>2, <3>5, <4>1, <4>2
    <3>7. CASE a1 # a2
      BY <2>1, <3>4, <3>7
    <3> QED BY <3>6, <3>7
  <2>2. CASE Ground(a1) /\ ~ Ground(a2)
    <3>1. a1 \in Seq(Objects) /\ raw = UnifyGround(c, a2, a1)
      BY <2>2, GroundIs
    <3>2. /\ Alike(f, a2, a1) => raw # None
          /\ raw # None => Unifies(f, a2, a1, raw)
      BY <3>1, GroundUnifies
    <3>3. Alike(f, a1, a2) <=> Alike(f, a2, a1)
      BY DEF Alike
    <3> QED BY <3>2, <3>3 DEF Unifies
  <2>3. CASE ~ Ground(a1) /\ Ground(a2)
    <3>1. a2 \in Seq(Objects) /\ raw = UnifyGround(c, a1, a2)
      BY <2>3, GroundIs
    <3> QED BY <3>1, GroundUnifies
  <2>4. CASE ~ Ground(a1) /\ ~ Ground(a2)
    <3>1. raw = UnifyLifted(a1, a2)
      BY <2>4
    <3> QED BY <3>1, LiftedUnifies
  <2> QED BY <2>1, <2>2, <2>3, <2>4
<1> HIDE DEF raw
<1>4. ASSUME Alike(f, a1, a2) PROVE Consistent(c, raw)
  <2>1. Unifies(f, a1, a2, raw)
    BY <1>3, <1>4
  <2>2. raw \in Seq(BindingSet) /\ \A b \in ToSet(raw) : b.eq /\ Satisfies(f, b)
    BY <1>4, <2>1 DEF Unifies
  <2> QED BY <2>2, SatisfiedAccepted
<1> QED BY <1>1, <1>3, <1>4

-----------------------------------------------------------------------------
(* The specification.                                                       *)

\* The collection is one whose chain says exactly what was asserted.
IInv == Collection(coll) /\ Told(coll.chain) = Solutions(asserted)

LEMMA InitSays == Init => IInv
<1> SUFFICES ASSUME Init PROVE IInv
  OBVIOUS
<1>1. coll.chain = <<>> /\ asserted = {} /\ coll.high = 0 /\ coll.index = None
      /\ coll = [chain |-> coll.chain, high |-> coll.high, index |-> coll.index]
  BY DEF Init
<1>2. <<>> \in Seq(Varsets) /\ \A p : p \notin 1 .. Len(<<>>)
  OBVIOUS
<1>3. Closed(<<>>) /\ Typed(<<>>) /\ Held(<<>>) = {} /\ \A f : Believes(<<>>, f)
  BY <1>2 DEF Closed, Typed, Held, Believes
<1>4. Collection(coll)
  BY <1>1, <1>2, <1>3 DEF Collection
<1>5. Told(<<>>) = Assignments
  BY <1>2, <1>3, ToldIs
<1>6. Solutions({}) = Assignments
  BY DEF Solutions
<1> QED BY <1>1, <1>4, <1>5, <1>6 DEF IInv

LEMMA NextSays == IInv /\ [Next]_vars => IInv'
<1> SUFFICES ASSUME IInv, [Next]_vars PROVE IInv'
  OBVIOUS
<1>1. ASSUME NEW bs \in Batches, Add(bs) PROVE IInv'
  <2>1. bs \in Seq(BindingSet) /\ \A k \in 1 .. Len(bs) : bs[k].term # bs[k].var
    BY BindingsAssumption
  <2>2. Collection(coll) /\ Consistent(coll, bs)
        /\ coll' = Added(coll, bs) /\ asserted' = asserted \cup ToSet(bs)
    BY <1>1 DEF IInv, Add
  <2>3. /\ Collection(coll')
        /\ \A f \in Assignments :
             Believes(coll'.chain, f) <=>
               Believes(coll.chain, f) /\ \A k \in 1 .. Len(bs) : Satisfies(f, bs[k])
    BY <2>1, <2>2, AddedSays
  <2>4. coll.chain \in Seq(Varsets) /\ coll'.chain \in Seq(Varsets)
    BY <2>2, <2>3 DEF Collection
  <2>5. /\ Told(coll.chain) = {f \in Assignments : Believes(coll.chain, f)}
        /\ Told(coll'.chain) = {f \in Assignments : Believes(coll'.chain, f)}
    BY <2>4, ToldIs
  <2>6. ASSUME NEW f \in Assignments
        PROVE  f \in Solutions(asserted') <=>
                 f \in Solutions(asserted) /\ \A k \in 1 .. Len(bs) : Satisfies(f, bs[k])
    <3>1. (\A b \in ToSet(bs) : Satisfies(f, b)) <=> \A k \in 1 .. Len(bs) : Satisfies(f, bs[k])
      BY <2>1, InSet
    <3> QED BY <2>2, <3>1 DEF Solutions
  <2>7. Told(coll.chain) = Solutions(asserted) /\ Solutions(asserted') \subseteq Assignments
    BY DEF IInv, Solutions
  <2>8. Told(coll'.chain) = Solutions(asserted')
    BY <2>3, <2>5, <2>6, <2>7
  <2> QED BY <2>3, <2>8 DEF IInv
<1>2. ASSUME Ask PROVE IInv'
  <2>1. Collection(coll') /\ coll'.chain = coll.chain /\ asserted' = asserted
    BY <1>2, IndexedCollection DEF IInv, Ask
  <2> QED BY <2>1 DEF IInv
<1>3. ASSUME UNCHANGED vars PROVE IInv'
  BY <1>3 DEF IInv, vars
<1> QED BY <1>1, <1>2, <1>3 DEF Next

LEMMA SpecSays == Spec => []IInv
<1> QED BY InitSays, NextSays, PTL DEF Spec

\* A lookup agrees with a scan, whatever part of the chain a table answers
\* for and however often it was inherited (lookup_var, lookup_obj,
\* inherited_index).
THEOREM IndexStaysTrue == Spec => []IndexAgreesWithScan
<1>1. IInv => IndexAgreesWithScan
  <2> SUFFICES ASSUME IInv, NEW t \in Terms
               PROVE  Lookup(coll, t) = Scan(coll.chain, t, Len(coll.chain))
    BY DEF IndexAgreesWithScan
  <2>1. coll.chain \in Seq(Varsets)
    BY DEF IInv, Collection
  <2>2. IndexState(coll) = None \/ Covers(IndexState(coll), coll.chain)
    BY IndexStateCovers DEF IInv
  <2> QED BY <2>1, <2>2, LookupScans DEF Lookup
<1> QED BY <1>1, SpecSays, PTL

\* The chain says exactly what the accepted bindings say: merging, pinning
\* and separating classes neither loses nor invents a constraint (try_add).
THEOREM NothingIsForgotten == Spec => []NothingForgotten
<1>1. IInv => NothingForgotten
  BY DEF IInv, NothingForgotten
<1> QED BY <1>1, SpecSays, PTL

\* Where no object lies in two types of which neither includes the other, the
\* bindings that are refused have no solution together with what was accepted
\* (try_add gives up on most_specific, on a constant of a wrong type, on two
\* constants, and on a separation).
THEOREM RejectionsStaySound ==
  ASSUME TypesNested
  PROVE  Spec => []RejectionsAreSound
<1>1. IInv => RejectionsAreSound
  <2> SUFFICES ASSUME IInv, NEW bs \in Batches, ~ Consistent(coll, bs),
                      NEW f \in Solutions(asserted \cup ToSet(bs))
               PROVE  FALSE
    BY DEF RejectionsAreSound
  <2>1. bs \in Seq(BindingSet) /\ \A k \in 1 .. Len(bs) : bs[k].term # bs[k].var
    BY BindingsAssumption
  <2>2. /\ f \in Assignments /\ f \in Solutions(asserted)
        /\ \A b \in ToSet(bs) : Satisfies(f, b)
    BY DEF Solutions
  <2>3. \A k \in 1 .. Len(bs) : Satisfies(f, bs[k])
    BY <2>1, <2>2, InSet
  <2>4. Collection(coll) /\ coll.chain \in Seq(Varsets)
    BY DEF IInv, Collection
  <2>5. Believes(coll.chain, f)
    BY <2>2, <2>4, ToldIs DEF IInv
  <2>6. TryAdd(coll, bs).ok = TRUE
    BY <2>1, <2>2, <2>3, <2>4, <2>5, TryAddRecords
  <2> QED BY <2>6 DEF Consistent
<1> QED BY <1>1, SpecSays, PTL

\* Every answer about terms holds in every assignment that satisfies what was
\* accepted: what is refused, the constant a variable is bound to, equalities
\* that hold or are impossible, the values left to a variable, inequalities;
\* and unifiers are exact (binding, terms_equal, terms_can_equal, domain,
\* consistent_with_inequality, unify_atoms).
THEOREM AnswersStayTrue ==
  ASSUME TypesNested
  PROVE  Spec => []AnswersAreEntailed
<1>1. IInv /\ RejectionsAreSound => AnswersAreEntailed
  <2> SUFFICES ASSUME IInv, RejectionsAreSound PROVE AnswersAreEntailed
    OBVIOUS
  <2> DEFINE c == Indexed(coll)
             solutions == Solutions(asserted)
  <2>1. ASSUME NEW f \in solutions PROVE Believer(c, f)
    <3>1. Collection(coll) /\ coll.chain \in Seq(Varsets)
      BY DEF IInv, Collection
    <3>2. f \in Assignments /\ Believes(coll.chain, f)
      BY <3>1, ToldIs DEF IInv, Solutions
    <3>3. Collection(c) /\ c.chain = coll.chain
      BY <3>1, IndexedCollection
    <3> QED BY <3>2, <3>3 DEF Believer
  <2> HIDE DEF c, solutions
  <2>2. UnifierIsExact(c, solutions)
    <3> SUFFICES ASSUME NEW a1 \in Patterns, NEW a2 \in Patterns \cup Rows,
                        NEW f \in solutions, NEW mgu, mgu = Unify(c, a1, a2)
                 PROVE  IF mgu = None THEN ~ Alike(f, a1, a2)
                        ELSE (\A b \in ToSet(mgu) : Satisfies(f, b)) => Alike(f, a1, a2)
      BY DEF UnifierIsExact, Alike
    <3>1. a1 \in Seq(Terms) /\ a2 \in Seq(Terms) /\ Len(a1) = Len(a2)
      <4>1. a1 \in Seq(Terms) /\ Len(a1) = Len(a2) /\ (a2 \in Seq(Terms) \/ a2 \in Seq(Objects))
        BY BindingsAssumption
      <4>2. Objects \subseteq Terms
        BY DEF Terms
      <4> QED BY <4>1, <4>2
    <3>2. Believer(c, f)
      BY <2>1
    <3> QED BY <3>1, <3>2, UnifyAnswers DEF Unifies
  <2>3. ASSUME NEW v \in StepVars, NEW f \in solutions
        PROVE  /\ f[v] \in Domain(c, v)
               /\ f[v] = Value(f, Binding(c, v))
               /\ \A o \in Objects : f[v] # o => ConsistentWithInequality(c, v, o)
    <3>1. v \in Terms /\ Value(f, v) = f[v]
      BY NoneApart DEF Value
    <3> QED BY <2>1, <3>1, DomainKeeps, BindingAgrees, InequalityAgrees
  <2>4. ASSUME NEW s \in Terms, NEW t \in Terms, NEW f \in solutions
        PROVE  /\ TermsEqual(c, s, t) => Value(f, s) = Value(f, t)
               /\ Value(f, s) = Value(f, t) => TermsCanEqual(c, s, t)
    BY <2>1, EqualTermsAgree, EqualTermsCanBe
  <2> QED BY <2>2, <2>3, <2>4 DEF AnswersAreEntailed, c, solutions
<1> QED BY <1>1, SpecSays, RejectionsStaySound, PTL
=============================================================================
