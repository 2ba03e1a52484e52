-------------------------- MODULE OrderingsProofs --------------------------
(***************************************************************************)
(* Lemmas about the operators on ordering collections, for every module    *)
(* that keeps one, and the least number principle, in the form the provers *)
(* can use: it takes a set, not a predicate.                               *)
(***************************************************************************)
EXTENDS Orderings, FiniteSetTheorems, WellFoundedInduction, TLAPS

\* A set of numbers has a least one: induction, by the smallest exception.
LEMMA LeastNatural ==
  ASSUME NEW T, T \subseteq Nat, T # {}
  PROVE  \E m \in T : \A k \in T : m <= k
<1> DEFINE R == OpToRel(<, Nat)
<1>1. IsWellFoundedOn(R, Nat)
  BY NatLessThanWellFounded
<1>2. \A x, y \in Nat : y < x => <<y, x>> \in R
  BY SMT DEF OpToRel
<1> HIDE DEF R
<1>3. PICK x \in T : \A y \in T : ~ (<<y, x>> \in R)
  BY <1>1, WFMin
<1>4. ASSUME NEW k \in T PROVE x <= k
  <2>1. x \in Nat /\ k \in Nat /\ ~ (k < x)
    BY <1>2, <1>3
  <2> QED BY <2>1
<1> QED BY <1>4

\* fill_transitive keeps the shape of the table.
LEMMA FillType ==
  ASSUME NEW o, IsOrderings(o), NEW i \in RealSteps(o), NEW j \in RealSteps(o)
  PROVE  /\ IsOrderings(FillTransitive(o, i, j))
         /\ FillTransitive(o, i, j).high = o.high
<1>1. CASE i = j \/ OrderedBefore(o, i, j)
  BY <1>1 DEF FillTransitive
<1>2. CASE ~ (i = j \/ OrderedBefore(o, i, j))
  <2> DEFINE rows == [k \in RealSteps(o) |->
                       IF k = i \/ OrderedBefore(o, k, i)
                       THEN o.succ[k] \cup {j} \cup o.succ[j]
                       ELSE o.succ[k]]
  <2>1. ~ (i > o.high \/ j > o.high)
    BY DEF RealSteps, IsOrderings
  <2>2. FillTransitive(o, i, j) = [o EXCEPT !.succ = rows]
    BY <1>2, <2>1 DEF FillTransitive
  <2>4. rows \in [RealSteps(o) -> SUBSET RealSteps(o)]
    BY DEF IsOrderings
  <2> HIDE DEF rows
  <2>5. PICK h, s : o = [high |-> h, succ |-> s]
    BY DEF IsOrderings
  <2>3. [o EXCEPT !.succ = rows] = [high |-> o.high, succ |-> rows]
    BY <2>5
  <2> QED BY <2>2, <2>3, <2>4 DEF IsOrderings, RealSteps
<1> QED BY <1>1, <1>2

\* What a row holds after i < j has been closed in.
LEMMA FillRows ==
  ASSUME NEW o, IsOrderings(o), NEW i \in RealSteps(o), NEW j \in RealSteps(o),
         i # j, j \notin o.succ[i]
  PROVE  \A k \in RealSteps(o) :
           FillTransitive(o, i, j).succ[k] =
             IF k = i \/ i \in o.succ[k]
             THEN o.succ[k] \cup {j} \cup o.succ[j]
             ELSE o.succ[k]
<1>1. ~ OrderedBefore(o, i, j) /\ ~ (i > o.high) /\ ~ (j > o.high)
  BY DEF OrderedBefore, RealSteps, IsOrderings
<1>2. FillTransitive(o, i, j) =
        [o EXCEPT !.succ = [n \in RealSteps(o) |->
           IF n = i \/ OrderedBefore(o, n, i)
           THEN o.succ[n] \cup {j} \cup o.succ[j]
           ELSE o.succ[n]]]
  BY <1>1 DEF FillTransitive
<1>3. \A k \in RealSteps(o) :
        (k = i \/ OrderedBefore(o, k, i)) <=> (k = i \/ i \in o.succ[k])
  BY DEF OrderedBefore
<1> QED BY <1>2, <1>3 DEF IsOrderings

\* Closing in i < j keeps a strict order strict, provided j is not before i.
LEMMA FillOrder ==
  ASSUME NEW o, IsOrderings(o), IsStrictOrder(o),
         NEW i \in RealSteps(o), NEW j \in RealSteps(o),
         i # j, i \notin o.succ[j]
  PROVE  IsStrictOrder(FillTransitive(o, i, j))
<1>1. CASE j \in o.succ[i]
  <2>1. OrderedBefore(o, i, j)
    BY <1>1 DEF OrderedBefore
  <2> QED BY <2>1 DEF FillTransitive
<1>2. CASE j \notin o.succ[i]
  <2> DEFINE new == FillTransitive(o, i, j)
  <2>1. RealSteps(new) = RealSteps(o)
    BY FillType DEF RealSteps
  <2>2. \A k \in RealSteps(o) :
          new.succ[k] = IF k = i \/ i \in o.succ[k]
                        THEN o.succ[k] \cup {j} \cup o.succ[j]
                        ELSE o.succ[k]
    BY <1>2, FillRows
  <2>3. \A k \in RealSteps(o) : o.succ[k] \subseteq RealSteps(o)
    BY DEF IsOrderings
  <2> HIDE DEF new
  <2>4. ASSUME NEW k \in RealSteps(o)
        PROVE  k \notin new.succ[k]
    <3>1. k \notin o.succ[k] /\ i \notin o.succ[j] /\ i # j
      BY DEF IsStrictOrder
    <3>3. CASE k = i
      BY <2>2, <3>1, <3>3
    <3>4. CASE k # i /\ i \in o.succ[k]
      BY <2>2, <3>1, <3>4 DEF IsStrictOrder
    <3>5. CASE k # i /\ i \notin o.succ[k]
      BY <2>2, <3>1, <3>5
    <3> QED BY <3>3, <3>4, <3>5
  <2>5. ASSUME NEW a \in RealSteps(o), NEW b \in new.succ[a]
        PROVE  new.succ[b] \subseteq new.succ[a]
    <3>1. b \in RealSteps(o)
      BY <2>2, <2>3
    <3>2. CASE a = i \/ i \in o.succ[a]
      <4>1. new.succ[a] = o.succ[a] \cup {j} \cup o.succ[j]
        BY <2>2, <3>2
      <4>2. o.succ[j] \subseteq new.succ[a] /\ j \in new.succ[a]
        BY <4>1
      <4>3. new.succ[b] \subseteq o.succ[b] \cup {j} \cup o.succ[j]
        BY <2>2, <3>1
      <4>4. o.succ[b] \subseteq new.succ[a]
        BY <4>1 DEF IsStrictOrder
      <4> QED BY <4>2, <4>3, <4>4
    <3>3. CASE ~ (a = i \/ i \in o.succ[a])
      BY <2>2, <2>3, <3>1, <3>3 DEF IsStrictOrder
    <3> QED BY <3>2, <3>3
  <2> QED BY <2>1, <2>4, <2>5 DEF IsStrictOrder, new
<1> QED BY <1>1, <1>2

\* Growing the table adds unordered steps only.
LEMMA ExpandedOrder ==
  ASSUME NEW o, IsOrderings(o), IsStrictOrder(o)
  PROVE  LET new == Expanded(o, o.high + 1) IN
         /\ IsOrderings(new) /\ IsStrictOrder(new)
         /\ new.high = o.high + 1
         /\ RealSteps(new) = RealSteps(o) \cup {o.high + 1}
         /\ new.succ[o.high + 1] = {}
         /\ \A k \in RealSteps(o) : new.succ[k] = o.succ[k]
<1> DEFINE new == Expanded(o, o.high + 1)
<1>1. new = [high |-> o.high + 1,
             succ |-> [k \in 1 .. o.high + 1 |->
                         IF k \in RealSteps(o) THEN o.succ[k] ELSE {}]]
  BY DEF Expanded
<1>2. RealSteps(new) = RealSteps(o) \cup {o.high + 1}
  BY <1>1 DEF RealSteps, IsOrderings
<1>3. o.high + 1 \notin RealSteps(o)
  BY DEF RealSteps, IsOrderings
<1>4. \A k \in RealSteps(o) : new.succ[k] = o.succ[k] /\ o.succ[k] \subseteq RealSteps(o)
  BY <1>1, <1>2 DEF IsOrderings, RealSteps
<1>5. new.succ[o.high + 1] = {}
  BY <1>1, <1>3 DEF IsOrderings
<1>6. IsOrderings(new)
  <2>1. \A k \in RealSteps(new) :
          (IF k \in RealSteps(o) THEN o.succ[k] ELSE {}) \in SUBSET RealSteps(new)
    BY <1>2, <1>4
  <2> QED BY <1>1, <2>1 DEF IsOrderings, RealSteps
<1>7. IsStrictOrder(new)
  BY <1>2, <1>3, <1>4, <1>5 DEF IsStrictOrder
<1> QED BY <1>1, <1>2, <1>4, <1>5, <1>6, <1>7

\* Closing in i < j takes nothing away.
LEMMA FillGrows ==
  ASSUME NEW o, IsOrderings(o), NEW i, NEW j, NEW k \in RealSteps(o)
  PROVE  o.succ[k] \subseteq FillTransitive(o, i, j).succ[k]
<1>1. CASE i = j \/ OrderedBefore(o, i, j) \/ i > o.high \/ j > o.high
  BY <1>1 DEF FillTransitive
<1>2. CASE ~ (i = j \/ OrderedBefore(o, i, j) \/ i > o.high \/ j > o.high)
  BY <1>2 DEF FillTransitive, IsOrderings
<1> QED BY <1>1, <1>2

\* Closing in i < j keeps the rows and has the pair.
LEMMA FillKeeps ==
  ASSUME NEW o, IsOrderings(o), NEW i \in RealSteps(o), NEW j \in RealSteps(o), i # j
  PROVE  /\ \A k \in RealSteps(o) : o.succ[k] \subseteq FillTransitive(o, i, j).succ[k]
         /\ j \in FillTransitive(o, i, j).succ[i]
<1>1. \A k \in RealSteps(o) : o.succ[k] \subseteq FillTransitive(o, i, j).succ[k]
  BY FillGrows
<1>2. CASE j \in o.succ[i]
  BY <1>1, <1>2
<1>3. CASE j \notin o.succ[i]
  <2>1. ~ (i = j \/ OrderedBefore(o, i, j) \/ i > o.high \/ j > o.high)
    BY <1>3 DEF OrderedBefore, RealSteps, IsOrderings
  <2>2. FillTransitive(o, i, j).succ[i] = o.succ[i] \cup {j} \cup o.succ[j]
    BY <2>1 DEF FillTransitive, IsOrderings
  <2> QED BY <1>1, <2>2
<1> QED BY <1>1, <1>2, <1>3

-----------------------------------------------------------------------------
(* What the refinements of a plan do to its collection.                     *)

\* Collection `new` keeps what o says and is as sound.
Refines(o, new) ==
  /\ IsOrderings(new) /\ IsStrictOrder(new)
  /\ o.high <= new.high /\ RealSteps(o) \subseteq RealSteps(new)
  /\ \A k \in RealSteps(o) : o.succ[k] \subseteq new.succ[k]

RunsBefore(o, a, b) == a = InitId \/ b = GoalId \/ OrderedBefore(o, a, b)

\* Closing a pair in refines a collection that does not say the opposite.
LEMMA FillRefines ==
  ASSUME NEW o, IsOrderings(o), IsStrictOrder(o),
         NEW a \in RealSteps(o), NEW b \in RealSteps(o), a # b, ~ OrderedBefore(o, b, a)
  PROVE  LET new == FillTransitive(o, a, b) IN
         /\ Refines(o, new) /\ new.high = o.high /\ OrderedBefore(new, a, b)
<1>1. a \notin o.succ[b]
  BY DEF OrderedBefore
<1>2. /\ IsOrderings(FillTransitive(o, a, b)) /\ FillTransitive(o, a, b).high = o.high
      /\ IsStrictOrder(FillTransitive(o, a, b))
  BY <1>1, FillType, FillOrder
<1>3. /\ \A k \in RealSteps(o) : o.succ[k] \subseteq FillTransitive(o, a, b).succ[k]
      /\ b \in FillTransitive(o, a, b).succ[a]
  BY FillKeeps
<1>4. RealSteps(FillTransitive(o, a, b)) = RealSteps(o) /\ o.high <= o.high
  BY <1>2 DEF RealSteps, IsOrderings
<1> QED BY <1>2, <1>3, <1>4 DEF Refines, OrderedBefore

\* refine_with_step for a step that is there, whose order is possible.
LEMMA ReuseRefines ==
  ASSUME NEW o, IsOrderings(o), IsStrictOrder(o), o.high <= MaxSteps,
         NEW a \in {InitId} \cup RealSteps(o), NEW b \in {GoalId} \cup RealSteps(o),
         PossiblyBefore(o, a, b)
  PROVE  LET new == RefineWithStep(o, a, b, a) IN
         /\ Refines(o, new) /\ new.high = o.high /\ RunsBefore(new, a, b)
<1>1. Refines(o, o)
  BY DEF Refines, IsOrderings
<1>2. CASE a = InitId
  BY <1>1, <1>2 DEF RefineWithStep, RunsBefore
<1>3. CASE a # InitId
  <2>1. a \in RealSteps(o) /\ a # GoalId /\ ~ (a > o.high)
    BY <1>3, MaxStepsAssumption DEF RealSteps, IsOrderings, GoalId
  <2>2. RefineWithStep(o, a, b, a) = IF b # GoalId THEN FillTransitive(o, a, b) ELSE o
    BY <1>3, <2>1 DEF RefineWithStep
  <2>3. CASE b = GoalId
    BY <1>1, <2>2, <2>3 DEF RunsBefore
  <2>4. CASE b # GoalId
    <3>1. b \in RealSteps(o) /\ a # b /\ ~ OrderedBefore(o, b, a)
      BY <1>3, <2>4 DEF PossiblyBefore
    <3> QED BY <2>1, <2>2, <2>4, <3>1, FillRefines DEF RunsBefore
  <2> QED BY <2>3, <2>4
<1> QED BY <1>2, <1>3

\* refine_with_step for a fresh step.
LEMMA NewStepRefines ==
  ASSUME NEW o, IsOrderings(o), IsStrictOrder(o), o.high + 1 <= MaxSteps,
         NEW b \in {GoalId} \cup RealSteps(o)
  PROVE  LET a   == o.high + 1
             new == RefineWithStep(o, a, b, a) IN
         /\ Refines(o, new) /\ new.high = a /\ RunsBefore(new, a, b)
<1> DEFINE a == o.high + 1
           grown == Expanded(o, a)
           new == RefineWithStep(o, a, b, a)
<1>1. a \in Nat /\ a # InitId /\ a # GoalId /\ a > o.high /\ a \notin RealSteps(o)
  BY MaxStepsAssumption DEF IsOrderings, InitId, GoalId, RealSteps
<1>2. /\ IsOrderings(grown) /\ IsStrictOrder(grown) /\ grown.high = a
      /\ RealSteps(grown) = RealSteps(o) \cup {a} /\ grown.succ[a] = {}
      /\ \A k \in RealSteps(o) : grown.succ[k] = o.succ[k]
  BY ExpandedOrder
<1>3. new = IF b # GoalId THEN FillTransitive(grown, a, b) ELSE grown
  BY <1>1 DEF RefineWithStep
<1>4. Refines(o, grown)
  BY <1>1, <1>2 DEF Refines, IsOrderings
<1>5. CASE b = GoalId
  BY <1>2, <1>3, <1>4, <1>5 DEF RunsBefore
<1>6. CASE b # GoalId
  <2>1. b \in RealSteps(o) /\ b # a /\ b \in RealSteps(grown) /\ a \in RealSteps(grown)
    BY <1>1, <1>2, <1>6
  <2>2. ~ OrderedBefore(grown, b, a)
    BY <1>1, <1>2, <2>1 DEF OrderedBefore, IsOrderings
  <2> HIDE DEF grown
  <2>3. Refines(grown, new) /\ new.high = grown.high /\ OrderedBefore(new, a, b)
    BY <1>2, <1>3, <1>6, <2>1, <2>2, FillRefines
  <2>4. Refines(o, new)
    BY <1>1, <1>2, <1>4, <2>3 DEF Refines, IsOrderings
  <2> QED BY <1>2, <2>3, <2>4 DEF RunsBefore
<1> QED BY <1>5, <1>6

\* refine, when it does not answer None.
LEMMA RefineRefines ==
  ASSUME NEW o, IsOrderings(o), IsStrictOrder(o),
         NEW a \in {InitId} \cup RealSteps(o), NEW b \in {GoalId} \cup RealSteps(o),
         Refinable(o, a, b)
  PROVE  LET new == Refine(o, a, b) IN
         /\ Refines(o, new) /\ new.high = o.high /\ RunsBefore(new, a, b)
<1>1. Refines(o, o)
  BY DEF Refines, IsOrderings
<1>2. CASE a = InitId \/ b = GoalId \/ OrderedBefore(o, a, b)
  BY <1>1, <1>2 DEF Refine, RunsBefore
<1>3. CASE ~ (a = InitId \/ b = GoalId \/ OrderedBefore(o, a, b))
  <2>1. a \in RealSteps(o) /\ b \in RealSteps(o) /\ a # b /\ ~ OrderedBefore(o, b, a)
    BY <1>3 DEF Refinable
  <2>2. Refine(o, a, b) = FillTransitive(o, a, b)
    BY <1>3 DEF Refine
  <2> QED BY <2>1, <2>2, FillRefines DEF RunsBefore
<1> QED BY <1>2, <1>3
=============================================================================
