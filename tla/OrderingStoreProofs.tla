------------------------ MODULE OrderingStoreProofs ------------------------
(***************************************************************************)
(* Proofs about the ordering collection for every bound on the steps.      *)
(*                                                                         *)
(* The inductive invariant is TypeOK /\ StrictPartialOrder: closing the    *)
(* relation under i < j keeps it irreflexive only because j was not before *)
(* i, and that is read off the closure itself, so transitivity and the     *)
(* absence of cycles have to be carried together.  That the stored rows    *)
(* implement the collection adds that the table holds one row per step and *)
(* reads back as the collection (RowsInv).                                 *)
(***************************************************************************)
EXTENDS OrderingRows, OrderingsProofs, SequenceTheorems

\* The collection after a fresh step, before any constraint on it.
Grown == Expanded(ord, ord.high + 1)

\* The step closes collection o under i < j, which o does not contradict.
Closes(o, i, j) ==
  /\ i \in RealSteps(o) /\ j \in RealSteps(o)
  /\ i # j /\ i \notin o.succ[j]
  /\ ord' = FillTransitive(o, i, j)
  /\ asserted' = asserted \cup {<<i, j>>}

Grows == ord.high < MaxSteps /\ ord' = Grown /\ asserted' = asserted

\* What each action does to the two variables, in terms of the lemmas above.
LEMMA AddStepShape ==
  ASSUME TypeOK, NEW c, AddStep(c)
  PROVE  \/ Grows
         \/ ord.high < MaxSteps /\ c \in RealSteps(ord) /\ Closes(Grown, ord.high + 1, c)
<1> DEFINE new == ord.high + 1
<1>1. /\ new <= MaxSteps /\ new \in Nat /\ new # InitId /\ new # GoalId
      /\ new > ord.high /\ ord.high < MaxSteps
      /\ GoalId \notin RealSteps(ord)
  BY MaxStepsAssumption DEF AddStep, TypeOK, IsOrderings, InitId, GoalId, RealSteps
<1>2. /\ Grown.high = new
      /\ Grown.succ = [k \in 1 .. new |-> IF k \in RealSteps(ord) THEN ord.succ[k] ELSE {}]
  BY DEF Grown, Expanded
<1>3. CASE c = GoalId
  BY <1>1, <1>3 DEF AddStep, RefineWithStep, Grows, Grown
<1>4. CASE c # GoalId
  <2>1. c \in RealSteps(ord) /\ c \in 1 .. new /\ new \in 1 .. new /\ c # new
    BY <1>1, <1>4 DEF AddStep, TypeOK, IsOrderings, RealSteps
  <2>2. ord' = FillTransitive(Grown, new, c) /\ asserted' = asserted \cup {<<new, c>>}
    BY <1>1, <1>4 DEF AddStep, RefineWithStep, Grown
  <2>3. new \notin Grown.succ[c]
    <3>1. Grown.succ[c] = ord.succ[c]
      BY <1>2, <2>1
    <3> QED BY <1>1, <2>1, <3>1 DEF TypeOK, IsOrderings, RealSteps
  <2> QED BY <1>1, <1>2, <2>1, <2>2, <2>3 DEF Closes, RealSteps
<1> QED BY <1>3, <1>4

LEMMA ReuseStepShape ==
  ASSUME TypeOK, NEW s, NEW c, ReuseStep(s, c)
  PROVE  UNCHANGED vars \/ Closes(ord, s, c)
<1>1. /\ s \in RealSteps(ord) \cup {InitId, GoalId}
      /\ c \in RealSteps(ord) \cup {GoalId}
      /\ s # c /\ s # GoalId
      /\ ~ (s > ord.high) \/ s = InitId
      /\ InitId \notin RealSteps(ord) /\ c # InitId
  BY MaxStepsAssumption
     DEF ReuseStep, PossiblyBefore, Ids, TypeOK, IsOrderings, InitId, GoalId, RealSteps
<1>2. CASE s = InitId \/ c = GoalId
  <2>1. ord' = ord
    BY <1>1, <1>2 DEF ReuseStep, RefineWithStep
  <2> QED BY <2>1, <1>2 DEF ReuseStep, vars
<1>3. CASE ~ (s = InitId \/ c = GoalId)
  <2>1. s \in RealSteps(ord) /\ c \in RealSteps(ord) /\ ~ OrderedBefore(ord, c, s)
    BY <1>1, <1>3 DEF ReuseStep, PossiblyBefore
  <2>2. ord' = FillTransitive(ord, s, c) /\ asserted' = asserted \cup {<<s, c>>}
    BY <1>1, <1>3 DEF ReuseStep, RefineWithStep
  <2> QED BY <1>1, <2>1, <2>2 DEF Closes, OrderedBefore
<1> QED BY <1>2, <1>3

LEMMA NewOrderingShape ==
  ASSUME TypeOK, NEW a, NEW b, NewOrdering(a, b)
  PROVE  UNCHANGED vars \/ Closes(ord, a, b)
<1>1. /\ a \in RealSteps(ord) \cup {InitId}
      /\ b \in RealSteps(ord) \cup {GoalId}
      /\ a # b
  BY DEF NewOrdering, Refinable, Ids
<1>2. CASE a = InitId \/ b = GoalId
  BY <1>2 DEF NewOrdering, Refine, vars
<1>3. CASE ~ (a = InitId \/ b = GoalId)
  <2>1. a \in RealSteps(ord) /\ b \in RealSteps(ord) /\ ~ OrderedBefore(ord, b, a)
    BY <1>1, <1>3 DEF NewOrdering, Refinable
  <2>2. ord' = FillTransitive(ord, a, b) /\ asserted' = asserted \cup {<<a, b>>}
    BY <1>3 DEF NewOrdering, Refine, FillTransitive
  <2> QED BY <1>1, <2>1, <2>2 DEF Closes, OrderedBefore
<1> QED BY <1>2, <1>3

-----------------------------------------------------------------------------
IndInv == TypeOK /\ StrictPartialOrder

LEMMA ClosesKeeps ==
  ASSUME NEW o, IsOrderings(o), IsStrictOrder(o), NEW i, NEW j, Closes(o, i, j),
         asserted \subseteq RealSteps(o) \X RealSteps(o)
  PROVE  /\ IsOrderings(ord') /\ IsStrictOrder(ord')
         /\ ord'.high = o.high /\ RealSteps(ord') = RealSteps(o)
         /\ asserted' \subseteq RealSteps(ord') \X RealSteps(ord')
<1>1. i \in RealSteps(o) /\ j \in RealSteps(o) /\ i # j /\ i \notin o.succ[j]
  BY DEF Closes
<1>2. ord' = FillTransitive(o, i, j) /\ asserted' = asserted \cup {<<i, j>>}
  BY DEF Closes
<1>3. IsOrderings(ord') /\ ord'.high = o.high
  BY <1>1, <1>2, FillType
<1>4. IsStrictOrder(ord')
  BY <1>1, <1>2, FillOrder
<1>5. RealSteps(ord') = RealSteps(o)
  BY <1>3 DEF RealSteps
<1> QED BY <1>1, <1>2, <1>3, <1>4, <1>5

LEMMA GrownOrder ==
  ASSUME IndInv
  PROVE  /\ IsOrderings(Grown) /\ IsStrictOrder(Grown)
         /\ Grown.high = ord.high + 1
         /\ RealSteps(Grown) = RealSteps(ord) \cup {ord.high + 1}
         /\ Grown.succ[ord.high + 1] = {}
         /\ \A k \in RealSteps(ord) : Grown.succ[k] = ord.succ[k]
  BY ExpandedOrder DEF IndInv, TypeOK, StrictPartialOrder, Grown

LEMMA IndInvInit == Init => IndInv
<1> SUFFICES ASSUME Init PROVE IndInv
  OBVIOUS
<1>1. ord = [high |-> 0, succ |-> [k \in {} |-> {}]] /\ asserted = {}
  BY DEF Init, NewOrderings
<1>2. RealSteps(ord) = {}
  BY <1>1 DEF RealSteps
<1> QED BY <1>1, <1>2, MaxStepsAssumption
        DEF IndInv, TypeOK, IsOrderings, StrictPartialOrder, IsStrictOrder

LEMMA IndInvStep == IndInv /\ [Next]_vars => IndInv'
<1> SUFFICES ASSUME IndInv, [Next]_vars PROVE IndInv'
  OBVIOUS
<1> USE DEF IndInv, StrictPartialOrder
<1>0. ASSUME UNCHANGED vars PROVE IndInv'
  BY <1>0 DEF vars, TypeOK
<1>1. ASSUME NEW i, NEW j, Closes(ord, i, j) PROVE IndInv'
  BY <1>1, ClosesKeeps DEF TypeOK
<1>2. ASSUME NEW c, AddStep(c) PROVE IndInv'
  <2>1. /\ ord.high + 1 <= MaxSteps
        /\ asserted \subseteq RealSteps(Grown) \X RealSteps(Grown)
    BY <1>2, GrownOrder DEF AddStep, TypeOK
  <2>2. CASE Grows
    BY <2>1, <2>2, GrownOrder DEF Grows, TypeOK
  <2>3. CASE Closes(Grown, ord.high + 1, c)
    BY <2>1, <2>3, GrownOrder, ClosesKeeps DEF TypeOK
  <2> QED BY <1>2, <2>2, <2>3, AddStepShape
<1>3. ASSUME NEW s, NEW c, ReuseStep(s, c) PROVE IndInv'
  BY <1>0, <1>1, <1>3, ReuseStepShape
<1>4. ASSUME NEW a, NEW b, NewOrdering(a, b) PROVE IndInv'
  BY <1>0, <1>1, <1>4, NewOrderingShape
<1> QED BY <1>0, <1>2, <1>3, <1>4 DEF Next

(* The table always has one row per real step and only real steps in its   *)
(* rows, for every number of steps.                                        *)
THEOREM TypeCorrect == Spec => []TypeOK
<1>1. IndInv => TypeOK
  BY DEF IndInv
<1> QED BY IndInvInit, IndInvStep, <1>1, PTL DEF Spec

(* Along any sequence of refinements the rows stay an irreflexive and      *)
(* transitive relation: the callers' possibly_before tests are enough to   *)
(* keep refine_with_step, which looks for no cycle, from making one.       *)
THEOREM OrderStaysStrict == Spec => []StrictPartialOrder
<1>1. IndInv => StrictPartialOrder
  BY DEF IndInv
<1> QED BY IndInvInit, IndInvStep, <1>1, PTL DEF Spec

-----------------------------------------------------------------------------
Exact(o, A) ==
  /\ A \subseteq RowPairs(o)
  /\ \A T \in SUBSET RowPairs(o) : A \subseteq T /\ IsTransitive(T) => T = RowPairs(o)

\* The rows of a strict order are a transitive relation.
LEMMA RowPairsTransitive ==
  ASSUME NEW o, IsOrderings(o), IsStrictOrder(o)
  PROVE  IsTransitive(RowPairs(o))
<1> SUFFICES ASSUME NEW e \in RowPairs(o), NEW f \in RowPairs(o), e[2] = f[1]
             PROVE  <<e[1], f[2]>> \in RowPairs(o)
  BY DEF IsTransitive
<1>1. /\ e[1] \in RealSteps(o) /\ e[2] \in o.succ[e[1]]
      /\ f[2] \in RealSteps(o) /\ f[2] \in o.succ[e[2]]
  BY DEF RowPairs
<1>2. f[2] \in o.succ[e[1]]
  BY <1>1 DEF IsStrictOrder
<1> QED BY <1>1, <1>2 DEF RowPairs

\* fill_transitive closes exactly: with i < j it has the pairs i < j implies.
LEMMA FillExact ==
  ASSUME NEW o, IsOrderings(o), IsStrictOrder(o), NEW A, Exact(o, A),
         NEW i \in RealSteps(o), NEW j \in RealSteps(o),
         i # j, i \notin o.succ[j]
  PROVE  Exact(FillTransitive(o, i, j), A \cup {<<i, j>>})
<1> DEFINE new == FillTransitive(o, i, j)
<1>1. CASE j \in o.succ[i]
  <2>1. new = o
    BY <1>1 DEF OrderedBefore, FillTransitive
  <2>2. <<i, j>> \in RowPairs(o)
    BY <1>1 DEF RowPairs
  <2> QED BY <2>1, <2>2 DEF Exact
<1>2. CASE j \notin o.succ[i]
  <2>1. RealSteps(new) = RealSteps(o)
    BY FillType DEF RealSteps
  <2>2. \A k \in RealSteps(o) :
          new.succ[k] = IF k = i \/ i \in o.succ[k]
                        THEN o.succ[k] \cup {j} \cup o.succ[j]
                        ELSE o.succ[k]
    BY <1>2, FillRows
  <2> HIDE DEF new
  <2>3. RowPairs(o) \subseteq RowPairs(new)
    BY <2>1, <2>2 DEF RowPairs
  <2>4. <<i, j>> \in RowPairs(new)
    BY <2>1, <2>2 DEF RowPairs
  <2>5. ASSUME NEW T \in SUBSET RowPairs(new), A \cup {<<i, j>>} \subseteq T, IsTransitive(T)
        PROVE  RowPairs(new) \subseteq T
    <3>1. IsTransitive(T \cap RowPairs(o))
      BY <2>5, RowPairsTransitive DEF IsTransitive
    <3>2. RowPairs(o) \subseteq T
      BY <2>5, <3>1 DEF Exact
    <3>3. ASSUME NEW p, NEW q, NEW r, <<p, q>> \in T, <<q, r>> \in T
          PROVE  <<p, r>> \in T
      <4>1. <<p, q>>[2] = <<q, r>>[1]
        OBVIOUS
      <4>2. <<(<<p, q>>[1]), (<<q, r>>[2])>> \in T
        BY <2>5, <3>3, <4>1 DEF IsTransitive
      <4> QED BY <4>2
    <3>4. ASSUME NEW k \in RealSteps(o), NEW x \in new.succ[k], x \in RealSteps(o)
          PROVE  <<k, x>> \in T
      <4>1. CASE x \in o.succ[k]
        BY <3>2, <3>4, <4>1 DEF RowPairs
      <4>2. CASE x \notin o.succ[k]
        <5>1. (k = i \/ i \in o.succ[k]) /\ (x = j \/ x \in o.succ[j])
          BY <2>2, <4>2
        <5>2. k = i \/ <<k, i>> \in T
          BY <3>2, <5>1 DEF RowPairs
        <5>3. x = j \/ <<j, x>> \in T
          BY <3>2, <3>4, <5>1 DEF RowPairs
        <5>4. <<k, j>> \in T
          BY <2>5, <3>3, <5>2
        <5> QED BY <3>3, <5>3, <5>4
      <4> QED BY <4>1, <4>2
    <3> QED BY <2>1, <3>4 DEF RowPairs
  <2> QED BY <2>3, <2>4, <2>5 DEF Exact, new
<1> QED BY <1>1, <1>2

LEMMA ExactInit == Init => Exact(ord, asserted)
<1> SUFFICES ASSUME Init PROVE Exact(ord, asserted)
  OBVIOUS
<1>1. RealSteps(ord) = {} /\ asserted = {}
  BY DEF Init, NewOrderings, RealSteps
<1> QED BY <1>1 DEF Exact, RowPairs

LEMMA ExactStep == IndInv /\ Exact(ord, asserted) /\ [Next]_vars => Exact(ord', asserted')
<1> SUFFICES ASSUME IndInv, Exact(ord, asserted), [Next]_vars PROVE Exact(ord', asserted')
  OBVIOUS
<1> USE DEF IndInv, StrictPartialOrder
<1>0. ASSUME UNCHANGED vars PROVE Exact(ord', asserted')
  BY <1>0 DEF vars
<1>1. ASSUME NEW i, NEW j, Closes(ord, i, j) PROVE Exact(ord', asserted')
  BY <1>1, FillExact DEF TypeOK, Closes
<1>2. ASSUME NEW c, AddStep(c) PROVE Exact(ord', asserted')
  <2>1. RowPairs(Grown) = RowPairs(ord)
    <3>1. \A k \in RealSteps(ord) : ord.succ[k] \subseteq RealSteps(ord)
      BY DEF TypeOK, IsOrderings
    <3>2. ord.high + 1 \notin RealSteps(ord)
      BY DEF TypeOK, IsOrderings, RealSteps
    <3> QED BY <3>1, <3>2, GrownOrder DEF RowPairs
  <2>2. Exact(Grown, asserted)
    BY <2>1 DEF Exact
  <2>3. CASE Grows
    BY <2>2, <2>3 DEF Grows
  <2>4. CASE Closes(Grown, ord.high + 1, c)
    BY <2>2, <2>4, GrownOrder, FillExact DEF Closes
  <2> QED BY <1>2, <2>3, <2>4, AddStepShape
<1>3. ASSUME NEW s, NEW c, ReuseStep(s, c) PROVE Exact(ord', asserted')
  BY <1>0, <1>1, <1>3, ReuseStepShape
<1>4. ASSUME NEW a, NEW b, NewOrdering(a, b) PROVE Exact(ord', asserted')
  BY <1>0, <1>1, <1>4, NewOrderingShape
<1> QED BY <1>0, <1>2, <1>3, <1>4 DEF Next

(* The rows are always the transitive closure of the constraints that were *)
(* accepted: fill_transitive neither misses a consequence nor invents one. *)
THEOREM ClosureStaysExact == Spec => []ClosureExact
<1>1. IndInv /\ Exact(ord, asserted) => ClosureExact
  BY RowPairsTransitive DEF Exact, ClosureExact, IndInv, TypeOK, StrictPartialOrder
<1>2. IndInv /\ Exact(ord, asserted) /\ [Next]_vars => Exact(ord, asserted)'
  BY ExactStep
<1> QED BY IndInvInit, IndInvStep, ExactInit, <1>1, <1>2, PTL DEF Spec

-----------------------------------------------------------------------------
\* A step only adds to the rows.
RowsGrow ==
  /\ RealSteps(ord) \subseteq RealSteps(ord')
  /\ \A k \in RealSteps(ord) : ord.succ[k] \subseteq ord'.succ[k]

LEMMA StepGrowsRows == IndInv /\ [Next]_vars => RowsGrow
<1> SUFFICES ASSUME IndInv, [Next]_vars PROVE RowsGrow
  OBVIOUS
<1>0. ASSUME UNCHANGED vars PROVE RowsGrow
  BY <1>0 DEF vars, RowsGrow
<1>1. ASSUME NEW i, NEW j, Closes(ord, i, j) PROVE RowsGrow
  BY <1>1, FillGrows, FillType DEF Closes, RowsGrow, RealSteps, IndInv, TypeOK
<1>2. ASSUME NEW c, AddStep(c) PROVE RowsGrow
  <2>1. CASE Grows
    BY <2>1, GrownOrder DEF Grows, RowsGrow
  <2>2. CASE Closes(Grown, ord.high + 1, c)
    <3>1. RealSteps(ord') = RealSteps(Grown)
      BY <2>2, GrownOrder, FillType DEF Closes, RealSteps
    <3>2. \A k \in RealSteps(ord) : Grown.succ[k] \subseteq ord'.succ[k]
      BY <2>2, GrownOrder, FillGrows DEF Closes
    <3> QED BY <3>1, <3>2, GrownOrder DEF RowsGrow
  <2> QED BY <1>2, <2>1, <2>2, AddStepShape DEF IndInv
<1>3. ASSUME NEW s, NEW c, ReuseStep(s, c) PROVE RowsGrow
  BY <1>0, <1>1, <1>3, ReuseStepShape DEF IndInv
<1>4. ASSUME NEW a, NEW b, NewOrdering(a, b) PROVE RowsGrow
  BY <1>0, <1>1, <1>4, NewOrderingShape DEF IndInv
<1> QED BY <1>0, <1>2, <1>3, <1>4 DEF Next

(* No refinement makes an order possible again that its parent had ruled   *)
(* out, for every number of steps.                                         *)
THEOREM OrderNeverForgets == Spec => NeverForgets
<1> DEFINE Keeps == \A a, b \in Ids(ord) :
                      ~ PossiblyBefore(ord, a, b) => ~ PossiblyBefore(ord', a, b)
<1>1. IndInv /\ [Next]_vars => Keeps
  <2> SUFFICES ASSUME IndInv, [Next]_vars, NEW a \in Ids(ord), NEW b \in Ids(ord),
                      PossiblyBefore(ord', a, b)
               PROVE  PossiblyBefore(ord, a, b)
    OBVIOUS
  <2>1. OrderedBefore(ord, b, a) => OrderedBefore(ord', b, a)
    BY StepGrowsRows DEF RowsGrow, OrderedBefore
  <2> QED BY <2>1 DEF PossiblyBefore
<1> QED BY IndInvInit, IndInvStep, <1>1, PTL DEF Spec, NeverForgets

-----------------------------------------------------------------------------
(* Execution orders.  A strict order has one: the steps with most successors *)
(* first, by number when they have as many, which is the order in which      *)
(* `schedule` visits them.                                                   *)

AheadOf(o, b) == {a \in RealSteps(o) : Ahead(o, a, b)}
Place(o, b) == Cardinality(AheadOf(o, b)) + 1
Line(o) == [n \in RealSteps(o) |-> CHOOSE a \in RealSteps(o) : Place(o, a) = n]

\* Ahead is a strict total order that keeps what the rows say.
LEMMA AheadOrders ==
  ASSUME NEW o, IsOrderings(o), IsStrictOrder(o)
  PROVE  /\ \A a, b \in RealSteps(o) :
              /\ ~ (Ahead(o, a, b) /\ Ahead(o, b, a))
              /\ a = b \/ Ahead(o, a, b) \/ Ahead(o, b, a)
              /\ b \in o.succ[a] => Ahead(o, a, b)
         /\ \A a, b, c \in RealSteps(o) : Ahead(o, a, b) /\ Ahead(o, b, c) => Ahead(o, a, c)
<1>1. RealSteps(o) \subseteq Nat /\ IsFiniteSet(RealSteps(o))
  <2>1. 1 \in Int /\ o.high \in Int /\ 1 .. o.high \subseteq Nat
    BY DEF IsOrderings
  <2>2. IsFiniteSet(1 .. o.high)
    BY <2>1, FS_Interval
  <2> QED BY <2>1, <2>2 DEF RealSteps
<1>2. \A a \in RealSteps(o) :
        o.succ[a] \subseteq RealSteps(o) /\ IsFiniteSet(o.succ[a]) /\ Cardinality(o.succ[a]) \in Nat
  <2>1. \A a \in RealSteps(o) : o.succ[a] \subseteq RealSteps(o)
    BY DEF IsOrderings
  <2> QED BY <1>1, <2>1, FS_Subset, FS_CardinalityType
<1>3. ASSUME NEW a \in RealSteps(o), NEW b \in RealSteps(o), b \in o.succ[a] PROVE Ahead(o, a, b)
  <2>1. o.succ[b] \subseteq o.succ[a] /\ o.succ[b] # o.succ[a]
    BY <1>3 DEF IsStrictOrder
  <2>2. /\ Cardinality(o.succ[b]) <= Cardinality(o.succ[a])
        /\ Cardinality(o.succ[a]) # Cardinality(o.succ[b])
    BY <1>2, <2>1, FS_Subset
  <2>3. Cardinality(o.succ[a]) > Cardinality(o.succ[b])
    BY <1>2, <2>2
  <2> QED BY <2>3 DEF Ahead
<1>4. ASSUME NEW a \in RealSteps(o), NEW b \in RealSteps(o)
      PROVE  /\ ~ (Ahead(o, a, b) /\ Ahead(o, b, a))
             /\ a = b \/ Ahead(o, a, b) \/ Ahead(o, b, a)
  <2>1. a \in Nat /\ b \in Nat /\ Cardinality(o.succ[a]) \in Nat /\ Cardinality(o.succ[b]) \in Nat
    BY <1>1, <1>2
  <2> QED BY <2>1 DEF Ahead
<1>5. ASSUME NEW a \in RealSteps(o), NEW b \in RealSteps(o), NEW c \in RealSteps(o),
             Ahead(o, a, b), Ahead(o, b, c)
      PROVE  Ahead(o, a, c)
  <2>1. /\ a \in Nat /\ b \in Nat /\ c \in Nat /\ Cardinality(o.succ[a]) \in Nat
        /\ Cardinality(o.succ[b]) \in Nat /\ Cardinality(o.succ[c]) \in Nat
    BY <1>1, <1>2
  <2> QED BY <1>5, <2>1 DEF Ahead
<1> QED BY <1>3, <1>4, <1>5

\* Counting the steps ahead gives each step a place of its own.
LEMMA PlacesAreOrdered ==
  ASSUME NEW o, IsOrderings(o), IsStrictOrder(o)
  PROVE  /\ \A a \in RealSteps(o) : Place(o, a) \in RealSteps(o)
         /\ \A a, b \in RealSteps(o) : Ahead(o, a, b) => Place(o, a) < Place(o, b)
         /\ \A n \in RealSteps(o) : \E a \in RealSteps(o) : Place(o, a) = n
<1>1. o.high \in Nat /\ IsFiniteSet(RealSteps(o)) /\ Cardinality(RealSteps(o)) = o.high
  <2>1. o.high \in Nat
    BY DEF IsOrderings
  <2>2. IsFiniteSet(1 .. o.high) /\ Cardinality(1 .. o.high) = IF 1 > o.high THEN 0 ELSE o.high - 1 + 1
    BY <2>1, FS_Interval
  <2> QED BY <2>1, <2>2 DEF RealSteps
<1>2. \A a \in RealSteps(o) :
        /\ IsFiniteSet(AheadOf(o, a)) /\ Cardinality(AheadOf(o, a)) \in Nat
        /\ a \notin AheadOf(o, a)
  <2>1. \A a \in RealSteps(o) : AheadOf(o, a) \subseteq RealSteps(o) /\ a \notin AheadOf(o, a)
    BY AheadOrders DEF AheadOf
  <2> QED BY <1>1, <2>1, FS_Subset, FS_CardinalityType
<1>3. ASSUME NEW a \in RealSteps(o) PROVE Place(o, a) \in RealSteps(o)
  <2>1. AheadOf(o, a) \subseteq RealSteps(o) /\ AheadOf(o, a) # RealSteps(o)
    BY <1>2 DEF AheadOf
  <2>2. Cardinality(AheadOf(o, a)) <= o.high /\ Cardinality(AheadOf(o, a)) # o.high
    BY <1>1, <2>1, FS_Subset
  <2> QED BY <1>1, <1>2, <2>2 DEF Place, RealSteps
<1>4. ASSUME NEW a \in RealSteps(o), NEW b \in RealSteps(o), Ahead(o, a, b)
      PROVE  Place(o, a) < Place(o, b)
  <2>1. AheadOf(o, a) \subseteq AheadOf(o, b) /\ a \in AheadOf(o, b) /\ a \notin AheadOf(o, a)
    BY <1>2, <1>4, AheadOrders DEF AheadOf
  <2>2. /\ Cardinality(AheadOf(o, a)) <= Cardinality(AheadOf(o, b))
        /\ Cardinality(AheadOf(o, b)) # Cardinality(AheadOf(o, a))
    BY <1>2, <2>1, FS_Subset
  <2> QED BY <1>2, <2>2 DEF Place
<1>5. \A n \in RealSteps(o) : \E a \in RealSteps(o) : Place(o, a) = n
  <2> DEFINE f == [a \in RealSteps(o) |-> Place(o, a)]
  <2>1. f \in [RealSteps(o) -> RealSteps(o)]
    BY <1>3
  <2>2. \A a, b \in RealSteps(o) : f[a] = f[b] => a = b
    <3> SUFFICES ASSUME NEW a \in RealSteps(o), NEW b \in RealSteps(o), f[a] = f[b], a # b
                 PROVE  FALSE
      OBVIOUS
    <3>1. Place(o, a) < Place(o, b) \/ Place(o, b) < Place(o, a)
      BY <1>4, AheadOrders
    <3>2. Place(o, a) \in Nat /\ Place(o, a) = Place(o, b)
      BY <1>3 DEF RealSteps
    <3> QED BY <3>1, <3>2
  <2> HIDE DEF f
  <2>3. f \in Injection(RealSteps(o), RealSteps(o))
    BY <2>1, <2>2 DEF Injection, IsInjective
  <2>4. f \in Surjection(RealSteps(o), RealSteps(o))
    BY <1>1, <2>3, FS_Injection
  <2> QED BY <2>4 DEF Surjection, f
<1> QED BY <1>3, <1>4, <1>5

\* An order at least as strict as the plan's gives an execution order of the
\* plan in which whatever it puts first comes first.
LEMMA LineIsLinearization ==
  ASSUME TypeOK, NEW o, IsOrderings(o), IsStrictOrder(o), o.high = ord.high,
         \A k \in RealSteps(ord) : ord.succ[k] \subseteq o.succ[k]
  PROVE  /\ Line(o) \in Linearizations
         /\ \A a \in RealSteps(o) : \A b \in o.succ[a] : ComesBefore(Line(o), a, b)
<1> DEFINE p == Line(o)
           S == RealSteps(o)
<1>1. /\ RealSteps(ord) = S /\ S = 1 .. o.high /\ o.high \in Nat
      /\ \A a \in S : o.succ[a] \subseteq S
  BY DEF RealSteps, IsOrderings
<1>2. \A n \in S : p[n] \in S /\ Place(o, p[n]) = n
  BY PlacesAreOrdered DEF Line
<1>3. p \in [S -> S]
  BY <1>2 DEF Line
<1> HIDE DEF p
<1>4. \A m, n \in S : m # n => p[m] # p[n]
  BY <1>2
<1>5. Cardinality(S) = o.high
  BY <1>1, FS_Interval
<1>6. Len(p) = o.high
  BY <1>1, <1>3
<1>7. p \in SetToSeqs(RealSteps(ord))
  BY <1>1, <1>3, <1>4, <1>5 DEF SetToSeqs
<1>8. ASSUME NEW m \in S, NEW n \in S, p[n] \in o.succ[p[m]] PROVE m < n
  <2>1. Ahead(o, p[m], p[n])
    BY <1>2, <1>8, AheadOrders
  <2>2. Place(o, p[m]) < Place(o, p[n])
    BY <1>2, <2>1, PlacesAreOrdered
  <2> QED BY <1>2, <2>2
<1>9. p \in Linearizations
  BY <1>1, <1>2, <1>6, <1>7, <1>8 DEF Linearizations, OrderedBefore
<1>10. ASSUME NEW a \in S, NEW b \in o.succ[a] PROVE ComesBefore(p, a, b)
  <2>1. b \in S
    BY <1>1
  <2>2. /\ Place(o, a) \in S /\ Place(o, b) \in S
    BY <2>1, PlacesAreOrdered
  <2>3. \A c \in S : p[Place(o, c)] = c
    <3> SUFFICES ASSUME NEW c \in S PROVE p[Place(o, c)] = c
      OBVIOUS
    <3>1. Place(o, c) \in S /\ Place(o, p[Place(o, c)]) = Place(o, c) /\ p[Place(o, c)] \in S
      BY <1>2, PlacesAreOrdered
    <3>2. \A d \in S : d # c => Place(o, d) # Place(o, c)
      <4> SUFFICES ASSUME NEW d \in S, d # c PROVE Place(o, d) # Place(o, c)
        OBVIOUS
      <4>1. Place(o, d) < Place(o, c) \/ Place(o, c) < Place(o, d)
        BY AheadOrders, PlacesAreOrdered
      <4>2. Place(o, d) \in Nat /\ Place(o, c) \in Nat
        BY <1>1, PlacesAreOrdered
      <4> QED BY <4>1, <4>2
    <3> QED BY <3>1, <3>2
  <2>4. Place(o, a) < Place(o, b)
    BY <2>1, AheadOrders, PlacesAreOrdered
  <2> QED BY <1>1, <1>6, <2>1, <2>2, <2>3, <2>4 DEF ComesBefore
<1> QED BY <1>9, <1>10 DEF p

\* What the initial step and the goal come before and after.
LEMMA EndsOfPlan ==
  ASSUME TypeOK, NEW p \in Linearizations, NEW a \in Ids(ord), NEW b \in Ids(ord)
  PROVE  /\ a = b => ~ ComesBefore(p, a, b)
         /\ a = GoalId \/ b = InitId => ~ ComesBefore(p, a, b)
         /\ a # b /\ (a = InitId \/ b = GoalId) => ComesBefore(p, a, b)
         /\ OrderedBefore(ord, b, a) => ~ ComesBefore(p, a, b)
<1>1. /\ ord.high \in Nat /\ ord.high <= MaxSteps /\ MaxSteps \in Nat
      /\ RealSteps(ord) = 1 .. ord.high
      /\ \A k \in RealSteps(ord) : ord.succ[k] \subseteq RealSteps(ord)
  BY MaxStepsAssumption DEF TypeOK, IsOrderings, RealSteps
<1>2. GoalId \notin RealSteps(ord) /\ InitId \notin RealSteps(ord) /\ InitId # GoalId
  BY <1>1 DEF GoalId, InitId
<1>3. /\ p \in SetToSeqs(RealSteps(ord))
      /\ \A m, n \in 1 .. Len(p) : OrderedBefore(ord, p[m], p[n]) => m < n
  BY DEF Linearizations
<1>4. Cardinality(RealSteps(ord)) = ord.high
  BY <1>1, FS_Interval
<1>5. /\ p \in [1 .. ord.high -> RealSteps(ord)]
      /\ \A m, n \in 1 .. ord.high : m # n => p[m] # p[n]
  BY <1>3, <1>4 DEF SetToSeqs
<1>6. Len(p) = ord.high
  BY <1>1, <1>5
<1>7. ASSUME a = b PROVE ~ ComesBefore(p, a, b)
  BY <1>1, <1>5, <1>6, <1>7 DEF ComesBefore
<1>8. ASSUME a = GoalId \/ b = InitId PROVE ~ ComesBefore(p, a, b)
  <2>1. \A m \in 1 .. Len(p) : p[m] # GoalId /\ p[m] # InitId
    BY <1>2, <1>5, <1>6
  <2> QED BY <1>2, <1>8, <2>1 DEF ComesBefore
<1>9. ASSUME OrderedBefore(ord, b, a), ComesBefore(p, a, b) PROVE FALSE
  <2>1. b \in RealSteps(ord) /\ a \in RealSteps(ord)
    BY <1>1, <1>9 DEF OrderedBefore
  <2>2. PICK m \in 1 .. Len(p), n \in 1 .. Len(p) : m < n /\ p[m] = a /\ p[n] = b
    BY <1>2, <1>9, <2>1 DEF ComesBefore
  <2>3. n < m
    BY <1>3, <1>9, <2>2
  <2> QED BY <1>1, <1>6, <2>2, <2>3
<1>10. ASSUME a # b, a = InitId \/ b = GoalId PROVE ComesBefore(p, a, b)
  BY <1>10 DEF ComesBefore
<1> QED BY <1>7, <1>8, <1>9, <1>10

\* possibly_before answers whether there is such an execution order.
LEMMA BeforeIsWitnessed ==
  ASSUME IndInv, NEW a \in Ids(ord), NEW b \in Ids(ord)
  PROVE  PossiblyBefore(ord, a, b) <=> \E p \in Linearizations : ComesBefore(p, a, b)
<1>1. TypeOK /\ IsOrderings(ord) /\ IsStrictOrder(ord)
  BY DEF IndInv, TypeOK, StrictPartialOrder
<1>2. \E p \in Linearizations : TRUE
  BY <1>1, LineIsLinearization
<1>3. CASE a = b
  BY <1>1, <1>3, EndsOfPlan DEF PossiblyBefore
<1>4. CASE a # b /\ (a = InitId \/ b = GoalId)
  BY <1>1, <1>2, <1>4, EndsOfPlan DEF PossiblyBefore
<1>5. CASE a # b /\ ~ (a = InitId \/ b = GoalId) /\ (a = GoalId \/ b = InitId)
  BY <1>1, <1>5, EndsOfPlan DEF PossiblyBefore
<1>6. CASE a # b /\ a \in RealSteps(ord) /\ b \in RealSteps(ord)
  <2>1. CASE OrderedBefore(ord, b, a)
    <3>1. a \notin {InitId, GoalId} /\ b \notin {InitId, GoalId}
      BY <1>1, <1>6, MaxStepsAssumption DEF TypeOK, IsOrderings, RealSteps, InitId, GoalId
    <3> QED BY <1>1, <2>1, <3>1, EndsOfPlan DEF PossiblyBefore
  <2>2. CASE ~ OrderedBefore(ord, b, a)
    <3>1. a \notin {InitId, GoalId} /\ b \notin {InitId, GoalId}
      BY <1>1, <1>6, MaxStepsAssumption DEF TypeOK, IsOrderings, RealSteps, InitId, GoalId
    <3>2. PossiblyBefore(ord, a, b)
      BY <1>6, <2>2, <3>1 DEF PossiblyBefore
    <3>3. a \notin ord.succ[b]
      BY <1>6, <2>2 DEF OrderedBefore
    <3> DEFINE o == FillTransitive(ord, a, b)
    <3>4. /\ IsOrderings(o) /\ IsStrictOrder(o) /\ o.high = ord.high
          /\ \A k \in RealSteps(ord) : ord.succ[k] \subseteq o.succ[k]
          /\ b \in o.succ[a]
      BY <1>1, <1>6, <3>3, FillType, FillOrder, FillKeeps
    <3> HIDE DEF o
    <3>5. a \in RealSteps(o)
      BY <1>6, <3>4 DEF RealSteps
    <3>6. Line(o) \in Linearizations /\ ComesBefore(Line(o), a, b)
      BY <1>1, <3>4, <3>5, LineIsLinearization
    <3> QED BY <3>2, <3>6
  <2> QED BY <2>1, <2>2
<1> QED BY <1>3, <1>4, <1>5, <1>6 DEF Ids

(* possibly_before and possibly_after, read off the closure alone, answer   *)
(* exactly whether some execution order of the plan puts the one step first: *)
(* the order whose steps have most successors first, after the pair itself   *)
(* has been closed in, is one.                                               *)
THEOREM PossibleIsWitnessed == Spec => []PossiblyMeansSomeLinearization
<1>1. IndInv => PossiblyMeansSomeLinearization
  <2> SUFFICES ASSUME IndInv, NEW a \in Ids(ord), NEW b \in Ids(ord)
               PROVE  /\ PossiblyBefore(ord, a, b) <=>
                           \E p \in Linearizations : ComesBefore(p, a, b)
                      /\ PossiblyAfter(ord, a, b) <=>
                           \E p \in Linearizations : ComesBefore(p, b, a)
    BY DEF PossiblyMeansSomeLinearization
  <2>1. InitId # GoalId
    BY MaxStepsAssumption DEF InitId, GoalId
  <2>2. PossiblyAfter(ord, a, b) <=> PossiblyBefore(ord, b, a)
    BY <2>1 DEF PossiblyAfter, PossiblyBefore
  <2> QED BY <2>2, BeforeIsWitnessed
<1> QED BY IndInvInit, IndInvStep, <1>1, PTL DEF Spec

-----------------------------------------------------------------------------
(* The schedule.                                                            *)

\* w lists the steps of o in the order of the sort key.
Sorts(o, w) ==
  /\ w \in SetToSeqs(RealSteps(o))
  /\ \A m, n \in 1 .. Len(w) : m < n => Ahead(o, w[m], w[n])

LEMMA LineSorts ==
  ASSUME NEW o, IsOrderings(o), IsStrictOrder(o)
  PROVE  Sorts(o, Line(o))
<1> DEFINE p == Line(o)
           S == RealSteps(o)
<1>1. S = 1 .. o.high /\ o.high \in Nat /\ Cardinality(S) = o.high
  <2>1. S = 1 .. o.high /\ o.high \in Nat /\ o.high \in Int /\ 1 \in Int
    BY DEF IsOrderings, RealSteps
  <2>2. Cardinality(1 .. o.high) = IF 1 > o.high THEN 0 ELSE o.high - 1 + 1
    BY <2>1, FS_Interval
  <2> QED BY <2>1, <2>2
<1>2. \A n \in S : p[n] \in S /\ Place(o, p[n]) = n
  BY PlacesAreOrdered DEF Line
<1>3. p \in [S -> S]
  BY <1>2 DEF Line
<1> HIDE DEF p
<1>4. \A m, n \in S : m # n => p[m] # p[n]
  BY <1>2
<1>5. Len(p) = o.high
  BY <1>1, <1>3
<1>6. p \in SetToSeqs(RealSteps(o))
  BY <1>1, <1>3, <1>4 DEF SetToSeqs
<1>7. ASSUME NEW m \in S, NEW n \in S, m < n PROVE Ahead(o, p[m], p[n])
  <2>1. p[m] \in S /\ p[n] \in S /\ p[m] # p[n] /\ m \in Nat /\ n \in Nat
    BY <1>1, <1>2, <1>4, <1>7
  <2>2. ~ (Place(o, p[n]) < Place(o, p[m]))
    BY <1>2, <1>7, <2>1
  <2>3. ~ Ahead(o, p[n], p[m])
    BY <2>1, <2>2, PlacesAreOrdered
  <2> QED BY <2>1, <2>3, AheadOrders
<1> QED BY <1>1, <1>5, <1>6, <1>7 DEF Sorts, p

\* Every step has its turn, after the steps it is ordered after.
LEMMA ScheduleOrderVisits ==
  ASSUME NEW o, IsOrderings(o), IsStrictOrder(o)
  PROVE  LET w == ScheduleOrder(o) IN
         /\ \A n \in RealSteps(o) : w[n] \in RealSteps(o)
         /\ \A a \in RealSteps(o) : \E n \in RealSteps(o) : w[n] = a
         /\ \A m, n \in RealSteps(o) : OrderedBefore(o, w[m], w[n]) => m < n
<1> DEFINE w == ScheduleOrder(o)
           S == RealSteps(o)
<1>1. Sorts(o, w)
  <2>1. \E v : Sorts(o, v)
    BY LineSorts
  <2>2. w = CHOOSE v \in SetToSeqs(RealSteps(o)) :
              \A m, n \in 1 .. Len(v) : m < n => Ahead(o, v[m], v[n])
    BY DEF ScheduleOrder
  <2> HIDE DEF w
  <2> QED BY <2>1, <2>2 DEF Sorts
<1> HIDE DEF w
<1>2. S = 1 .. o.high /\ o.high \in Nat /\ IsFiniteSet(S) /\ Cardinality(S) = o.high
  <2>1. S = 1 .. o.high /\ o.high \in Nat /\ o.high \in Int /\ 1 \in Int
    BY DEF IsOrderings, RealSteps
  <2>2. /\ Cardinality(1 .. o.high) = IF 1 > o.high THEN 0 ELSE o.high - 1 + 1
        /\ IsFiniteSet(1 .. o.high)
    BY <2>1, FS_Interval
  <2> QED BY <2>1, <2>2
<1>3. w \in [S -> S] /\ (\A m, n \in S : m # n => w[m] # w[n]) /\ Len(w) = o.high
  <2>1. w \in [1 .. o.high -> S] /\ \A m, n \in 1 .. o.high : m # n => w[m] # w[n]
    BY <1>1, <1>2 DEF Sorts, SetToSeqs
  <2> QED BY <1>2, <2>1
<1>4. w \in Surjection(S, S)
  <2>1. w \in Injection(S, S)
    BY <1>3 DEF Injection, IsInjective
  <2> QED BY <1>2, <2>1, FS_Injection
<1>5. ASSUME NEW m \in S, NEW n \in S, OrderedBefore(o, w[m], w[n]) PROVE m < n
  <2>1. w[m] # w[n] /\ w[n] \in o.succ[w[m]]
    BY <1>5 DEF OrderedBefore
  <2>2. Ahead(o, w[m], w[n]) /\ ~ Ahead(o, w[n], w[m])
    BY <1>3, <2>1, AheadOrders
  <2>3. m # n /\ ~ (n < m) /\ m \in Nat /\ n \in Nat
    BY <1>1, <1>2, <1>3, <2>1, <2>2 DEF Sorts
  <2> QED BY <2>3
<1> QED BY <1>3, <1>4, <1>5 DEF Surjection, w

\* What is known after each visit, up to number m.
Visits(o, w, f, m) ==
  f = [k \in 0 .. m |-> IF k = 0 THEN Unscheduled(o) ELSE Visit(o, f[k - 1], w[k])]

LEMMA VisitsExist ==
  ASSUME NEW o, NEW w, NEW n \in Nat
  PROVE  \E f : Visits(o, w, f, n)
<1> DEFINE T == {m \in Nat : ~ \E f : Visits(o, w, f, m)}
<1>1. CASE T = {}
  BY <1>1
<1>2. CASE T # {}
  <2>1. PICK m \in T : \A k \in T : m <= k
    BY <1>2, LeastNatural
  <2>2. CASE m = 0
    <3> DEFINE f == [k \in 0 .. 0 |-> Unscheduled(o)]
    <3>1. f = [k \in 0 .. 0 |-> IF k = 0 THEN Unscheduled(o) ELSE Visit(o, f[k - 1], w[k])]
      OBVIOUS
    <3>2. Visits(o, w, f, 0)
      BY <3>1 DEF Visits
    <3> QED BY <2>1, <2>2, <3>2
  <2>3. CASE m # 0
    <3>1. m \in Nat /\ m - 1 \in Nat /\ m - 1 \notin T
      BY <2>1, <2>3
    <3>2. PICK old : Visits(o, w, old, m - 1)
      BY <3>1
    <3> DEFINE f == [k \in 0 .. m |-> IF k = 0 THEN Unscheduled(o)
                                      ELSE Visit(o, old[k - 1], w[k])]
    <3>3. \A k \in 0 .. m - 1 : f[k] = old[k]
      BY <3>1, <3>2 DEF Visits
    <3>4. \A k \in 0 .. m : k # 0 => k - 1 \in 0 .. m - 1
      BY <3>1
    <3>5. Visits(o, w, f, m)
      BY <3>3, <3>4 DEF Visits
    <3> QED BY <2>1, <3>5
  <2> QED BY <2>2, <2>3
<1> QED BY <1>1, <1>2

\* Schedule is what is known after the last visit.
LEMMA ScheduleRecursion ==
  ASSUME NEW o, o.high \in Nat
  PROVE  \E f : Visits(o, ScheduleOrder(o), f, o.high) /\ Schedule(o) = f[o.high]
<1> DEFINE f == CHOOSE f : Visits(o, ScheduleOrder(o), f, o.high)
<1>1. \E g : Visits(o, ScheduleOrder(o), g, o.high)
  BY VisitsExist
<1>2. Visits(o, ScheduleOrder(o), f, o.high)
  BY <1>1
<1>3. Schedule(o) = f[o.high]
  BY DEF Schedule, Visits
<1> HIDE DEF f
<1> QED BY <1>2, <1>3

\* After the first m visits a step starts one after the latest visited step
\* that it is ordered after.
Known(o, w, m, acc) ==
  LET At(k) == acc.start[w[k]] IN
  /\ acc = [start |-> acc.start, makespan |-> acc.makespan]
  /\ acc.start \in [RealSteps(o) -> Nat] /\ acc.makespan \in Nat
  /\ \A n \in RealSteps(o) :
       /\ acc.start[n] >= 1
       /\ \A k \in 1 .. m : OrderedBefore(o, w[k], n) => At(k) + 1 <= acc.start[n]
       /\ \/ acc.start[n] = 1
          \/ \E k \in 1 .. m : OrderedBefore(o, w[k], n) /\ acc.start[n] = At(k) + 1
  /\ \A k \in 1 .. m : At(k) <= acc.makespan
  /\ \/ m = 0 /\ acc.makespan = 0
     \/ \E k \in 1 .. m : At(k) = acc.makespan

LEMMA VisitKeeps ==
  ASSUME NEW o, IsOrderings(o), IsStrictOrder(o), NEW m \in Nat, m + 1 \in RealSteps(o),
         NEW acc, Known(o, ScheduleOrder(o), m, acc)
  PROVE  Known(o, ScheduleOrder(o), m + 1, Visit(o, acc, ScheduleOrder(o)[m + 1]))
<1> DEFINE w == ScheduleOrder(o)
           k == w[m + 1]
           new == Visit(o, acc, k)
           S == RealSteps(o)
<1>1. /\ \A n \in S : w[n] \in S
      /\ \A i, j \in S : OrderedBefore(o, w[i], w[j]) => i < j
  BY ScheduleOrderVisits
<1>2. k \in S /\ 1 .. m + 1 \subseteq S /\ 1 .. m + 1 = (1 .. m) \cup {m + 1}
  BY <1>1 DEF RealSteps, IsOrderings
<1> HIDE DEF w
<1>3. /\ acc.start \in [S -> Nat] /\ acc.makespan \in Nat
      /\ \A n \in S : acc.start[n] \in Nat /\ acc.start[n] >= 1
  BY DEF Known, w
<1>4. /\ new.start = [n \in S |-> IF OrderedBefore(o, k, n) /\ acc.start[n] < acc.start[k] + 1
                                  THEN acc.start[k] + 1 ELSE acc.start[n]]
      /\ new.makespan = IF acc.start[k] > acc.makespan THEN acc.start[k] ELSE acc.makespan
      /\ new = [start |-> new.start, makespan |-> new.makespan]
  BY DEF Visit, PushSuccessors
<1> HIDE DEF new
\* What was visited keeps its start.
<1>5. \A j \in 1 .. m + 1 : new.start[w[j]] = acc.start[w[j]]
  <2> SUFFICES ASSUME NEW j \in 1 .. m + 1 PROVE new.start[w[j]] = acc.start[w[j]]
    OBVIOUS
  <2>1. ~ OrderedBefore(o, k, w[j])
    BY <1>1, <1>2
  <2> QED BY <1>1, <1>2, <1>4, <2>1
<1>6. new.start \in [S -> Nat] /\ new.makespan \in Nat
  BY <1>2, <1>3, <1>4
<1>7. ASSUME NEW n \in S
      PROVE  /\ new.start[n] >= 1
             /\ \A j \in 1 .. m + 1 :
                  OrderedBefore(o, w[j], n) => new.start[w[j]] + 1 <= new.start[n]
             /\ \/ new.start[n] = 1
                \/ \E j \in 1 .. m + 1 :
                     OrderedBefore(o, w[j], n) /\ new.start[n] = new.start[w[j]] + 1
  <2>1. /\ acc.start[n] \in Nat /\ acc.start[n] >= 1 /\ acc.start[k] \in Nat /\ acc.start[k] >= 1
        /\ \A j \in 1 .. m : acc.start[w[j]] \in Nat
    BY <1>1, <1>2, <1>3
  <2>2. /\ \A j \in 1 .. m : OrderedBefore(o, w[j], n) => acc.start[w[j]] + 1 <= acc.start[n]
        /\ \/ acc.start[n] = 1
           \/ \E j \in 1 .. m : OrderedBefore(o, w[j], n) /\ acc.start[n] = acc.start[w[j]] + 1
    BY DEF Known, w
  <2>3. CASE OrderedBefore(o, k, n) /\ acc.start[n] < acc.start[k] + 1
    <3>1. new.start[n] = acc.start[k] + 1 /\ new.start[k] = acc.start[k]
      BY <1>2, <1>4, <1>5, <2>3
    <3>2. ASSUME NEW j \in 1 .. m, OrderedBefore(o, w[j], n)
          PROVE  new.start[w[j]] + 1 <= new.start[n]
      BY <1>2, <1>5, <2>1, <2>2, <2>3, <3>1, <3>2
    <3> QED BY <1>2, <2>1, <2>3, <3>1, <3>2
  <2>4. CASE ~ (OrderedBefore(o, k, n) /\ acc.start[n] < acc.start[k] + 1)
    <3>1. new.start[n] = acc.start[n]
      BY <1>4, <2>4
    <3>2. OrderedBefore(o, k, n) => new.start[k] + 1 <= new.start[n]
      BY <1>2, <1>5, <2>1, <2>4, <3>1
    <3>3. \A j \in 1 .. m : new.start[w[j]] = acc.start[w[j]]
      BY <1>2, <1>5
    <3> QED BY <1>2, <2>1, <2>2, <3>1, <3>2, <3>3
  <2> QED BY <2>3, <2>4
<1>8. /\ \A j \in 1 .. m + 1 : new.start[w[j]] <= new.makespan
      /\ \E j \in 1 .. m + 1 : new.start[w[j]] = new.makespan
  <2>1. /\ \A j \in 1 .. m : acc.start[w[j]] <= acc.makespan
        /\ \/ m = 0 /\ acc.makespan = 0
           \/ \E j \in 1 .. m : acc.start[w[j]] = acc.makespan
    BY DEF Known, w
  <2>2. /\ \A j \in 1 .. m : new.start[w[j]] = acc.start[w[j]] /\ acc.start[w[j]] \in Nat
        /\ new.start[k] = acc.start[k] /\ acc.start[k] \in Nat /\ acc.start[k] >= 1
    BY <1>1, <1>2, <1>3, <1>5
  <2>3. CASE acc.start[k] > acc.makespan
    BY <1>2, <1>3, <1>4, <2>1, <2>2, <2>3
  <2>4. CASE ~ (acc.start[k] > acc.makespan)
    <3>1. m # 0
      BY <1>3, <2>1, <2>2, <2>4
    <3> QED BY <1>2, <1>3, <1>4, <2>1, <2>2, <2>4, <3>1
  <2> QED BY <2>3, <2>4
<1>9. Known(o, w, m + 1, new)
  BY <1>4, <1>6, <1>7, <1>8 DEF Known
<1> QED BY <1>9 DEF w, new

LEMMA AllVisited ==
  ASSUME NEW o, IsOrderings(o), IsStrictOrder(o)
  PROVE  Known(o, ScheduleOrder(o), o.high, Schedule(o))
<1>1. o.high \in Nat
  BY DEF IsOrderings
<1>2. PICK f : Visits(o, ScheduleOrder(o), f, o.high) /\ Schedule(o) = f[o.high]
  BY <1>1, ScheduleRecursion
<1>3. f[0] = Unscheduled(o) /\ \A k \in 1 .. o.high : f[k] = Visit(o, f[k - 1], ScheduleOrder(o)[k])
  BY <1>1, <1>2 DEF Visits
<1> DEFINE D == {m \in 0 .. o.high : ~ Known(o, ScheduleOrder(o), m, f[m])}
<1>4. CASE D = {}
  BY <1>1, <1>2, <1>4
<1>5. CASE D # {}
  <2>1. PICK m \in D : \A k \in D : m <= k
    <3>1. D \subseteq Nat
      BY <1>1
    <3> HIDE DEF D
    <3> QED BY <1>5, <3>1, LeastNatural
  <2>2. m # 0
    <3>1. Known(o, ScheduleOrder(o), 0, f[0])
      BY <1>3 DEF Known, Unscheduled
    <3> QED BY <2>1, <3>1
  <2> DEFINE i == m - 1
  <2>3. i \in Nat /\ i + 1 = m /\ i \in 0 .. o.high /\ i + 1 \in RealSteps(o) /\ m \in 1 .. o.high
        /\ ~ (m <= i)
    BY <1>1, <2>1, <2>2 DEF RealSteps
  <2>4. Known(o, ScheduleOrder(o), i, f[i])
    BY <2>1, <2>3
  <2>5. f[i + 1] = Visit(o, f[i], ScheduleOrder(o)[i + 1])
    BY <1>3, <2>3
  <2> HIDE DEF i
  <2>6. Known(o, ScheduleOrder(o), i + 1, f[i + 1])
    BY <2>3, <2>4, <2>5, VisitKeeps
  <2> QED BY <2>1, <2>3, <2>6
<1> QED BY <1>4, <1>5

(* schedule starts every step one after its latest predecessor, and answers *)
(* the latest start, although it visits each step once and in an order read *)
(* off the row sizes.                                                       *)
THEOREM ScheduleStaysLongestChain == Spec => []ScheduleIsLongestChain
<1>1. IndInv => ScheduleIsLongestChain
  <2> SUFFICES ASSUME IndInv PROVE ScheduleIsLongestChain
    OBVIOUS
  <2> DEFINE s == Schedule(ord)
             S == RealSteps(ord)
             latest(K) == IF K = {} THEN 0 ELSE CHOOSE x \in {s.start[k] : k \in K} :
                                                  \A k \in K : s.start[k] <= x
             w == ScheduleOrder(ord)
  <2>1. IsOrderings(ord) /\ IsStrictOrder(ord) /\ ord.high \in Nat /\ S = 1 .. ord.high
    BY DEF IndInv, TypeOK, StrictPartialOrder, IsOrderings, RealSteps
  <2>2. Known(ord, w, ord.high, s)
    BY <2>1, AllVisited
  <2>3. /\ \A n \in S : w[n] \in S
        /\ \A a \in S : \E n \in S : w[n] = a
    BY <2>1, ScheduleOrderVisits
  <2> HIDE DEF s, w
  <2>4. \A n \in S : s.start[n] \in Nat /\ s.start[n] >= 1
    BY <2>2 DEF Known
  <2>5. ASSUME NEW K \in SUBSET S, NEW x \in K, \A k \in K : s.start[k] <= s.start[x]
        PROVE  latest(K) = s.start[x]
    <3>1. s.start[x] \in {s.start[k] : k \in K} /\ K # {}
      OBVIOUS
    <3>2. \A y \in {s.start[k] : k \in K} :
            (\A k \in K : s.start[k] <= y) => y = s.start[x]
      BY <2>4, <2>5
    <3> QED BY <2>5, <3>1, <3>2
  <2> HIDE DEF latest
  <2>6. ASSUME NEW n \in S
        PROVE  s.start[n] = 1 + latest({k \in S : OrderedBefore(ord, k, n)})
    <3> DEFINE K == {k \in S : OrderedBefore(ord, k, n)}
    <3>1. \A k \in K : s.start[k] + 1 <= s.start[n]
      <4> SUFFICES ASSUME NEW k \in K PROVE s.start[k] + 1 <= s.start[n]
        OBVIOUS
      <4>1. PICK j \in S : w[j] = k
        BY <2>3
      <4> QED BY <2>1, <2>2, <4>1 DEF Known
    <3>2. CASE K = {}
      <4>1. s.start[n] = 1
        BY <2>1, <2>2, <2>3, <3>2 DEF Known
      <4> QED BY <3>2, <4>1 DEF latest
    <3>3. CASE K # {}
      <4>1. PICK k \in K : TRUE
        BY <3>3
      <4>2. s.start[n] # 1
        BY <2>4, <3>1, <4>1
      <4>3. PICK j \in S : OrderedBefore(ord, w[j], n) /\ s.start[n] = s.start[w[j]] + 1
        BY <2>1, <2>2, <4>2 DEF Known
      <4>4. w[j] \in K /\ \A i \in K : s.start[i] <= s.start[w[j]]
        BY <2>3, <2>4, <3>1, <4>3
      <4>5. latest(K) = s.start[w[j]]
        BY <2>5, <4>4
      <4> QED BY <2>3, <2>4, <4>3, <4>5
    <3> QED BY <3>2, <3>3
  <2>7. s.makespan = latest(S)
    <3>1. /\ \A k \in S : s.start[k] <= s.makespan
          /\ (S = {} /\ s.makespan = 0) \/ \E k \in S : s.start[k] = s.makespan
      <4>1. \A k \in S : s.start[k] <= s.makespan
        <5> SUFFICES ASSUME NEW k \in S PROVE s.start[k] <= s.makespan
          OBVIOUS
        <5>1. PICK j \in S : w[j] = k
          BY <2>3
        <5> QED BY <2>1, <2>2, <5>1 DEF Known
      <4>2. (ord.high = 0 /\ s.makespan = 0) \/ \E k \in 1 .. ord.high : s.start[w[k]] = s.makespan
        BY <2>2 DEF Known
      <4>3. (S = {} /\ s.makespan = 0) \/ \E k \in S : s.start[k] = s.makespan
        <5>1. CASE ord.high = 0 /\ s.makespan = 0
          BY <2>1, <5>1
        <5>2. CASE \E k \in 1 .. ord.high : s.start[w[k]] = s.makespan
          <6>1. PICK k \in S : s.start[w[k]] = s.makespan
            BY <2>1, <5>2
          <6> QED BY <2>3, <6>1
        <5> QED BY <4>2, <5>1, <5>2
      <4> QED BY <4>1, <4>3
    <3>2. CASE S = {}
      BY <3>1, <3>2 DEF latest
    <3>3. CASE S # {}
      <4>1. PICK k \in S : s.start[k] = s.makespan
        BY <3>1, <3>3
      <4> QED BY <2>5, <3>1, <4>1
    <3> QED BY <3>2, <3>3
  <2> QED BY <2>6, <2>7 DEF ScheduleIsLongestChain, latest, s
<1> QED BY IndInvInit, IndInvStep, <1>1, PTL DEF Spec

(***************************************************************************)
(* The rows as they are stored.  Step k is at block (k - 1) \div BlockSize, *)
(* place (k - 1) % BlockSize; all the blocks but the last are full, so the *)
(* rows 0 .. n - 1 are exactly the places the blocks have.                 *)
(***************************************************************************)
\* A row is the set of its 1 bits.
BitRow == SUBSET Nat

\* The division by the block size.
LEMMA Placed ==
  ASSUME NEW i \in Nat
  PROVE  /\ i \div BlockSize \in Nat
         /\ i % BlockSize \in 0 .. BlockSize - 1
         /\ i = (i \div BlockSize) * BlockSize + (i % BlockSize)
  BY RowTableAssumption

\* Products of block counts.
LEMMA Scaled ==
  ASSUME NEW a \in Int, NEW b \in Int, a <= b
  PROVE  a * BlockSize <= b * BlockSize
<1>1. BlockSize \in Nat /\ b - a \in Nat
  BY RowTableAssumption
<1>2. (b - a) * BlockSize >= 0
  BY <1>1
<1>3. (b - a) * BlockSize = b * BlockSize - a * BlockSize
  BY <1>1
<1> QED BY <1>1, <1>2, <1>3

LEMMA StepUp ==
  ASSUME NEW a \in Int
  PROVE  (a + 1) * BlockSize = a * BlockSize + BlockSize /\ (a - 1) * BlockSize = a * BlockSize - BlockSize
         /\ a * BlockSize \in Int
  BY RowTableAssumption

\* Rounding up: as many blocks as n rows need.
LEMMA RoundedUp ==
  ASSUME NEW n \in Nat
  PROVE  LET c == (n + BlockSize - 1) \div BlockSize
         IN  c \in Nat /\ (c - 1) * BlockSize < n /\ n <= c * BlockSize
<1> DEFINE c == (n + BlockSize - 1) \div BlockSize
           d == (n + BlockSize - 1) % BlockSize
<1>1. BlockSize \in Nat \ {0} /\ n + BlockSize - 1 \in Nat
  BY RowTableAssumption
<1>2. c \in Nat /\ d \in 0 .. BlockSize - 1 /\ n + BlockSize - 1 = c * BlockSize + d
  BY <1>1, Placed
<1> HIDE DEF c, d
<1>3. (c - 1) * BlockSize = c * BlockSize - BlockSize /\ c * BlockSize \in Int
  BY <1>2, StepUp
<1>4. c \in Nat /\ (c - 1) * BlockSize < n /\ n <= c * BlockSize
  BY <1>1, <1>2, <1>3
<1> QED BY <1>4 DEF c

LEMMA EmptiesRows ==
  ASSUME NEW n \in Nat
  PROVE  /\ Empties(n) \in Seq(BitRow) /\ Len(Empties(n)) = n
         /\ \A k \in 1 .. n : Empties(n)[k] = EmptyRow
  BY EmptyRowAssumption DEF Empties, BitRow

\* Blocks that hold n rows: all are full but the last.
BlocksFit(blocks, n) ==
  /\ blocks \in Seq(Seq(BitRow))
  /\ (Len(blocks) - 1) * BlockSize < n /\ n <= Len(blocks) * BlockSize
  /\ \A b \in 1 .. Len(blocks) : Len(blocks[b]) = LeastOf(n - (b - 1) * BlockSize, BlockSize)

\* The new blocks hold what the old ones held, and empty rows after it.
Extends(new, old) ==
  \A b \in 1 .. Len(new) : \A k \in 1 .. Len(new[b]) :
    new[b][k] = IF b <= Len(old) /\ k <= Len(old[b]) THEN old[b][k] ELSE EmptyRow

\* The old blocks, as full as m rows need them.
Filled(new, old, m) ==
  /\ new \in Seq(Seq(BitRow)) /\ Len(new) = Len(old)
  /\ \A b \in 1 .. Len(old) : Len(new[b]) = LeastOf(m - (b - 1) * BlockSize, BlockSize)
  /\ Extends(new, old)

LEMMA TailFilled ==
  ASSUME NEW n \in Nat, NEW m \in Nat, n <= m, NEW old, BlocksFit(old, n)
  PROVE  Filled(FillTail(old, m), old, m)
<1> DEFINE q == Len(old)
           new == FillTail(old, m)
           room(b) == LeastOf(m - (b - 1) * BlockSize, BlockSize)
           tail == room(q)
           last == old[q]
<1>1. /\ q \in Nat /\ BlockSize \in Nat \ {0}
      /\ \A b \in 1 .. q : old[b] \in Seq(BitRow) /\ Len(old[b]) \in Nat
      /\ old \in Seq(Seq(BitRow))
  BY RowTableAssumption DEF BlocksFit
<1>2. \A b \in 1 .. q - 1 : Len(old[b]) = room(b)
  <2> SUFFICES ASSUME NEW b \in 1 .. q - 1 PROVE Len(old[b]) = room(b)
    OBVIOUS
  <2>1. b * BlockSize <= (q - 1) * BlockSize
    <3>1. b \in Int /\ q - 1 \in Int /\ b <= q - 1
      BY <1>1
    <3> QED BY ONLY <3>1, Scaled
  <2>2. (b - 1) * BlockSize = b * BlockSize - BlockSize /\ b * BlockSize \in Int
        /\ (q - 1) * BlockSize \in Int
    BY <1>1, StepUp
  <2>3. (q - 1) * BlockSize < n /\ Len(old[b]) = LeastOf(n - (b - 1) * BlockSize, BlockSize)
    BY <1>1 DEF BlocksFit
  <2> QED BY <1>1, <2>1, <2>2, <2>3 DEF LeastOf
<1>3. CASE q = 0
  BY <1>1, <1>3 DEF FillTail, Extends, Filled
<1>4. CASE q # 0
  <2>1. /\ old # <<>> /\ q \in 1 .. q /\ last \in Seq(BitRow) /\ Len(last) \in Nat
        /\ Len(last) = LeastOf(n - (q - 1) * BlockSize, BlockSize)
    BY <1>1, <1>4 DEF BlocksFit
  <2>2. (q - 1) * BlockSize \in Int /\ Len(last) <= tail /\ tail \in Int
    BY <1>1, <2>1, StepUp DEF LeastOf
  <2>3. new = IF Len(last) < tail
              THEN [old EXCEPT ![q] = last \o Empties(tail - Len(last))] ELSE old
    BY <2>1 DEF FillTail
  <2> HIDE DEF new, tail, last
  <2>4. CASE Len(last) < tail
    <3> DEFINE pad == Empties(tail - Len(last))
               full == last \o pad
    <3>1. tail - Len(last) \in Nat
      BY <2>1, <2>2, <2>4
    <3>2. /\ pad \in Seq(BitRow) /\ Len(pad) = tail - Len(last)
          /\ \A k \in 1 .. tail - Len(last) : pad[k] = EmptyRow
      BY <3>1, EmptiesRows
    <3> HIDE DEF pad
    <3>3. /\ full \in Seq(BitRow) /\ Len(full) = tail
          /\ \A k \in 1 .. tail : full[k] = IF k <= Len(last) THEN last[k] ELSE EmptyRow
      <4>1. /\ full \in Seq(BitRow) /\ Len(full) = Len(last) + Len(pad)
            /\ \A k \in 1 .. Len(last) + Len(pad) :
                 full[k] = IF k <= Len(last) THEN last[k] ELSE pad[k - Len(last)]
        BY <2>1, <3>2, ConcatProperties
      <4> HIDE DEF full
      <4>2. Len(full) = tail
        BY <2>1, <2>2, <3>2, <4>1
      <4>3. \A k \in 1 .. tail : ~ (k <= Len(last)) => k - Len(last) \in 1 .. tail - Len(last)
        BY <2>1, <2>2
      <4> QED BY <2>1, <3>2, <4>1, <4>2, <4>3
    <3> HIDE DEF full
    <3>4. new = [old EXCEPT ![q] = full]
      BY <2>3, <2>4 DEF full, pad
    <3>5. /\ new \in Seq(Seq(BitRow)) /\ Len(new) = q
          /\ \A b \in 1 .. q : new[b] = IF b = q THEN full ELSE old[b]
      BY <1>1, <2>1, <3>3, <3>4
    <3>6. \A b \in 1 .. q : b # q => b \in 1 .. q - 1
      BY <1>1
    <3>7. \A b \in 1 .. q : Len(new[b]) = room(b)
      BY <1>2, <3>3, <3>5, <3>6 DEF tail
    <3>8. Extends(new, old)
      <4>1. ASSUME NEW b \in 1 .. q, b # q
            PROVE  new[b] = old[b] /\ Len(new[b]) = Len(old[b])
        BY <3>5, <4>1
      <4>2. new[q] = full /\ Len(full) = tail /\ old[q] = last
        BY <2>1, <3>3, <3>5 DEF last
      <4>3. \A k \in 1 .. tail : full[k] = IF k <= Len(last) THEN last[k] ELSE EmptyRow
        BY <3>3
      <4>4. ASSUME NEW b \in 1 .. q, NEW k \in 1 .. Len(new[b])
            PROVE  new[b][k] = IF b <= q /\ k <= Len(old[b]) THEN old[b][k] ELSE EmptyRow
        <5>1. CASE b = q
          BY <1>1, <4>2, <4>3, <5>1
        <5>2. CASE b # q
          BY <1>1, <4>1, <5>2
        <5> QED BY <5>1, <5>2
      <4> QED BY <3>5, <4>4 DEF Extends
    <3> QED BY <3>5, <3>7, <3>8 DEF new, Filled
  <2>5. CASE ~ (Len(last) < tail)
    <3>1. new = old /\ Len(last) = tail
      BY <2>1, <2>2, <2>3, <2>5
    <3>2. \A b \in 1 .. q : b # q => b \in 1 .. q - 1
      BY <1>1
    <3>3. \A b \in 1 .. q : Len(new[b]) = room(b)
      BY <1>2, <3>1, <3>2 DEF tail, last
    <3>4. Extends(new, old)
      BY <1>1, <3>1 DEF Extends
    <3> QED BY <1>1, <3>1, <3>3, <3>4 DEF new, Filled
  <2> QED BY <2>4, <2>5
<1> QED BY <1>3, <1>4

LEMMA BlocksGrow ==
  ASSUME NEW n \in Nat, NEW m \in Nat, n <= m, NEW old, BlocksFit(old, n)
  PROVE  LET new == AppendBlocks(FillTail(old, m), m)
         IN  BlocksFit(new, m) /\ Len(old) <= Len(new) /\ Extends(new, old)
<1> DEFINE filled == FillTail(old, m)
           new == AppendBlocks(filled, m)
           room(b) == LeastOf(m - (b - 1) * BlockSize, BlockSize)
           count == (m + BlockSize - 1) \div BlockSize
           q == Len(old)
<1>0. Filled(filled, old, m)
  BY TailFilled
<1> HIDE DEF filled
<1>1. /\ filled \in Seq(Seq(BitRow)) /\ Len(filled) = q
      /\ \A b \in 1 .. q : Len(filled[b]) = room(b)
      /\ Extends(filled, old)
  BY <1>0 DEF Filled
<1>2. count \in Nat /\ (count - 1) * BlockSize < m /\ m <= count * BlockSize
  BY RoundedUp
<1> HIDE DEF count
<1>3. /\ q \in Nat /\ BlockSize \in Nat \ {0} /\ (q - 1) * BlockSize < n
      /\ \A b \in 1 .. q : old[b] \in Seq(BitRow) /\ Len(old[b]) \in Nat
      /\ \A b \in Int : b * BlockSize \in Int
  BY RowTableAssumption, StepUp DEF BlocksFit
<1>4. q <= count
  <2> SUFFICES ASSUME count <= q - 1 PROVE FALSE
    BY <1>2, <1>3
  <2>0. count \in Int /\ q - 1 \in Int /\ count <= q - 1
    BY <1>2, <1>3
  <2>1. count * BlockSize <= (q - 1) * BlockSize
    BY ONLY <2>0, Scaled
  <2> QED BY <1>2, <1>3, <2>1
<1>5. new = [b \in 1 .. count |-> IF b <= q THEN filled[b] ELSE Empties(room(b))]
  BY <1>1, <1>2, <1>3, <1>4 DEF AppendBlocks, count
<1> HIDE DEF new
<1>6. \A b \in 1 .. count : room(b) \in Nat
  <2> SUFFICES ASSUME NEW b \in 1 .. count PROVE room(b) \in Nat
    OBVIOUS
  <2>1. (b - 1) * BlockSize <= (count - 1) * BlockSize
    BY <1>2, Scaled
  <2> QED BY <1>2, <1>3, <2>1 DEF LeastOf
<1>7. \A b \in 1 .. count : new[b] \in Seq(BitRow) /\ Len(new[b]) = room(b)
  <2> SUFFICES ASSUME NEW b \in 1 .. count
               PROVE  new[b] \in Seq(BitRow) /\ Len(new[b]) = room(b)
    OBVIOUS
  <2>1. CASE b <= q
    BY <1>1, <1>3, <1>5, <2>1
  <2>2. CASE ~ (b <= q)
    BY <1>5, <1>6, <2>2, EmptiesRows
  <2> QED BY <2>1, <2>2
<1>8. new \in Seq(Seq(BitRow)) /\ Len(new) = count
  BY <1>2, <1>5, <1>7
<1>9. BlocksFit(new, m)
  BY <1>2, <1>7, <1>8 DEF BlocksFit
<1>10. Extends(new, old)
  <2> SUFFICES ASSUME NEW b \in 1 .. count, NEW k \in 1 .. Len(new[b])
               PROVE  new[b][k] = IF b <= q /\ k <= Len(old[b]) THEN old[b][k] ELSE EmptyRow
    BY <1>8 DEF Extends
  <2>1. CASE b <= q
    <3>1. b \in 1 .. q /\ new[b] = filled[b]
      BY <1>3, <1>5, <2>1
    <3> QED BY <1>1, <2>1, <3>1 DEF Extends
  <2>2. CASE ~ (b <= q)
    BY <1>5, <1>6, <1>7, <2>2, EmptiesRows
  <2> QED BY <2>1, <2>2
<1> QED BY <1>4, <1>8, <1>9, <1>10 DEF new, filled

\* Row i of a directory of blocks.
RowIn(blocks, i) == blocks[i \div BlockSize + 1][(i % BlockSize) + 1]

LEMMA RowsAreInside ==
  ASSUME NEW n \in Nat, NEW blocks, BlocksFit(blocks, n), NEW i \in Nat
  PROVE  LET b == i \div BlockSize + 1
             k == (i % BlockSize) + 1
         IN  i < n <=> (b \in 1 .. Len(blocks) /\ k \in 1 .. Len(blocks[b]))
<1> DEFINE d == i \div BlockSize
           k == (i % BlockSize) + 1
           q == Len(blocks)
<1>1. d \in Nat /\ k \in 1 .. BlockSize /\ i = d * BlockSize + (k - 1)
  BY RowTableAssumption, Placed
<1>2. /\ q \in Nat /\ BlockSize \in Nat \ {0}
      /\ (q - 1) * BlockSize < n /\ n <= q * BlockSize
      /\ \A b \in 1 .. q : Len(blocks[b]) = LeastOf(n - (b - 1) * BlockSize, BlockSize)
  BY RowTableAssumption DEF BlocksFit
<1> HIDE DEF d, k, q
<1>3. d * BlockSize \in Int /\ q * BlockSize \in Int
  BY <1>1, <1>2, StepUp
<1>4. i < n => d + 1 \in 1 .. q
  <2> SUFFICES ASSUME i < n, ~ (d + 1 <= q) PROVE FALSE
    BY <1>1, <1>2
  <2>1. q \in Int /\ d \in Int /\ q <= d
    BY <1>1, <1>2
  <2>2. q * BlockSize <= d * BlockSize
    BY ONLY <2>1, Scaled
  <2> QED BY <1>1, <1>2, <1>3, <2>2
<1>5. d + 1 \in 1 .. q => Len(blocks[d + 1]) = LeastOf(n - d * BlockSize, BlockSize)
  <2>1. (d + 1) - 1 = d
    BY <1>1
  <2> QED BY <1>2, <2>1
<1>6. i < n <=> k <= LeastOf(n - d * BlockSize, BlockSize)
  BY <1>1, <1>2, <1>3 DEF LeastOf
<1>7. k \in 1 .. LeastOf(n - d * BlockSize, BlockSize) <=> k <= LeastOf(n - d * BlockSize, BlockSize)
  BY <1>1, <1>2, <1>3 DEF LeastOf
<1>8. i < n <=> (d + 1 \in 1 .. q /\ k \in 1 .. Len(blocks[d + 1]))
  BY <1>4, <1>5, <1>6, <1>7
<1> QED BY <1>8 DEF d, k, q

\* A table that holds n rows, in one of the two layouts.
HoldsRows(t, n) ==
  \/ n <= BlockSize /\ t = Flat(t.rows) /\ t.rows \in Seq(BitRow) /\ Len(t.rows) = n
  \/ t = Blocked(t.blocks) /\ BlocksFit(t.blocks, n)

LEMMA RowOfBlocks ==
  ASSUME NEW n \in Nat, NEW blocks, BlocksFit(blocks, n), NEW i \in 0 .. n - 1
  PROVE  GetRow(Blocked(blocks), i) = RowIn(blocks, i)
<1>1. i \in Nat /\ i < n /\ Len(blocks) \in Nat
  BY DEF BlocksFit
<1> DEFINE b == i \div BlockSize
           k == i % BlockSize
<1>2. b \in Nat /\ k \in Nat
  <2>1. b \in Nat /\ k \in 0 .. BlockSize - 1
    BY <1>1, Placed
  <2> QED BY <2>1, RowTableAssumption
<1>3. b + 1 \in 1 .. Len(blocks) /\ k + 1 \in 1 .. Len(blocks[b + 1])
  BY <1>1, RowsAreInside
<1>4. blocks[b + 1] \in Seq(BitRow) /\ Len(blocks[b + 1]) \in Nat
  BY <1>3 DEF BlocksFit
<1> HIDE DEF b, k
<1>5. b < Len(blocks) /\ k < Len(blocks[b + 1])
  BY <1>1, <1>2, <1>3, <1>4
<1> QED BY <1>5 DEF GetRow, Blocked, IsFlat, RowIn, b, k

LEMMA OldBlocksFit ==
  ASSUME NEW n \in Nat, NEW t, HoldsRows(t, n)
  PROVE  /\ BlocksFit(OldBlocks(t), n)
         /\ \A i \in 0 .. n - 1 : GetRow(t, i) = RowIn(OldBlocks(t), i)
<1>1. CASE n <= BlockSize /\ t = Flat(t.rows) /\ t.rows \in Seq(BitRow) /\ Len(t.rows) = n
  <2> DEFINE old == OldBlocks(t)
  <2>1. IsFlat(t) /\ BlockSize \in Nat \ {0} /\ \A i \in 0 .. n - 1 : GetRow(t, i) = t.rows[i + 1]
    BY <1>1, RowTableAssumption DEF IsFlat, Flat, GetRow
  <2>2. old = IF t.rows = <<>> THEN <<>> ELSE <<t.rows>>
    BY <2>1 DEF OldBlocks
  <2> HIDE DEF old
  <2>3. CASE n = 0
    <3>1. old = <<>>
      BY <1>1, <2>2, <2>3
    <3>2. BlocksFit(old, n)
      BY <2>1, <2>3, <3>1 DEF BlocksFit
    <3> QED BY <2>3, <3>2 DEF old
  <2>4. CASE n # 0
    <3>1. old = <<t.rows>>
      BY <1>1, <2>2, <2>4
    <3>2. old \in Seq(Seq(BitRow)) /\ Len(old) = 1 /\ old[1] = t.rows
      BY <1>1, <3>1
    <3>3. (Len(old) - 1) * BlockSize = 0 /\ Len(old) * BlockSize = BlockSize
          /\ (1 - 1) * BlockSize = 0
      BY <2>1, <3>2
    <3>4. n = LeastOf(n - 0, BlockSize)
      BY <1>1, <2>1 DEF LeastOf
    <3>5. BlocksFit(old, n)
      BY <1>1, <2>1, <2>4, <3>2, <3>3, <3>4 DEF BlocksFit
    <3>6. ASSUME NEW i \in 0 .. n - 1 PROVE i \div BlockSize = 0 /\ i % BlockSize = i
      <4>1. i \in Nat /\ i < n
        OBVIOUS
      <4>2. i \div BlockSize + 1 \in 1 .. Len(old)
        BY <3>5, <4>1, RowsAreInside
      <4>3. i \div BlockSize = 0
        BY <3>2, <4>1, <4>2, Placed
      <4>4. i % BlockSize \in Nat /\ i = (i \div BlockSize) * BlockSize + (i % BlockSize)
        BY <2>1, <4>1, Placed
      <4> QED BY <2>1, <4>1, <4>3, <4>4
    <3> QED BY <2>1, <3>2, <3>5, <3>6 DEF RowIn, old
  <2> QED BY <2>3, <2>4
<1>2. CASE t = Blocked(t.blocks) /\ BlocksFit(t.blocks, n)
  <2>1. OldBlocks(t) = t.blocks
    BY <1>2 DEF Blocked, OldBlocks, IsFlat
  <2> QED BY <1>2, <2>1, RowOfBlocks
<1> QED BY <1>1, <1>2 DEF HoldsRows

\* Growing a table keeps its rows and adds empty ones.
LEMMA TableGrows ==
  ASSUME NEW n \in Nat, NEW m \in Nat, n <= m, NEW t, HoldsRows(t, n)
  PROVE  /\ HoldsRows(ExpandedTable(t, m), m)
         /\ \A i \in 0 .. m - 1 :
              GetRow(ExpandedTable(t, m), i) = IF i < n THEN GetRow(t, i) ELSE EmptyRow
<1>1. CASE IsFlat(t) /\ m <= BlockSize
  <2> DEFINE pad == Empties(m - n)
             full == t.rows \o pad
  <2>1. t = Flat(t.rows) /\ t.rows \in Seq(BitRow) /\ Len(t.rows) = n
    BY <1>1 DEF HoldsRows, Blocked, IsFlat
  <2>2. pad \in Seq(BitRow) /\ Len(pad) = m - n /\ \A k \in 1 .. m - n : pad[k] = EmptyRow
    <3>1. m - n \in Nat
      OBVIOUS
    <3> QED BY <3>1, EmptiesRows
  <2>3. ExpandedTable(t, m) = Flat(full)
    BY <1>1, <2>1 DEF ExpandedTable
  <2> HIDE DEF pad
  <2>4. /\ full \in Seq(BitRow) /\ Len(full) = Len(t.rows) + Len(pad)
        /\ \A k \in 1 .. Len(t.rows) + Len(pad) :
             full[k] = IF k <= Len(t.rows) THEN t.rows[k] ELSE pad[k - Len(t.rows)]
    BY <2>1, <2>2, ConcatProperties
  <2> HIDE DEF full
  <2>5. Len(full) = m /\ \A i \in 0 .. m - 1 : full[i + 1] = IF i < n THEN t.rows[i + 1] ELSE EmptyRow
    BY <2>1, <2>2, <2>4
  <2>6. \A i \in 0 .. m - 1 : GetRow(Flat(full), i) = full[i + 1]
    BY <2>5 DEF GetRow, Flat, IsFlat
  <2>7. \A i \in 0 .. m - 1 : i < n => GetRow(t, i) = t.rows[i + 1]
    BY <1>1, <2>1 DEF GetRow
  <2>8. HoldsRows(Flat(full), m)
    BY <1>1, <2>4, <2>5 DEF HoldsRows, Flat
  <2> QED BY <2>3, <2>5, <2>6, <2>7, <2>8
<1>2. CASE ~ (IsFlat(t) /\ m <= BlockSize)
  <2> DEFINE old == OldBlocks(t)
             new == AppendBlocks(FillTail(old, m), m)
  <2>1. BlocksFit(old, n) /\ \A i \in 0 .. n - 1 : GetRow(t, i) = RowIn(old, i)
    BY OldBlocksFit
  <2>2. ExpandedTable(t, m) = Blocked(new)
    BY <1>2 DEF ExpandedTable
  <2> HIDE DEF old
  <2>3. BlocksFit(new, m) /\ Len(old) <= Len(new) /\ Extends(new, old)
    BY <2>1, BlocksGrow
  <2> HIDE DEF new
  <2>4. HoldsRows(Blocked(new), m)
    BY <2>3 DEF HoldsRows, Blocked
  <2>5. ASSUME NEW i \in 0 .. m - 1
        PROVE  GetRow(Blocked(new), i) = IF i < n THEN GetRow(t, i) ELSE EmptyRow
    <3> DEFINE b == i \div BlockSize + 1
               k == (i % BlockSize) + 1
    <3>1. i \in Nat /\ i < m
      OBVIOUS
    <3>2. b \in 1 .. Len(new) /\ k \in 1 .. Len(new[b])
      BY <2>3, <3>1, RowsAreInside
    <3>3. i < n <=> (b \in 1 .. Len(old) /\ k \in 1 .. Len(old[b]))
      BY <2>1, <3>1, RowsAreInside
    <3>4. GetRow(Blocked(new), i) = RowIn(new, i)
      BY <2>3, RowOfBlocks
    <3>5. RowIn(new, i) = new[b][k] /\ RowIn(old, i) = old[b][k]
      BY DEF RowIn
    <3> HIDE DEF b, k
    <3>6. new[b][k] = IF b <= Len(old) /\ k <= Len(old[b]) THEN old[b][k] ELSE EmptyRow
      BY <2>3, <3>2 DEF Extends
    <3>7. (b <= Len(old) /\ k <= Len(old[b])) <=> i < n
      <4>1. b \in Nat /\ b >= 1 /\ k \in Nat /\ k >= 1 /\ Len(old) \in Nat
        <5>1. new[b] \in Seq(BitRow) /\ Len(new) \in Nat
          BY <2>3, <3>2 DEF BlocksFit
        <5> QED BY <2>1, <3>2, <5>1 DEF BlocksFit
      <4>2. b <= Len(old) => Len(old[b]) \in Nat
        <5>1. b <= Len(old) => old[b] \in Seq(BitRow)
          BY <2>1, <4>1 DEF BlocksFit
        <5> QED BY <5>1
      <4> QED BY <3>3, <4>1, <4>2
    <3>8. i < n => GetRow(t, i) = old[b][k]
      BY <2>1, <3>1, <3>5
    <3> QED BY <3>4, <3>5, <3>6, <3>7, <3>8
  <2> QED BY <2>2, <2>4, <2>5
<1> QED BY <1>1, <1>2

\* A write changes one row.
LEMMA WriteChangesOne ==
  ASSUME NEW n \in Nat, NEW t, HoldsRows(t, n), NEW i \in 0 .. n - 1, NEW r \in BitRow
  PROVE  /\ HoldsRows(WriteRow(t, i, r), n)
         /\ \A j \in 0 .. n - 1 :
              GetRow(WriteRow(t, i, r), j) = IF j = i THEN r ELSE GetRow(t, j)
<1> DEFINE u == WriteRow(t, i, r)
<1>1. CASE n <= BlockSize /\ t = Flat(t.rows) /\ t.rows \in Seq(BitRow) /\ Len(t.rows) = n
  <2> DEFINE new == [t.rows EXCEPT ![i + 1] = r]
  <2>1. u = Flat(new)
    <3>1. IsFlat(t) /\ t = [layout |-> "flat", rows |-> t.rows]
      BY <1>1 DEF Flat, IsFlat
    <3>2. u = [t EXCEPT !.rows = new]
      BY <3>1 DEF WriteRow
    <3> QED BY <3>1, <3>2 DEF Flat
  <2>2. /\ new \in Seq(BitRow) /\ Len(new) = n
        /\ \A j \in 0 .. n - 1 : new[j + 1] = IF j = i THEN r ELSE t.rows[j + 1]
    BY <1>1
  <2> HIDE DEF new, u
  <2>3. HoldsRows(u, n)
    BY <1>1, <2>1, <2>2 DEF HoldsRows, Flat
  <2>4. \A j \in 0 .. n - 1 : GetRow(u, j) = new[j + 1] /\ GetRow(t, j) = t.rows[j + 1]
    BY <1>1, <2>1, <2>2 DEF GetRow, Flat, IsFlat
  <2> QED BY <2>2, <2>3, <2>4 DEF u
<1>2. CASE t = Blocked(t.blocks) /\ BlocksFit(t.blocks, n)
  <2> DEFINE old == t.blocks
             B(j) == j \div BlockSize + 1
             K(j) == (j % BlockSize) + 1
             new == [old EXCEPT ![B(i)][K(i)] = r]
  <2>1. u = Blocked(new)
    BY <1>2 DEF WriteRow, Blocked, IsFlat
  <2>2. \A j \in 0 .. n - 1 : B(j) \in 1 .. Len(old) /\ K(j) \in 1 .. Len(old[B(j)])
    <3> SUFFICES ASSUME NEW j \in 0 .. n - 1
                 PROVE  B(j) \in 1 .. Len(old) /\ K(j) \in 1 .. Len(old[B(j)])
      OBVIOUS
    <3>1. j \in Nat /\ j < n
      OBVIOUS
    <3> QED BY <1>2, <3>1, RowsAreInside
  <2>3. \A j \in 0 .. n - 1 : B(j) = B(i) /\ K(j) = K(i) => j = i
    <3>1. \A j \in 0 .. n - 1 : /\ j \div BlockSize \in Nat /\ j % BlockSize \in 0 .. BlockSize - 1
                                /\ j = (j \div BlockSize) * BlockSize + (j % BlockSize)
      BY Placed
    <3> SUFFICES ASSUME NEW j \in 0 .. n - 1, B(j) = B(i), K(j) = K(i) PROVE j = i
      OBVIOUS
    <3>2. j \div BlockSize = i \div BlockSize /\ j % BlockSize = i % BlockSize
      BY <3>1, RowTableAssumption
    <3> QED BY <3>1, <3>2
  <2>4. /\ old \in Seq(Seq(BitRow)) /\ B(i) \in 1 .. Len(old) /\ K(i) \in 1 .. Len(old[B(i)])
    BY <1>2, <2>2 DEF BlocksFit
  <2>5. \A j \in 0 .. n - 1 : RowIn(new, j) = new[B(j)][K(j)] /\ RowIn(old, j) = old[B(j)][K(j)]
    BY DEF RowIn
  <2> HIDE DEF B, K, u
  <2>6. /\ new \in Seq(Seq(BitRow)) /\ Len(new) = Len(old)
        /\ \A b \in 1 .. Len(old) :
             new[b] = IF b = B(i) THEN [old[b] EXCEPT ![K(i)] = r] ELSE old[b]
    BY <2>4
  <2>7. \A b \in 1 .. Len(old) :
          /\ Len(new[b]) = Len(old[b])
          /\ \A k \in 1 .. Len(old[b]) :
               new[b][k] = IF b = B(i) /\ k = K(i) THEN r ELSE old[b][k]
    BY <2>4, <2>6
  <2> HIDE DEF new
  <2>8. BlocksFit(new, n)
    BY <1>2, <2>6, <2>7 DEF BlocksFit
  <2>9. HoldsRows(u, n)
    BY <2>1, <2>8 DEF HoldsRows, Blocked
  <2>10. \A j \in 0 .. n - 1 : GetRow(u, j) = RowIn(new, j) /\ GetRow(t, j) = RowIn(old, j)
    BY <1>2, <2>1, <2>8, RowOfBlocks
  <2>11. \A j \in 0 .. n - 1 : GetRow(u, j) = IF j = i THEN r ELSE GetRow(t, j)
    BY <2>2, <2>3, <2>5, <2>7, <2>10
  <2> QED BY <2>9, <2>11 DEF u
<1> QED BY <1>1, <1>2 DEF HoldsRows

\* The first m writes of Written, starting from table g.
Writes(o, g, f, m) ==
  f = [k \in 0 .. m |->
         IF k = 0 THEN g
         ELSE IF o.succ[k] = RowBefore(k) THEN f[k - 1]
         ELSE WriteRow(f[k - 1], k - 1, o.succ[k])]

LEMMA WritesExist ==
  ASSUME NEW o, NEW g, NEW n \in Nat
  PROVE  \E f : Writes(o, g, f, n)
<1> DEFINE T == {m \in Nat : ~ \E f : Writes(o, g, f, m)}
<1>1. CASE T = {}
  BY <1>1
<1>2. CASE T # {}
  <2>1. PICK m \in T : \A k \in T : m <= k
    BY <1>2, LeastNatural
  <2>2. CASE m = 0
    <3> DEFINE f == [k \in 0 .. 0 |-> g]
    <3>1. Writes(o, g, f, 0)
      BY DEF Writes
    <3> QED BY <2>1, <2>2, <3>1
  <2>3. CASE m # 0
    <3>1. m \in Nat /\ m - 1 \in Nat /\ m - 1 \notin T
      BY <2>1, <2>3
    <3>2. PICK old : Writes(o, g, old, m - 1)
      BY <3>1
    <3> DEFINE f == [k \in 0 .. m |->
                       IF k = 0 THEN g
                       ELSE IF o.succ[k] = RowBefore(k) THEN old[k - 1]
                       ELSE WriteRow(old[k - 1], k - 1, o.succ[k])]
    <3>3. \A k \in 0 .. m - 1 : f[k] = old[k]
      BY <3>1, <3>2 DEF Writes
    <3>4. \A k \in 0 .. m : k # 0 => k - 1 \in 0 .. m - 1
      BY <3>1
    <3>5. Writes(o, g, f, m)
      BY <3>3, <3>4 DEF Writes
    <3> QED BY <2>1, <3>5
  <2> QED BY <2>2, <2>3
<1> QED BY <1>1, <1>2

LEMMA WrittenRecursion ==
  ASSUME NEW o, o.high \in Nat
  PROVE  \E f : Writes(o, GrownTable(o.high), f, o.high) /\ Written(o) = f[o.high]
<1> DEFINE f == CHOOSE f : Writes(o, GrownTable(o.high), f, o.high)
<1>1. \E g : Writes(o, GrownTable(o.high), g, o.high)
  BY WritesExist
<1>2. Writes(o, GrownTable(o.high), f, o.high)
  BY <1>1
<1>3. Written(o) = f[o.high]
  BY DEF Written, Writes
<1> HIDE DEF f
<1> QED BY <1>2, <1>3

\* After the last write the table reads back as the collection.
LEMMA WrittenReadsBack ==
  ASSUME NEW o, o.high \in Nat, o.succ \in [1 .. o.high -> BitRow],
         HoldsRows(GrownTable(o.high), o.high),
         \A k \in 1 .. o.high : GetRow(GrownTable(o.high), k - 1) = RowBefore(k)
  PROVE  /\ HoldsRows(Written(o), o.high)
         /\ \A k \in 1 .. o.high : GetRow(Written(o), k - 1) = o.succ[k]
<1> DEFINE g == GrownTable(o.high)
           n == o.high
<1>1. PICK f : Writes(o, g, f, n) /\ Written(o) = f[n]
  BY WrittenRecursion
<1>2. /\ f[0] = g
      /\ \A k \in 1 .. n : f[k] = IF o.succ[k] = RowBefore(k) THEN f[k - 1]
                                  ELSE WriteRow(f[k - 1], k - 1, o.succ[k])
  BY <1>1 DEF Writes
<1> HIDE DEF g
<1> DEFINE Done(m) == /\ HoldsRows(f[m], n)
                      /\ \A k \in 1 .. n :
                           GetRow(f[m], k - 1) = IF k <= m THEN o.succ[k] ELSE RowBefore(k)
           D == {m \in 0 .. n : ~ Done(m)}
<1>3. Done(0)
  BY <1>2 DEF g
<1>4. ASSUME NEW m \in 1 .. n, Done(m - 1) PROVE Done(m)
  <2>1. CASE o.succ[m] = RowBefore(m)
    <3>1. f[m] = f[m - 1]
      BY <1>2, <2>1
    <3>2. \A k \in 1 .. n : k <= m <=> k <= m - 1 \/ k = m
      OBVIOUS
    <3> QED BY <1>4, <2>1, <3>1, <3>2
  <2>2. CASE o.succ[m] # RowBefore(m)
    <3>1. f[m] = WriteRow(f[m - 1], m - 1, o.succ[m])
      BY <1>2, <2>2
    <3>2. m - 1 \in 0 .. n - 1 /\ o.succ[m] \in BitRow /\ HoldsRows(f[m - 1], n) /\ n \in Nat
      BY <1>4
    <3>3. /\ HoldsRows(f[m], n)
          /\ \A j \in 0 .. n - 1 :
               GetRow(f[m], j) = IF j = m - 1 THEN o.succ[m] ELSE GetRow(f[m - 1], j)
      BY ONLY <3>1, <3>2, WriteChangesOne
    <3>4. ASSUME NEW k \in 1 .. n
          PROVE  GetRow(f[m], k - 1) = IF k <= m THEN o.succ[k] ELSE RowBefore(k)
      <4>1. k - 1 \in 0 .. n - 1 /\ (k - 1 = m - 1 <=> k = m)
        OBVIOUS
      <4>2. GetRow(f[m - 1], k - 1) = IF k <= m - 1 THEN o.succ[k] ELSE RowBefore(k)
        BY <1>4
      <4>3. GetRow(f[m], k - 1) = IF k = m THEN o.succ[m] ELSE GetRow(f[m - 1], k - 1)
        BY <3>3, <4>1
      <4> QED BY <4>2, <4>3
    <3> QED BY <3>3, <3>4
  <2> QED BY <2>1, <2>2
<1>5. Done(n)
  <2>1. CASE D = {}
    BY <2>1
  <2>2. CASE D # {}
    <3>1. D \subseteq Nat
      OBVIOUS
    <3>2. \A m \in D : m \in 0 .. n /\ ~ Done(m)
      OBVIOUS
    <3>3. \A m \in 0 .. n : m \notin D => Done(m)
      OBVIOUS
    <3> HIDE DEF D, Done
    <3>4. PICK m \in D : \A k \in D : m <= k
      BY <2>2, <3>1, LeastNatural
    <3>5. m # 0 /\ m \in 0 .. n
      BY <1>3, <3>2, <3>4
    <3>6. m \in 1 .. n /\ m - 1 \in 0 .. n /\ m - 1 \notin D
      BY <3>1, <3>4, <3>5
    <3>7. Done(m)
      BY <1>4, <3>3, <3>6
    <3> QED BY <3>2, <3>4, <3>7
  <2> QED BY <2>1, <2>2
<1>6. \A k \in 1 .. n : k <= n
  OBVIOUS
<1> QED BY <1>1, <1>5, <1>6

\* The invariant of the stored collection: the table reads back as the
\* collection.
RowsInv == IndInv /\ HoldsRows(table, high_id) /\ Read = ord

LEMMA RowsInvInit == RowsInit => RowsInv
<1> SUFFICES ASSUME RowsInit PROVE RowsInv
  OBVIOUS
<1>1. IndInv /\ high_id = 0 /\ table = Flat(<<>>) /\ ord = NewOrderings
  BY IndInvInit DEF RowsInit, Init, NewTable
<1>2. HoldsRows(table, high_id)
  BY <1>1, RowTableAssumption DEF HoldsRows, Flat
<1>3. Read = ord
  BY <1>1 DEF Read, NewOrderings
<1> QED BY <1>1, <1>2, <1>3 DEF RowsInv

\* What a refinement stores is what it computed.
LEMMA StoresReadsBack ==
  ASSUME RowsInv, NEW o, IsOrderings(o), ord.high <= o.high, Stores(o)
  PROVE  HoldsRows(table', high_id') /\ Read' = o
<1>1. /\ o.high \in Nat /\ o = [high |-> o.high, succ |-> o.succ]
      /\ o.succ \in [1 .. o.high -> BitRow] /\ high_id' = o.high /\ table' = Written(o)
  BY DEF IsOrderings, RealSteps, BitRow, Stores
<1>2. HoldsRows(table, high_id) /\ high_id = ord.high /\ high_id \in Nat /\ high_id <= o.high
  BY DEF RowsInv, Read, IndInv, TypeOK, IsOrderings
<1>3. /\ HoldsRows(GrownTable(o.high), o.high)
      /\ \A k \in 1 .. o.high : GetRow(GrownTable(o.high), k - 1) = RowBefore(k)
  <2>1. CASE o.high > high_id
    <3>1. GrownTable(o.high) = ExpandedTable(table, o.high)
      BY <2>1 DEF GrownTable
    <3>2. /\ HoldsRows(ExpandedTable(table, o.high), o.high)
          /\ \A i \in 0 .. o.high - 1 :
               GetRow(ExpandedTable(table, o.high), i) =
                 IF i < high_id THEN GetRow(table, i) ELSE EmptyRow
      BY ONLY <1>1, <1>2, TableGrows
    <3>3. \A k \in 1 .. o.high : k - 1 \in 0 .. o.high - 1 /\ (k - 1 < high_id <=> k <= high_id)
      BY <1>1, <1>2
    <3> QED BY <3>1, <3>2, <3>3 DEF RowBefore
  <2>2. CASE ~ (o.high > high_id)
    <3>1. GrownTable(o.high) = table /\ o.high = high_id
      BY <1>1, <1>2, <2>2 DEF GrownTable
    <3> QED BY <1>2, <3>1 DEF RowBefore
  <2> QED BY <2>1, <2>2
<1>4. /\ HoldsRows(Written(o), o.high)
      /\ \A k \in 1 .. o.high : GetRow(Written(o), k - 1) = o.succ[k]
  BY ONLY <1>1, <1>3, WrittenReadsBack
<1>5. Read' = [high |-> high_id', succ |-> [k \in 1 .. high_id' |-> GetRow(table', k - 1)]]
  BY DEF Read
<1> HIDE DEF Read
<1>6. [k \in 1 .. o.high |-> GetRow(Written(o), k - 1)] = o.succ
  BY <1>1, <1>4
<1> QED BY <1>1, <1>4, <1>5, <1>6

\* Every refinement stores the collection it leaves behind.
LEMMA RefinementsStore ==
  ASSUME RowsInv, RowsNext
  PROVE  Next /\ Stores(ord')
<1>1. Read = ord /\ high_id = ord.high
  BY DEF RowsInv, Read
<1>2. ASSUME NEW c \in 1 .. GoalId, AddStepRows(c) PROVE Next /\ Stores(ord')
  BY <1>1, <1>2 DEF AddStepRows, AddStep, Next
<1>3. ASSUME NEW s \in 0 .. GoalId, NEW c \in 1 .. GoalId, ReuseStepRows(s, c)
      PROVE  Next /\ Stores(ord')
  BY <1>1, <1>3 DEF ReuseStepRows, ReuseStep, Next
<1>4. ASSUME NEW a \in 0 .. GoalId, NEW b \in 0 .. GoalId, NewOrderingRows(a, b)
      PROVE  Next /\ Stores(ord')
  BY <1>1, <1>4 DEF NewOrderingRows, NewOrdering, Next
<1> QED BY <1>2, <1>3, <1>4 DEF RowsNext

LEMMA RowsInvStep == RowsInv /\ [RowsNext]_rowVars => RowsInv' /\ [Next]_vars
<1> SUFFICES ASSUME RowsInv, [RowsNext]_rowVars PROVE RowsInv' /\ [Next]_vars
  OBVIOUS
<1>1. CASE UNCHANGED rowVars
  <2>1. UNCHANGED vars
    BY <1>1 DEF rowVars, vars
  <2>2. IndInv'
    BY <2>1, IndInvStep DEF RowsInv
  <2>3. HoldsRows(table', high_id') /\ Read' = ord'
    BY <1>1 DEF RowsInv, rowVars, Read
  <2> QED BY <2>1, <2>2, <2>3 DEF RowsInv
<1>2. CASE RowsNext
  <2>1. Next /\ Stores(ord')
    BY <1>2, RefinementsStore
  <2>2. IndInv /\ [Next]_vars
    BY <2>1 DEF RowsInv
  <2>3. IndInv' /\ RowsGrow
    BY <2>2, IndInvStep, StepGrowsRows
  <2>4. IsOrderings(ord') /\ ord.high <= ord'.high
    <3>1. IsOrderings(ord') /\ ord.high \in Nat /\ ord'.high \in Nat
      BY <2>2, <2>3 DEF IndInv, TypeOK, IsOrderings
    <3>2. ord.high # 0 => ord.high \in 1 .. ord'.high
      BY <2>3, <3>1 DEF RowsGrow, RealSteps
    <3> QED BY <3>1, <3>2
  <2>5. HoldsRows(table', high_id') /\ Read' = ord'
    BY <2>1, <2>4, StoresReadsBack
  <2> QED BY <2>1, <2>3, <2>5 DEF RowsInv
<1> QED BY <1>1, <1>2

\* Read through the table, the steps of the stored collection are the steps
\* of the collection.
LEMMA StoredInit == RowsInit => Stored!Init
  BY RowsInvInit
     DEF RowsInv, RowsInit, Init, Stored!Init, NewOrderings, Stored!NewOrderings

LEMMA StoredNext == RowsInv /\ RowsInv' /\ [Next]_vars => [Stored!Next]_(Stored!vars)
<1> SUFFICES ASSUME Read = ord, Read' = ord', [Next]_vars PROVE [Stored!Next]_(Stored!vars)
  BY DEF RowsInv
<1>1. ASSUME NEW c, AddStep(c) PROVE Stored!AddStep(c)
  BY <1>1
     DEF AddStep, Stored!AddStep, GoalId, Stored!GoalId, RealSteps, Stored!RealSteps,
         InitId, Stored!InitId, RefineWithStep, Stored!RefineWithStep, Expanded,
         Stored!Expanded, FillTransitive, Stored!FillTransitive, OrderedBefore,
         Stored!OrderedBefore
<1>2. ASSUME NEW s, NEW c, ReuseStep(s, c) PROVE Stored!ReuseStep(s, c)
  BY <1>2
     DEF ReuseStep, Stored!ReuseStep, Ids, Stored!Ids, GoalId, Stored!GoalId, RealSteps,
         Stored!RealSteps, InitId, Stored!InitId, RefineWithStep, Stored!RefineWithStep,
         Expanded, Stored!Expanded, FillTransitive, Stored!FillTransitive, OrderedBefore,
         Stored!OrderedBefore, PossiblyBefore, Stored!PossiblyBefore
<1>3. ASSUME NEW a, NEW b, NewOrdering(a, b) PROVE Stored!NewOrdering(a, b)
  BY <1>3
     DEF NewOrdering, Stored!NewOrdering, Ids, Stored!Ids, GoalId, Stored!GoalId, RealSteps,
         Stored!RealSteps, InitId, Stored!InitId, Refine, Stored!Refine, Refinable,
         Stored!Refinable, FillTransitive, Stored!FillTransitive, OrderedBefore,
         Stored!OrderedBefore
<1>4. CASE UNCHANGED vars
  BY <1>4 DEF vars, Stored!vars
<1>5. CASE Next
  BY <1>1, <1>2, <1>3, <1>5 DEF Next, Stored!Next, GoalId, Stored!GoalId
<1> QED BY <1>4, <1>5

(* Blocks implement rows, for every block size and every number of steps:  *)
(* read through division and remainder, the stored collection starts as an *)
(* ordering collection and takes exactly its steps; growing the table from *)
(* flat to blocks, within the last block or by new ones keeps every row.   *)
THEOREM RowsImplementStore == RowsSpec => ImplementsStore
<1>1. RowsInit => RowsInv /\ Stored!Init
  BY RowsInvInit, StoredInit
<1>2. RowsInv /\ [RowsNext]_rowVars => RowsInv' /\ [Stored!Next]_(Stored!vars)
  BY RowsInvStep, StoredNext
<1> QED BY <1>1, <1>2, PTL DEF RowsSpec, ImplementsStore, Stored!Spec
=============================================================================
