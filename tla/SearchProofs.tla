---------------------------- MODULE SearchProofs ----------------------------
(***************************************************************************)
(* Proofs about the search loop, for every algorithm, every refinement     *)
(* space, every node limit, bound and stop.  Ranks may be anything finite, *)
(* as those of ADD are; only that answers are cheapest needs them          *)
(* admissible.                                                             *)
(*                                                                         *)
(* The argument is coverage: a solution of a flaw order that has not been  *)
(* given up is below a plan that is queued and not yet expanded, or below  *)
(* the plan in hand, or IDA* has written down a limit that lets it back    *)
(* in.  The rest of the invariant says what keeps a plan from being lost   *)
(* on the way: entries have finite ranks, the plan below a parent that was *)
(* not expanded was not expanded either (so that no child is skipped as    *)
(* stale), and where the loop is says what its order has generated.        *)
(***************************************************************************)
EXTENDS Search, FiniteSetTheorems, TLAPS

Numbers == Plans(sp)
Entries == [plan : Numbers, rank : Nat, lazy : BOOLEAN]
Phases == {"inner", "children", "rotate", "take", "pop", "outer", "done"}

TypeOK ==
  /\ task \in Tasks
  /\ late \in BOOLEAN /\ (late => task.canTimeOut)
  /\ s.phase \in Phases
  /\ s.order \in Orders
  /\ s.current \in Numbers \cup {NoPlan}
  /\ s.rank0 \in Nat
  /\ s.child \in Nat
  /\ s.ids \in [Numbers -> Nat]
  /\ s.queues \in [Orders -> SUBSET Entries]
  /\ s.secondary \in [Orders -> SUBSET Entries]
  /\ \A o \in Orders : IsFiniteSet(s.queues[o])
  /\ s.generated \in [Orders -> Nat]
  /\ s.numGenerated \in Nat
  /\ s.dropped \in Nat
  /\ s.ordersLeft \in Nat
  /\ {s.stopped, s.limitReached} \subseteq BOOLEAN
  /\ {s.fLimit, s.nextFLimit} \subseteq 0 .. Infinite

-----------------------------------------------------------------------------
(* Where the loop is.                                                        *)

\* The order is below its limit, or there is nothing to generate.
Open(o) == s.generated[o] < task.limits[o] \/ Complete(sp, Root)

InHand == s.phase \in {"inner", "children"}

Places ==
  /\ s.phase \in {"rotate", "take", "pop"} => s.current = NoPlan
  /\ InHand => s.current # NoPlan
  /\ s.phase \notin {"rotate", "take"} => s.generated[s.order] > 0
  /\ s.phase = "take" => s.generated[s.order] < task.limits[s.order]
  /\ s.phase = "pop" => Open(s.order)
  /\ s.phase = "inner" => s.current = Root \/ Open(s.order)
  /\ s.phase = "children" => ~ Complete(sp, s.current) /\ s.child > 0

\* What the loop has ended with.
Ends ==
  /\ s.ordersLeft = 0 => s.limitReached
  /\ s.phase = "outer" =>
       IF s.current = NoPlan
       THEN s.stopped \/ s.limitReached \/ (Open(s.order) /\ (late \/ s.queues[s.order] = {}))
       ELSE s.stopped \/ s.limitReached \/ Complete(sp, s.current)

\* A complete initial plan is never refined.
RootAlone ==
  Complete(sp, Root) =>
    /\ s.current # NoPlan => Complete(sp, s.current)
    /\ \A o \in Orders : \A e \in s.queues[o] \cup s.secondary[o] : Complete(sp, e.plan)

-----------------------------------------------------------------------------
(* The entries of the queues.                                                *)

\* A rank in a queue is finite, and the plan's own unless it is lazy.
Ranked(o) ==
  /\ \A e \in s.queues[o] :
       /\ e.rank < Infinite
       /\ IF e.lazy THEN IsLazy ELSE e.rank = QueueRank(e.plan)
       /\ IsIda => e.rank <= s.fLimit
  /\ \A e \in s.secondary[o] : IF e.lazy THEN IsDual ELSE IsDual => Complete(sp, e.plan)

\* A lazy search queues children under a finite rank.
FiniteHand == InHand /\ IsLazy /\ ~ Complete(sp, s.current) => s.rank0 < Infinite

Limits == (~ IsIda => s.nextFLimit = Infinite) /\ s.fLimit <= s.nextFLimit

Orderly == task.alg = "A" \/ (IsIda /\ NOrders = 1)

\* A* and IDA* have the best plan of the queue in hand.
BestInHand ==
  Orderly /\ s.phase = "inner" /\ s.current # Root =>
    /\ \A e \in s.queues[s.order] : sp.f[s.current] <= e.rank
    /\ IsIda => sp.f[s.current] <= s.fLimit

-----------------------------------------------------------------------------
(* Marks.                                                                    *)

Marks == IsDual \/ IsAlt

Held(o, n) ==
  \/ <<o, n>> \in s.expanded
  \/ \E e \in s.queues[o] \cup s.secondary[o] : e.plan = n
  \/ o = s.order /\ n = s.current

\* A plan that is queued, in hand or expanded was made of an expanded plan.
Descent ==
  \A o \in Orders : \A n \in Numbers :
    Held(o, n) => n = Root \/ \E m \in Numbers : n \in MadeOf(sp, o, m) /\ <<o, m>> \in s.expanded

Unexpanded ==
  /\ s.phase = "inner" => <<s.order, s.current>> \notin s.expanded
  /\ s.phase = "children" =>
       /\ <<s.order, s.current>> \in s.expanded
       /\ \A c \in MadeOf(sp, s.order, s.current) : <<s.order, c>> \notin s.expanded
  /\ \A o \in Orders : s.generated[o] = 0 => \A n \in Numbers : <<o, n>> \notin s.expanded

Marking == IF Marks THEN Descent /\ Unexpanded ELSE s.expanded = {}

-----------------------------------------------------------------------------
(* Coverage.                                                                 *)

Leads(o, n, g) == g \in sp.below[o][n] \/ n = sp.inst[g]

Queued(o, n) == <<o, n>> \notin s.expanded /\ \E e \in s.queues[o] : e.plan = n

Live(o, n) == Queued(o, n) \/ (o = s.order /\ n = s.current)

\* IDA* left a plan above g out, and will let it in with a higher limit.
CutOff(o, g) ==
  \E n \in Numbers : Leads(o, n, g) /\ s.fLimit < sp.f[n] /\ s.nextFLimit <= sp.f[n]

CoveredIn(o) ==
  \A g \in Solutions(o) : CutOff(o, g) \/ \E n \in Numbers : Live(o, n) /\ Leads(o, n, g)

\* The children that have been looked at.
SeenAreCovered ==
  s.phase = "children" =>
    \A i \in DOMAIN Refinements :
      i < s.child => \A g \in Solutions(s.order) : g \in sp.below[s.order][Refinements[i]] =>
        \/ CutOff(s.order, g)
        \/ ~ Open(s.order)
        \/ Queued(s.order, Refinements[i])

Exact == s.dropped = 0 /\ (IsIda => NOrders = 1)

Coverage ==
  Exact /\ ~ late =>
    /\ \A o \in Orders : s.generated[o] > 0 /\ Open(o) => CoveredIn(o)
    /\ SeenAreCovered

\* What an answer means.
Answers ==
  /\ s.phase \in {"outer", "done"} /\ Solved(s) /\ s.dropped = 0 /\ Orderly /\ Admissible(sp) =>
       \A g \in Solutions(1) : sp.f[s.current] <= sp.f[sp.inst[g]]
  /\ Exact => NoSolutionIsProof

IndInv ==
  /\ TypeOK /\ Places /\ Ends /\ RootAlone
  /\ \A o \in Orders : Ranked(o)
  /\ FiniteHand /\ Limits /\ BestInHand
  /\ Marking /\ Coverage /\ Answers

-----------------------------------------------------------------------------
(* The space of the call.                                                    *)

LEMMA SpaceShape ==
  ASSUME task \in Tasks
  PROVE  /\ NOrders \in Nat \ {0} /\ Len(sp.f) \in Nat \ {0}
         /\ Root \in Numbers /\ 1 \in Orders
         /\ sp.f \in [Numbers -> 0 .. Infinite] /\ sp.h \in [Numbers -> 0 .. Infinite]
         /\ sp.steps \in [Numbers -> Nat]
         /\ \A n \in Numbers : sp.steps[n] < Infinite
         /\ task.limits \in [Orders -> Nat]
         /\ \A o \in Orders : sp.children[o] \in [Numbers -> Seq(Numbers)]
<1>1. IsSpace(sp) /\ task.limits \in [OrdersOf(sp) -> Nat]
  BY SearchAssumption DEF sp
<1>2. Len(sp.f) \in Nat \ {0} /\ Len(sp.children) \in Nat \ {0}
  BY <1>1 DEF IsSpace
<1> QED BY <1>1, <1>2 DEF IsSpace, Plans, OrdersOf, Numbers, Orders, NOrders, Root

LEMMA Instances ==
  ASSUME task \in Tasks, NEW n, Complete(sp, n)
  PROVE  /\ n \in Numbers
         /\ sp.inst[n] # Fails =>
              /\ sp.inst[n] \in Numbers /\ Complete(sp, sp.inst[n])
              /\ sp.inst[sp.inst[n]] = sp.inst[n]
<1>1. IsSpace(sp)
  BY SearchAssumption DEF sp
<1> QED BY <1>1 DEF IsSpace, Complete, Numbers

LEMMA Below ==
  ASSUME task \in Tasks, NEW o \in Orders, NEW n \in Numbers
  PROVE  /\ sp.below[o][n] = {n} \cup UNION {sp.below[o][c] : c \in ChildrenIn(sp, o, n)}
         /\ Complete(sp, n) => sp.below[o][n] = {n}
         /\ ChildrenIn(sp, o, n) \subseteq Numbers
<1>1. IsSpace(sp)
  BY SearchAssumption DEF sp
<1>2. /\ sp.below[o][n] = {n} \cup UNION {sp.below[o][c] : c \in ChildrenIn(sp, o, n)}
      /\ Complete(sp, n) => sp.children[o][n] = <<>>
  BY <1>1 DEF IsSpace, OrdersOf, Orders, NOrders, Numbers
<1>3. Complete(sp, n) => ChildrenIn(sp, o, n) = {}
  BY <1>2 DEF ChildrenIn
<1>4. sp.children[o][n] \in Seq(Numbers)
  BY SpaceShape
<1>5. ChildrenIn(sp, o, n) \subseteq Numbers
  BY <1>4 DEF ChildrenIn
<1> QED BY <1>2, <1>3, <1>5

LEMMA Made ==
  ASSUME task \in Tasks, NEW o \in Orders, NEW n \in Numbers, NEW c \in MadeOf(sp, o, n)
  PROVE  /\ c # n /\ c # Root
         /\ \A m \in Numbers : c \in MadeOf(sp, o, m) => m = n
<1>1. IsSpace(sp)
  BY SearchAssumption DEF sp
<1>2. n < c
  BY <1>1 DEF IsSpace, OrdersOf, Orders, NOrders, Numbers
<1>3. \A m \in Numbers \ {n} : MadeOf(sp, o, n) \cap MadeOf(sp, o, m) = {}
  BY <1>1 DEF IsSpace, OrdersOf, Orders, NOrders, Numbers
<1>4. n \in Nat /\ n >= 1
  BY SpaceShape DEF Numbers, Plans
<1>5. c # n /\ c # Root
  BY <1>2, <1>4 DEF Root
<1> QED BY <1>3, <1>5

\* What leads to a solution has a finite rank.
LEMMA LeadsFinite ==
  ASSUME task \in Tasks, NEW o \in Orders, NEW g \in Solutions(o), NEW n \in Numbers, Leads(o, n, g)
  PROVE  /\ sp.f[n] \in Nat /\ sp.f[n] < Infinite
         /\ sp.inst[g] \in Numbers /\ g \in Numbers /\ Complete(sp, g) /\ sp.inst[g] # Fails
         /\ QueueRank(n) \in Nat /\ QueueRank(n) < Infinite
<1>1. Safe(sp)
  BY SearchAssumption DEF sp
<1>2. g \in sp.below[o][Root] /\ Complete(sp, g) /\ sp.inst[g] # Fails
  BY DEF Solutions, SpaceSolutions
<1>3. g \in Numbers /\ sp.inst[g] \in Numbers
  BY <1>2, Instances
<1>4. sp.f[sp.inst[g]] < Infinite
  <2>1. Root \in Numbers
    BY SpaceShape
  <2> QED BY <1>1, <1>2, <2>1 DEF Safe, Solutions, Orders, NOrders, OrdersOf, Numbers
<1>5. g \in sp.below[o][n] => sp.f[n] < Infinite
  BY <1>1 DEF Safe, Solutions, Orders, NOrders, OrdersOf, Numbers
<1>6. sp.f[n] \in Nat /\ sp.h[n] \in 0 .. Infinite
  <2>1. sp.f \in [Numbers -> 0 .. Infinite] /\ sp.h \in [Numbers -> 0 .. Infinite]
    BY SpaceShape
  <2> QED BY <1>3, <2>1
<1>8. Infinite \in Nat
  BY SearchAssumption
<1>9. sp.f[n] < Infinite
  BY <1>4, <1>5 DEF Leads
<1>10. sp.h[n] # Infinite
  BY <1>1, <1>9, <1>6, <1>8 DEF Safe, Numbers
<1>11. sp.h[n] \in Nat /\ sp.h[n] < Infinite
  BY <1>6, <1>8, <1>10
<1>12. sp.steps[n] \in Nat /\ sp.steps[n] < Infinite
  BY SpaceShape
<1>13. QueueRank(n) \in {sp.steps[n], sp.h[n], sp.f[n]}
  BY DEF QueueRank
<1> QED BY <1>2, <1>3, <1>6, <1>9, <1>11, <1>12, <1>13

\* Under an admissible heuristic the rank is no more than the solution's cost.
LEMMA LeadsCheap ==
  ASSUME task \in Tasks, Admissible(sp),
         NEW o \in Orders, NEW g \in Solutions(o), NEW n \in Numbers, Leads(o, n, g)
  PROVE  sp.f[n] <= sp.f[sp.inst[g]]
<1>1. g \in Numbers /\ sp.inst[g] \in Numbers
  BY LeadsFinite
<1>2. sp.f[n] \in Nat /\ sp.f[g] \in Nat /\ sp.f[sp.inst[g]] \in Nat
  <2>1. sp.f \in [Numbers -> 0 .. Infinite]
    BY SpaceShape
  <2> QED BY <1>1, <2>1
<1>3. g \in sp.below[o][n] => sp.f[n] <= sp.f[g] /\ sp.f[g] <= sp.f[sp.inst[g]]
  BY DEF Admissible, Solutions, Orders, NOrders, OrdersOf, Numbers
<1> QED BY <1>2, <1>3 DEF Leads

LEMMA RankType ==
  ASSUME task \in Tasks, NEW n \in Numbers
  PROVE  QueueRank(n) \in 0 .. Infinite
<1>1. /\ sp.f \in [Numbers -> 0 .. Infinite] /\ sp.h \in [Numbers -> 0 .. Infinite]
      /\ sp.steps \in [Numbers -> Nat] /\ sp.steps[n] < Infinite
  BY SpaceShape
<1>2. sp.f[n] \in 0 .. Infinite /\ sp.h[n] \in 0 .. Infinite /\ sp.steps[n] \in 0 .. Infinite
  BY <1>1, SearchAssumption
<1>3. QueueRank(n) \in {sp.steps[n], sp.h[n], sp.f[n]}
  BY DEF QueueRank
<1> QED BY <1>2, <1>3

\* Under an admissible heuristic every flaw order reaches a plan as cheap as any
\* plan of another one; without one, it reaches some plan if another order does.
LEMMA AsCheap ==
  ASSUME task \in Tasks, Admissible(sp), NEW o \in Orders, NEW p \in Orders, NEW g \in Solutions(o)
  PROVE  \E g2 \in Solutions(p) : sp.f[sp.inst[g2]] <= sp.f[sp.inst[g]]
  BY DEF Admissible, Solutions, Orders, NOrders, OrdersOf

LEMMA AsComplete ==
  ASSUME task \in Tasks, NEW o \in Orders, NEW p \in Orders, Solutions(o) = {}
  PROVE  Solutions(p) = {}
<1>1. Safe(sp)
  BY SearchAssumption DEF sp
<1> QED BY <1>1 DEF Safe, Solutions, Orders, NOrders, OrdersOf

LEMMA MinOfTwo ==
  ASSUME NEW a \in Nat, NEW b \in Nat
  PROVE  Min({a, b}) \in {a, b} /\ Min({a, b}) <= a /\ Min({a, b}) <= b
<1> DEFINE least(x) == x \in {a, b} /\ \A y \in {a, b} : x =< y
<1>1. Min({a, b}) = CHOOSE x \in {a, b} : \A y \in {a, b} : x =< y
  BY DEF Min
<1>2. \E x \in {a, b} : \A y \in {a, b} : x =< y
  <2>1. CASE a <= b
    BY <2>1
  <2>2. CASE b <= a
    BY <2>2
  <2> QED BY <2>1, <2>2
<1>3. least(Min({a, b}))
  BY <1>1, <1>2, Zenon
<1> QED BY <1>3

-----------------------------------------------------------------------------
LEMMA IndInvInit == Init => IndInv
<1> SUFFICES ASSUME Init PROVE IndInv
  OBVIOUS
<1>1. task \in Tasks /\ late = FALSE /\ s = InitialLocals
  BY DEF Init
<1>2. /\ s.phase = "inner" /\ s.current = Root /\ s.rank0 = 0 /\ s.child = 0
      /\ s.ids = [n \in 1 .. Len(sp.f) |-> 0]
      /\ s.queues = [o \in Orders |-> {}] /\ s.secondary = [o \in Orders |-> {}]
      /\ s.expanded = {}
      /\ s.generated = [o \in Orders |-> IF o = 1 THEN 1 ELSE 0]
      /\ s.numGenerated = 1 /\ s.dropped = 0 /\ s.stopped = FALSE /\ s.limitReached = FALSE
      /\ s.order = 1 /\ s.ordersLeft = NOrders
      /\ s.fLimit = (IF IsIda THEN sp.f[Root] ELSE Infinite) /\ s.nextFLimit = Infinite
  BY <1>1 DEF InitialLocals
<1>3. /\ Root \in Numbers /\ 1 \in Orders /\ NOrders \in Nat \ {0}
      /\ sp.f \in [Numbers -> 0 .. Infinite]
      /\ Infinite \in Nat \ {0}
  BY <1>1, SpaceShape, SearchAssumption
<1>4. s.fLimit \in 0 .. Infinite
  BY <1>2, <1>3
<1>5. TypeOK
  <2>1. \A o \in Orders : s.queues[o] = {} /\ s.secondary[o] = {}
    BY <1>2
  <2>2. \A o \in Orders : IsFiniteSet(s.queues[o])
    BY <2>1, FS_EmptySet
  <2>3. s.queues \in [Orders -> SUBSET Entries] /\ s.secondary \in [Orders -> SUBSET Entries]
    BY <1>2
  <2>4. s.ids \in [Numbers -> Nat] /\ s.generated \in [Orders -> Nat]
    BY <1>2 DEF Numbers, Plans
  <2>5. s.phase \in Phases
    BY <1>2 DEF Phases
  <2>6. {s.fLimit, s.nextFLimit} \subseteq 0 .. Infinite
    BY <1>2, <1>3, <1>4
  <2>7. /\ s.rank0 \in Nat /\ s.child \in Nat /\ s.numGenerated \in Nat /\ s.dropped \in Nat
        /\ s.ordersLeft \in Nat
    BY <1>2, <1>3
  <2>8. s.order \in Orders /\ s.current \in Numbers \cup {NoPlan}
    BY <1>2, <1>3
  <2>9. {s.stopped, s.limitReached} \subseteq BOOLEAN /\ late \in BOOLEAN /\ (late => task.canTimeOut)
    BY <1>1, <1>2
  <2> QED BY <1>1, <2>2, <2>3, <2>4, <2>5, <2>6, <2>7, <2>8, <2>9 DEF TypeOK
<1>6. Places
  BY <1>2, <1>3 DEF Places, InHand, NoPlan, Root
<1>7. Ends
  BY <1>2, <1>3 DEF Ends
<1>8. RootAlone
  BY <1>2 DEF RootAlone
<1>9. \A o \in Orders : Ranked(o)
  BY <1>2 DEF Ranked
<1>10. FiniteHand
  BY <1>2, <1>3 DEF FiniteHand
<1>11. Limits
  BY <1>2, <1>3, <1>4 DEF Limits
<1>12. BestInHand
  BY <1>2 DEF BestInHand
<1>13. Marking
  <2>1. \A o \in Orders, n \in Numbers : Held(o, n) => n = Root
    BY <1>2 DEF Held
  <2> QED BY <1>2, <2>1 DEF Marking, Descent, Unexpanded
<1>14. Coverage
  <2>1. \A o \in Orders : s.generated[o] > 0 => o = 1
    BY <1>2
  <2>2. \A g \in Solutions(1) : Live(1, Root) /\ Leads(1, Root, g)
    BY <1>2 DEF Live, Leads, Solutions, SpaceSolutions
  <2>3. CoveredIn(1)
    BY <1>3, <2>2 DEF CoveredIn
  <2>4. SeenAreCovered
    BY <1>2 DEF SeenAreCovered
  <2> QED BY <2>1, <2>3, <2>4 DEF Coverage
<1>15. Answers
  BY <1>2 DEF Answers, NoSolutionIsProof, Outcome
<1> QED BY <1>5, <1>6, <1>7, <1>8, <1>9, <1>10, <1>11, <1>12, <1>13, <1>14, <1>15 DEF IndInv

-----------------------------------------------------------------------------
(* What a step does not touch.                                               *)

LEMMA SameCall ==
  ASSUME task' = task
  PROVE  /\ sp' = sp /\ Orders' = Orders /\ NOrders' = NOrders /\ Numbers' = Numbers
         /\ Entries' = Entries
         /\ IsIda' = IsIda /\ IsDual' = IsDual /\ IsAlt' = IsAlt /\ IsLazy' = IsLazy
         /\ Orderly' = Orderly /\ Marks' = Marks /\ Admissible(sp)' = Admissible(sp)
         /\ \A o : Solutions(o)' = Solutions(o)
         /\ \A n : QueueRank(n)' = QueueRank(n)
         /\ \A o, n, g : Leads(o, n, g)' = Leads(o, n, g)
<1>1. sp' = sp
  BY DEF sp
<1>2. Orders' = Orders /\ NOrders' = NOrders /\ Numbers' = Numbers /\ Entries' = Entries
  BY <1>1 DEF Orders, NOrders, Numbers, Entries
<1>3. IsIda' = IsIda /\ IsDual' = IsDual /\ IsAlt' = IsAlt /\ IsLazy' = IsLazy
  BY DEF IsIda, IsDual, IsAlt, IsLazy
<1>4. Orderly' = Orderly /\ Marks' = Marks /\ Admissible(sp)' = Admissible(sp)
  BY <1>1, <1>2, <1>3 DEF Orderly, Marks, Admissible, OrdersOf, Plans, SpaceSolutions, Complete
<1>5. \A o : Solutions(o)' = Solutions(o)
  BY <1>1 DEF Solutions
<1>6. \A n : QueueRank(n)' = QueueRank(n)
  BY <1>1 DEF QueueRank, IsGbfs
<1>7. \A o, n, g : Leads(o, n, g)' = Leads(o, n, g)
  BY <1>1 DEF Leads
<1> QED BY <1>1, <1>2, <1>3, <1>4, <1>5, <1>6, <1>7

\* A step keeps an order covered when it keeps, or replaces, what covers it.
LEMMA StaysCutOff ==
  ASSUME TypeOK, task' = task, NEW o \in Orders, NEW g \in Solutions(o), CutOff(o, g),
         s'.fLimit = s.fLimit, s'.nextFLimit \in 0 .. Infinite, s'.nextFLimit <= s.nextFLimit
  PROVE  CutOff(o, g)'
<1>1. PICK n \in Numbers : Leads(o, n, g) /\ s.fLimit < sp.f[n] /\ s.nextFLimit <= sp.f[n]
  BY DEF CutOff
<1>2. s.nextFLimit \in Nat /\ s'.nextFLimit \in Nat
  BY SearchAssumption DEF TypeOK
<1>3. sp.f[n] \in Nat
  BY <1>1, LeadsFinite DEF TypeOK
<1>4. s'.nextFLimit <= sp.f[n]
  BY <1>1, <1>2, <1>3
<1> QED BY <1>1, <1>4, SameCall DEF CutOff

LEMMA StaysCovered ==
  ASSUME TypeOK, task' = task, NEW o \in Orders, CoveredIn(o), s'.fLimit = s.fLimit,
         s'.nextFLimit \in 0 .. Infinite, s'.nextFLimit <= s.nextFLimit,
         \A g \in Solutions(o) : \A n \in Numbers :
           Live(o, n) /\ Leads(o, n, g) =>
             CutOff(o, g)' \/ \E m \in Numbers : Live(o, m)' /\ Leads(o, m, g)
  PROVE  CoveredIn(o)'
<1>1. ASSUME NEW g \in Solutions(o), CutOff(o, g) PROVE CutOff(o, g)'
  BY <1>1, StaysCutOff
<1>2. \A g \in Solutions(o) :
        CutOff(o, g)' \/ \E m \in Numbers : Live(o, m)' /\ Leads(o, m, g)
  BY <1>1 DEF CoveredIn
<1> QED BY <1>2, SameCall DEF CoveredIn

LEMMA DeadlinePassesKeeps == IndInv /\ DeadlinePasses => IndInv'
<1> SUFFICES ASSUME IndInv, DeadlinePasses PROVE IndInv'
  OBVIOUS
<1>1. task.canTimeOut /\ late' = TRUE /\ task' = task /\ s' = s /\ s.phase # "done"
  BY DEF DeadlinePasses
<1>2. TypeOK'
  BY <1>1, SameCall DEF IndInv, TypeOK
<1>3. Places' /\ Ends'
  BY <1>1, SameCall DEF IndInv, Places, Ends, InHand, Open
<1>4. RootAlone' /\ \A o \in Orders' : Ranked(o)'
  BY <1>1, SameCall DEF IndInv, RootAlone, Ranked
<1>5. FiniteHand' /\ Limits' /\ BestInHand'
  BY <1>1, SameCall DEF IndInv, FiniteHand, Limits, BestInHand, InHand
<1>6. Marking'
  BY <1>1, SameCall DEF IndInv, Marking, Descent, Unexpanded, Held
<1>7. Coverage'
  BY <1>1 DEF Coverage
<1>8. Answers'
  BY <1>1, SameCall DEF IndInv, Answers, Solved, NoSolutionIsProof, Outcome, Exact
<1> QED BY <1>2, <1>3, <1>4, <1>5, <1>6, <1>7, <1>8 DEF IndInv

\* The fields that only pushing, popping, expanding and trimming write.
Stores ==
  <<s.ids, s.queues, s.secondary, s.expanded, s.numGenerated, s.dropped>>

\* A step that only moves the control keeps what the queues hold in order.
LEMMA StoresKept ==
  ASSUME IndInv, task' = task, UNCHANGED Stores,
         s'.fLimit \in 0 .. Infinite, s.fLimit <= s'.fLimit
  PROVE  \A o \in Orders : Ranked(o)'
<1>1. /\ s'.queues = s.queues /\ s'.secondary = s.secondary
  BY DEF Stores
<1>2. /\ s.fLimit \in Nat /\ s'.fLimit \in Nat
      /\ \A o \in Orders : \A e \in s.queues[o] : e.rank \in Nat
  BY SearchAssumption DEF IndInv, TypeOK, Entries
<1> SUFFICES ASSUME NEW o \in Orders PROVE Ranked(o)'
  OBVIOUS
<1>3. \A e \in s.queues[o] : IsIda => e.rank <= s'.fLimit
  <2> SUFFICES ASSUME NEW e \in s.queues[o], IsIda PROVE e.rank <= s'.fLimit
    OBVIOUS
  <2>1. e.rank <= s.fLimit
    BY DEF IndInv, Ranked
  <2> QED BY <2>1, <1>2
<1>4. sp' = sp /\ IsIda' = IsIda /\ IsLazy' = IsLazy /\ IsDual' = IsDual
      /\ \A n : QueueRank(n)' = QueueRank(n)
  BY SameCall
<1> QED BY <1>1, <1>3, <1>4 DEF IndInv, Ranked

LEMMA StopBeforeExpansionKeeps == IndInv /\ StopBeforeExpansion => IndInv'
<1> SUFFICES ASSUME IndInv, StopBeforeExpansion PROVE IndInv'
  OBVIOUS
<1>1. /\ s.phase = "inner" /\ ~ Complete(sp, s.current) /\ UNCHANGED <<task, late>>
      /\ s' = [s EXCEPT !.stopped = TRUE, !.phase = "outer"]
  BY DEF StopBeforeExpansion
<1>2. /\ s'.phase = "outer" /\ s'.stopped = TRUE /\ UNCHANGED Stores
      /\ UNCHANGED <<s.current, s.rank0, s.child, s.generated, s.order, s.ordersLeft,
                     s.limitReached, s.fLimit, s.nextFLimit>>
  BY <1>1 DEF Stores
<1>3. TypeOK'
  BY <1>1, <1>2, SameCall DEF IndInv, TypeOK, Stores, Phases
<1>4. Places' /\ Ends'
  BY <1>1, <1>2, SameCall DEF IndInv, Places, Ends, InHand, Open
<1>5. RootAlone'
  BY <1>1, <1>2, SameCall DEF IndInv, RootAlone, Stores
<1>6. \A o \in Orders' : Ranked(o)'
  <2>1. s'.fLimit \in 0 .. Infinite /\ s.fLimit <= s'.fLimit
    BY <1>2, SearchAssumption DEF IndInv, TypeOK
  <2> QED BY <1>1, <1>2, <2>1, StoresKept, SameCall
<1>7. FiniteHand' /\ Limits' /\ BestInHand'
  BY <1>1, <1>2, SameCall DEF IndInv, FiniteHand, Limits, BestInHand, InHand
<1>8. Marking'
  BY <1>1, <1>2, SameCall DEF IndInv, Marking, Descent, Unexpanded, Held, Stores
<1>9. Coverage'
  <2>1. \A o \in Orders : CoveredIn(o) => CoveredIn(o)'
    BY <1>1, <1>2, SameCall DEF CoveredIn, CutOff, Live, Queued, Stores
  <2>2. SeenAreCovered'
    BY <1>2 DEF SeenAreCovered
  <2> QED BY <1>1, <1>2, <2>1, <2>2, SameCall DEF IndInv, Coverage, Exact, Open, Stores
<1>10. Answers'
  BY <1>1, <1>2, SameCall DEF Answers, Solved, NoSolutionIsProof, Outcome
<1> QED BY <1>3, <1>4, <1>5, <1>6, <1>7, <1>8, <1>9, <1>10 DEF IndInv

LEMMA RotateOrderKeeps == IndInv /\ RotateOrder => IndInv'
<1> SUFFICES ASSUME IndInv, RotateOrder PROVE IndInv'
  OBVIOUS
<1> DEFINE next == IF s.order = NOrders THEN 1 ELSE s.order + 1
<1>1. /\ s.phase = "rotate" /\ UNCHANGED <<task, late>>
      /\ s' = [s EXCEPT !.order = next,
                        !.nextSwitch = IF s.order = NOrders THEN Min({2 * @, MaxSwitch}) ELSE @,
                        !.phase = IF s.generated[next] < task.limits[next] THEN "take" ELSE @]
  BY DEF RotateOrder
<1>2. /\ s'.order = next /\ UNCHANGED Stores
      /\ s'.phase = IF s.generated[next] < task.limits[next] THEN "take" ELSE "rotate"
      /\ UNCHANGED <<s.current, s.rank0, s.child, s.generated, s.stopped, s.ordersLeft,
                     s.limitReached, s.fLimit, s.nextFLimit>>
  BY <1>1 DEF Stores
<1>3. next \in Orders
  BY SpaceShape DEF IndInv, TypeOK, Orders
<1>4. s.current = NoPlan /\ s.phase # "children" /\ s'.phase \in {"take", "rotate"}
  BY <1>1, <1>2 DEF IndInv, Places
<1> HIDE DEF next
<1>5. TypeOK'
  BY <1>1, <1>2, <1>3, <1>4, SameCall DEF IndInv, TypeOK, Stores, Phases
<1>6. Places'
  BY <1>1, <1>2, <1>4, SameCall DEF Places, InHand
<1>7. Ends'
  BY <1>1, <1>2, <1>4, SameCall DEF IndInv, Ends
<1>8. RootAlone'
  BY <1>1, <1>2, SameCall DEF IndInv, RootAlone, Stores
<1>9. \A o \in Orders' : Ranked(o)'
  <2>1. s'.fLimit \in 0 .. Infinite /\ s.fLimit <= s'.fLimit
    BY <1>2, SearchAssumption DEF IndInv, TypeOK
  <2> QED BY <1>1, <1>2, <2>1, StoresKept, SameCall
<1>10. FiniteHand' /\ Limits' /\ BestInHand'
  BY <1>1, <1>2, <1>4, SameCall DEF IndInv, FiniteHand, Limits, BestInHand, InHand
<1>11. Marking'
  <2>1. NoPlan \notin Numbers
    BY DEF Numbers, Plans, NoPlan
  <2>2. \A o \in Orders, n \in Numbers : Held(o, n)' => Held(o, n)
    BY <1>2, <1>4, <2>1 DEF Held, Stores
  <2>3. Marks => Descent'
    BY <1>1, <1>2, <2>2, SameCall DEF IndInv, Marking, Descent, Stores
  <2>4. Marks => Unexpanded'
    BY <1>1, <1>2, <1>4, SameCall DEF IndInv, Marking, Unexpanded, Stores
  <2> QED BY <1>1, <1>2, <2>3, <2>4, SameCall DEF IndInv, Marking, Stores
<1>12. Coverage'
  <2>1. NoPlan \notin Numbers
    BY DEF Numbers, Plans, NoPlan
  <2>2. \A o \in Orders, n \in Numbers : Live(o, n) => Live(o, n)'
    BY <1>2, <1>4, <2>1 DEF Live, Queued, Stores
  <2>3. \A o \in Orders : CoveredIn(o) => CoveredIn(o)'
    BY <1>1, <1>2, <2>2, SameCall DEF CoveredIn, CutOff
  <2>4. SeenAreCovered'
    BY <1>4 DEF SeenAreCovered
  <2> QED BY <1>1, <1>2, <2>3, <2>4, SameCall DEF IndInv, Coverage, Exact, Open, Stores
<1>13. Answers'
  BY <1>4 DEF Answers, NoSolutionIsProof, Outcome
<1> QED BY <1>5, <1>6, <1>7, <1>8, <1>9, <1>10, <1>11, <1>12, <1>13 DEF IndInv

LEMMA NoPlanIsNone == NoPlan \notin Numbers
  BY DEF Numbers, Plans, NoPlan

\* A step that only moves the control, with no plan in hand before or after.
LEMMA EmptyHandKeeps ==
  ASSUME IndInv, UNCHANGED <<task, late>>, UNCHANGED Stores,
         s.current = NoPlan, s.phase # "children", s'.current = NoPlan,
         s'.phase \in {"rotate", "take", "pop", "outer"},
         s'.rank0 \in Nat,
         UNCHANGED <<s.child, s.generated, s.order, s.stopped, s.ordersLeft,
                     s.limitReached, s.fLimit, s.nextFLimit>>,
         s'.phase \notin {"rotate", "take"} => s.generated[s.order] > 0,
         s'.phase = "take" => s.generated[s.order] < task.limits[s.order],
         s'.phase = "pop" => Open(s.order),
         s'.phase = "outer" =>
           s.stopped \/ s.limitReached \/ (Open(s.order) /\ (late \/ s.queues[s.order] = {}))
  PROVE  IndInv'
<1>1. TypeOK'
  BY SameCall DEF IndInv, TypeOK, Stores, Phases
<1>2. Places'
  BY SameCall DEF Places, InHand, Open
<1>3. Ends'
  BY SameCall DEF IndInv, Ends, Open, Stores
<1>4. RootAlone'
  BY SameCall DEF IndInv, RootAlone, Stores
<1>5. \A o \in Orders' : Ranked(o)'
  <2>1. s'.fLimit \in 0 .. Infinite /\ s.fLimit <= s'.fLimit
    BY SearchAssumption DEF IndInv, TypeOK
  <2> QED BY <2>1, StoresKept, SameCall
<1>6. FiniteHand' /\ Limits' /\ BestInHand'
  BY SameCall DEF IndInv, FiniteHand, Limits, BestInHand, InHand
<1>7. Marking'
  <2>1. \A o \in Orders, n \in Numbers : Held(o, n)' => Held(o, n)
    BY NoPlanIsNone DEF Held, Stores
  <2>2. Marks => Descent'
    BY <2>1, SameCall DEF IndInv, Marking, Descent, Stores
  <2>3. Marks => Unexpanded'
    BY SameCall DEF IndInv, Marking, Unexpanded, Stores
  <2> QED BY <2>2, <2>3, SameCall DEF IndInv, Marking, Stores
<1>8. Coverage'
  <2>1. \A o \in Orders, n \in Numbers : Live(o, n) => Live(o, n)'
    BY NoPlanIsNone DEF Live, Queued, Stores
  <2>2. \A o \in Orders : CoveredIn(o) => CoveredIn(o)'
    BY <2>1, SameCall DEF CoveredIn, CutOff
  <2>3. SeenAreCovered'
    BY DEF SeenAreCovered
  <2> QED BY <2>2, <2>3, SameCall DEF IndInv, Coverage, Exact, Open, Stores
<1>9. Answers'
  BY DEF Answers, NoSolutionIsProof, Outcome, Solved
<1> QED BY <1>1, <1>2, <1>3, <1>4, <1>5, <1>6, <1>7, <1>8, <1>9 DEF IndInv

\* A step that starts from the initial plan, in the order in turn.
LEMMA StartKeeps ==
  ASSUME IndInv, UNCHANGED <<task, late>>,
         UNCHANGED <<s.ids, s.queues, s.secondary, s.expanded, s.dropped, s.child, s.order,
                     s.stopped, s.ordersLeft, s.limitReached>>,
         s'.phase = "inner", s'.current = Root, s'.rank0 = 0, s'.numGenerated \in Nat,
         s'.generated \in [Orders -> Nat], s'.generated[s.order] > 0,
         \A o \in Orders \ {s.order} : s'.generated[o] = s.generated[o],
         {s'.fLimit, s'.nextFLimit} \subseteq 0 .. Infinite,
         s.fLimit <= s'.fLimit, s'.fLimit <= s'.nextFLimit,
         ~ IsIda => s'.fLimit = s.fLimit /\ s'.nextFLimit = s.nextFLimit,
         Marks => \A n \in Numbers : <<s.order, n>> \notin s.expanded
  PROVE  IndInv'
<1>1. Root \in Numbers /\ s.order \in Orders
  BY SpaceShape DEF IndInv, TypeOK
<1>2. TypeOK'
  BY <1>1, SameCall DEF IndInv, TypeOK, Phases
<1>3. Places'
  BY SameCall DEF Places, InHand, Open, NoPlan, Root
<1>4. Ends'
  BY SameCall DEF IndInv, Ends
<1>5. RootAlone'
  BY SameCall DEF IndInv, RootAlone
<1>6. \A o \in Orders' : Ranked(o)'
  <2>1. /\ s.fLimit \in Nat /\ s'.fLimit \in Nat
        /\ \A o \in Orders : \A e \in s.queues[o] : e.rank \in Nat
    BY SearchAssumption DEF IndInv, TypeOK, Entries
  <2>2. \A o \in Orders : \A e \in s.queues[o] : IsIda => e.rank <= s'.fLimit
    <3> SUFFICES ASSUME NEW o \in Orders, NEW e \in s.queues[o], IsIda PROVE e.rank <= s'.fLimit
      OBVIOUS
    <3>1. e.rank <= s.fLimit
      BY DEF IndInv, Ranked
    <3> QED BY <2>1, <3>1
  <2> QED BY <2>2, SameCall DEF IndInv, Ranked
<1>7. FiniteHand' /\ BestInHand'
  BY SearchAssumption DEF FiniteHand, BestInHand
<1>8. Limits'
  BY SameCall DEF IndInv, Limits
<1>9. Marking'
  <2>1. Marks => \A o \in Orders, n \in Numbers : Held(o, n)' => Held(o, n) \/ n = Root
    BY DEF Held
  <2>2. Marks => Descent'
    BY <2>1, SameCall DEF IndInv, Marking, Descent
  <2>3. Marks => Unexpanded'
    BY <1>1, SameCall DEF IndInv, Marking, Unexpanded
  <2> QED BY <2>2, <2>3, SameCall DEF IndInv, Marking
<1>10. Coverage'
  <2>1. CoveredIn(s.order)'
    <3>1. \A g \in Solutions(s.order) : Live(s.order, Root)' /\ Leads(s.order, Root, g)
      BY DEF Live, Leads, Solutions, SpaceSolutions
    <3> QED BY <1>1, <3>1, SameCall DEF CoveredIn
  <2>2. ASSUME NEW o \in Orders, o # s.order, CoveredIn(o),
               s'.fLimit = s.fLimit, s'.nextFLimit = s.nextFLimit
        PROVE  CoveredIn(o)'
    <3>1. \A n \in Numbers : Live(o, n) => Live(o, n)'
      BY <2>2 DEF Live, Queued
    <3> QED BY <2>2, <3>1, SameCall DEF CoveredIn, CutOff
  <2>3. SeenAreCovered'
    BY DEF SeenAreCovered
  <2>4. ASSUME NEW o \in Orders, Exact, ~ late, s'.generated[o] > 0, Open(o)'
        PROVE  CoveredIn(o)'
    <3>1. CASE o = s.order
      BY <2>1, <3>1
    <3>2. CASE o # s.order
      <4>1. ~ IsIda
        BY <1>1, <2>4, <3>2, SpaceShape DEF Exact, Orders, IndInv, TypeOK
      <4>2. s.generated[o] = s'.generated[o]
        BY <3>2
      <4>3. CoveredIn(o)
        BY <2>4, <4>2, SameCall DEF IndInv, Coverage, Open
      <4> QED BY <2>2, <3>2, <4>1, <4>3
    <3> QED BY <3>1, <3>2
  <2> QED BY <2>3, <2>4, SameCall DEF Coverage, Exact
<1>11. Answers'
  BY DEF Answers, NoSolutionIsProof, Outcome
<1> QED BY <1>2, <1>3, <1>4, <1>5, <1>6, <1>7, <1>8, <1>9, <1>10, <1>11 DEF IndInv

LEMMA TakeNextKeeps == IndInv /\ TakeNext => IndInv'
<1> SUFFICES ASSUME IndInv, TakeNext PROVE IndInv'
  OBVIOUS
<1>1. s.phase = "take" /\ UNCHANGED <<task, late>> /\ s.current = NoPlan
  BY DEF TakeNext, IndInv, Places
<1>2. CASE s.generated[s.order] = 0
  <2>1. s' = [s EXCEPT !.phase = "inner", !.current = Root, !.rank0 = 0,
                       !.generated[s.order] = 1, !.numGenerated = @ + 1]
    BY <1>2 DEF TakeNext
  <2>2. /\ s'.phase = "inner" /\ s'.current = Root /\ s'.rank0 = 0
        /\ s'.generated = [s.generated EXCEPT ![s.order] = 1]
        /\ s'.numGenerated = s.numGenerated + 1
        /\ UNCHANGED <<s.ids, s.queues, s.secondary, s.expanded, s.dropped, s.child, s.order,
                       s.stopped, s.ordersLeft, s.limitReached, s.fLimit, s.nextFLimit>>
    BY <2>1
  <2>3. s'.generated \in [Orders -> Nat] /\ s'.generated[s.order] > 0 /\ s'.numGenerated \in Nat
    BY <2>2 DEF IndInv, TypeOK
  <2>4. \A o \in Orders \ {s.order} : s'.generated[o] = s.generated[o]
    BY <2>2 DEF IndInv, TypeOK
  <2>5. /\ {s'.fLimit, s'.nextFLimit} \subseteq 0 .. Infinite
        /\ s.fLimit <= s'.fLimit /\ s'.fLimit <= s'.nextFLimit
    BY <2>2, SearchAssumption DEF IndInv, TypeOK, Limits
  <2>6. Marks => \A n \in Numbers : <<s.order, n>> \notin s.expanded
    BY <1>2 DEF IndInv, TypeOK, Marking, Unexpanded
  <2> QED BY <1>1, <2>2, <2>3, <2>4, <2>5, <2>6, StartKeeps
<1>3. CASE s.generated[s.order] # 0
  <2>1. s' = EnterPop(s)
    BY <1>3 DEF TakeNext
  <2>2. /\ s'.phase = "pop" /\ s'.current = NoPlan /\ s'.rank0 = 0 /\ UNCHANGED Stores
        /\ UNCHANGED <<s.child, s.generated, s.order, s.stopped, s.ordersLeft,
                       s.limitReached, s.fLimit, s.nextFLimit>>
    BY <2>1 DEF EnterPop, Stores
  <2>3. s.generated[s.order] > 0 /\ Open(s.order)
    BY <1>1, <1>3 DEF IndInv, TypeOK, Places, Open
  <2> QED BY <1>1, <2>2, <2>3, EmptyHandKeeps
<1> QED BY <1>2, <1>3

LEMMA PopNothingKeeps == IndInv /\ PopNothing => IndInv'
<1> SUFFICES ASSUME IndInv, PopNothing PROVE IndInv'
  OBVIOUS
<1>1. s.phase = "pop" /\ UNCHANGED <<task, late>> /\ s.current = NoPlan
  BY DEF PopNothing, IndInv, Places
<1>2. late \/ s.queues[s.order] = {}
  <2>1. late \/ s[PopSource(s)][s.order] = {}
    BY DEF PopNothing
  <2>2. ASSUME s[PopSource(s)][s.order] = {} PROVE s.queues[s.order] = {}
    <3>1. PopSource(s) = "queues" \/ (PopSource(s) = "secondary" /\ s.queues[s.order] = {})
      BY <2>2 DEF PopSource
    <3> QED BY <2>2, <3>1
  <2> QED BY <2>1, <2>2
<1>3. s' = [s EXCEPT !.phase = "outer"] \/ s' = [s EXCEPT !.phase = "outer", !.expandCount = Count(s)]
  BY DEF PopNothing
<1>4. /\ s'.phase = "outer" /\ s'.current = NoPlan /\ s'.rank0 = s.rank0 /\ UNCHANGED Stores
      /\ UNCHANGED <<s.child, s.generated, s.order, s.stopped, s.ordersLeft,
                     s.limitReached, s.fLimit, s.nextFLimit>>
  <2>1. CASE s' = [s EXCEPT !.phase = "outer"]
    BY <1>1, <2>1 DEF Stores
  <2>2. CASE s' = [s EXCEPT !.phase = "outer", !.expandCount = Count(s)]
    BY <1>1, <2>2 DEF Stores
  <2> QED BY <1>3, <2>1, <2>2
<1>5. s.generated[s.order] > 0 /\ Open(s.order) /\ s'.rank0 \in Nat
  BY <1>1, <1>4 DEF IndInv, TypeOK, Places
<1> QED BY <1>1, <1>2, <1>4, <1>5, EmptyHandKeeps

LEMMA EndOrDeepenKeeps == IndInv /\ EndOrDeepen => IndInv'
<1> SUFFICES ASSUME IndInv, EndOrDeepen PROVE IndInv'
  OBVIOUS
<1>1. s.phase = "outer" /\ UNCHANGED <<task, late>>
  BY DEF EndOrDeepen
<1>2. PICK stop \in (IF s.current = NoPlan /\ ~ s.stopped THEN StopAnswers ELSE {s.stopped}) :
        s' = IF stop \/ Solved(s) \/ s.nextFLimit = Infinite
             THEN [s EXCEPT !.phase = "done", !.stopped = stop]
             ELSE [s EXCEPT !.phase = "inner", !.current = Root, !.rank0 = 0,
                            !.fLimit = s.nextFLimit, !.nextFLimit = Infinite]
  BY DEF EndOrDeepen
<1>3. StopAnswers \subseteq BOOLEAN
  BY DEF StopAnswers
<1>4. stop \in BOOLEAN /\ (s.stopped => stop)
  BY <1>2, <1>3 DEF IndInv, TypeOK
<1>5. CASE stop \/ Solved(s) \/ s.nextFLimit = Infinite
  <2>1. s' = [s EXCEPT !.phase = "done", !.stopped = stop]
    BY <1>2, <1>5
  <2>2. /\ s'.phase = "done" /\ s'.stopped = stop /\ UNCHANGED Stores
        /\ UNCHANGED <<s.current, s.rank0, s.child, s.generated, s.order, s.ordersLeft,
                       s.limitReached, s.fLimit, s.nextFLimit>>
    BY <2>1 DEF Stores
  <2>3. TypeOK'
    BY <1>1, <1>4, <2>2, SameCall DEF IndInv, TypeOK, Stores, Phases
  <2>4. Places' /\ Ends'
    BY <1>1, <2>2, SameCall DEF IndInv, Places, Ends, InHand, Open
  <2>5. RootAlone'
    BY <1>1, <2>2, SameCall DEF IndInv, RootAlone, Stores
  <2>6. \A o \in Orders' : Ranked(o)'
    <3>1. s'.fLimit \in 0 .. Infinite /\ s.fLimit <= s'.fLimit
      BY <2>2, SearchAssumption DEF IndInv, TypeOK
    <3> QED BY <1>1, <2>2, <3>1, StoresKept, SameCall
  <2>7. FiniteHand' /\ Limits' /\ BestInHand'
    BY <1>1, <2>2, SameCall DEF IndInv, FiniteHand, Limits, BestInHand, InHand
  <2>8. Marking'
    BY <1>1, <2>2, SameCall DEF IndInv, Marking, Descent, Unexpanded, Held, Stores
  <2>9. Coverage'
    <3>1. \A o \in Orders : CoveredIn(o) => CoveredIn(o)'
      BY <1>1, <2>2, SameCall DEF CoveredIn, CutOff, Live, Queued, Stores
    <3>2. SeenAreCovered'
      BY <2>2 DEF SeenAreCovered
    <3> QED BY <1>1, <2>2, <3>1, <3>2, SameCall DEF IndInv, Coverage, Exact, Open, Stores
  <2>10. Solved(s)' = Solved(s)
    BY <1>1, <2>2, SameCall DEF Solved
  <2>11. \A g \in Solutions(1) : s'.phase \in {"outer", "done"} /\ Solved(s)' /\ s'.dropped = 0
              /\ Orderly' /\ Admissible(sp)' =>
            sp'.f[s'.current] <= sp'.f[sp'.inst[g]]
    BY <1>1, <2>2, <2>10, SameCall DEF IndInv, Answers, Stores
  <2>12. ASSUME Exact, Outcome' = "NoSolution" PROVE Solutions(1) = {}
    <3>1. ~ Solved(s) /\ ~ stop /\ ~ s.limitReached /\ s.dropped = 0
      BY <2>2, <2>10, <2>12 DEF Outcome, Stores, IndInv, TypeOK
    <3>2. s.nextFLimit = Infinite /\ ~ s.stopped
      BY <1>4, <1>5, <3>1
    <3>3. s.current = NoPlan
      BY <1>1, <3>1, <3>2 DEF IndInv, Ends, Solved
    <3>4. ~ late
      BY <1>2, <3>1, <3>2, <3>3 DEF StopAnswers, IndInv, TypeOK
    <3>5. s.queues[s.order] = {} /\ Open(s.order) /\ s.generated[s.order] > 0
      BY <1>1, <3>1, <3>2, <3>3, <3>4 DEF IndInv, Ends, Places
    <3>6. s.order \in Orders /\ CoveredIn(s.order)
      BY <2>12, <3>4, <3>5 DEF IndInv, TypeOK, Coverage
    <3>7. \A n \in Numbers : ~ Live(s.order, n)
      BY <3>3, <3>5, NoPlanIsNone DEF Live, Queued
    <3>8. Solutions(s.order) = {}
      <4> SUFFICES ASSUME NEW g \in Solutions(s.order) PROVE FALSE
        OBVIOUS
      <4>1. PICK n \in Numbers : Leads(s.order, n, g) /\ s.nextFLimit <= sp.f[n]
        BY <3>6, <3>7 DEF CoveredIn, CutOff
      <4>2. sp.f[n] \in Nat /\ sp.f[n] < Infinite
        BY <3>6, <4>1, LeadsFinite DEF IndInv, TypeOK
      <4> QED BY <3>2, <4>1, <4>2, SearchAssumption
    <3> QED BY <3>6, <3>8, AsComplete, SpaceShape DEF IndInv, TypeOK
  <2>13. Answers'
    BY <1>1, <2>2, <2>11, <2>12, SameCall DEF Answers, NoSolutionIsProof, Exact, Stores
  <2> QED BY <2>3, <2>4, <2>5, <2>6, <2>7, <2>8, <2>9, <2>13 DEF IndInv
<1>6. CASE ~ (stop \/ Solved(s) \/ s.nextFLimit = Infinite)
  <2>1. s' = [s EXCEPT !.phase = "inner", !.current = Root, !.rank0 = 0,
                       !.fLimit = s.nextFLimit, !.nextFLimit = Infinite]
    BY <1>2, <1>6
  <2>2. /\ s'.phase = "inner" /\ s'.current = Root /\ s'.rank0 = 0
        /\ s'.fLimit = s.nextFLimit /\ s'.nextFLimit = Infinite
        /\ s'.generated = s.generated /\ s'.numGenerated = s.numGenerated
        /\ UNCHANGED <<s.ids, s.queues, s.secondary, s.expanded, s.dropped, s.child, s.order,
                       s.stopped, s.ordersLeft, s.limitReached>>
    BY <2>1
  <2>3. s'.generated \in [Orders -> Nat] /\ s'.generated[s.order] > 0 /\ s'.numGenerated \in Nat
    BY <1>1, <2>2 DEF IndInv, TypeOK, Places
  <2>4. IsIda
    BY <1>6 DEF IndInv, Limits
  <2>5. /\ {s'.fLimit, s'.nextFLimit} \subseteq 0 .. Infinite
        /\ s.fLimit <= s'.fLimit /\ s'.fLimit <= s'.nextFLimit
    BY <2>2, SearchAssumption DEF IndInv, TypeOK, Limits
  <2>6. ~ Marks
    BY <2>4 DEF Marks, IsIda, IsDual, IsAlt
  <2> QED BY <1>1, <2>2, <2>3, <2>4, <2>5, <2>6, StartKeeps
<1> QED BY <1>5, <1>6

LEMMA PopEntryKeeps == IndInv /\ PopEntry => IndInv'
<1> SUFFICES ASSUME IndInv, PopEntry PROVE IndInv'
  OBVIOUS
<1> DEFINE o0 == s.order
           src == PopSource(s)
<1>1. /\ s.phase = "pop" /\ UNCHANGED <<task, late>> /\ s.current = NoPlan
      /\ s.generated[o0] > 0 /\ Open(o0) /\ o0 \in Orders
  BY DEF PopEntry, IndInv, Places, TypeOK
<1>2. src \in {"queues", "secondary"}
  BY DEF PopSource
<1>3. PICK e \in BestOf(s[src][o0]) :
        LET r == [s EXCEPT ![src][o0] = @ \ {e}, !.expandCount = Count(s)] IN
        s' = IF Stale(e) THEN r
             ELSE IF ~ e.lazy
                  THEN [r EXCEPT !.phase = "inner", !.current = e.plan, !.rank0 = e.rank]
             ELSE Evaluated(r, e)
  BY DEF PopEntry
<1> DEFINE r == [s EXCEPT ![src][o0] = @ \ {e}, !.expandCount = Count(s)]
           new == Entry(e.plan, QueueRank(e.plan), FALSE)
           goes == ~ Stale(e) /\ ~ e.lazy
           back == ~ Stale(e) /\ e.lazy /\ QueueRank(e.plan) # Infinite
<1>4. /\ r.queues = [s.queues EXCEPT ![o0] = IF src = "queues" THEN @ \ {e} ELSE @]
      /\ r.secondary = [s.secondary EXCEPT ![o0] = IF src = "queues" THEN @ ELSE @ \ {e}]
      /\ <<r.phase, r.current, r.rank0>> = <<s.phase, s.current, s.rank0>>
      /\ <<r.ids, r.expanded, r.numGenerated, r.dropped, r.child, r.generated, r.order, r.stopped,
           r.ordersLeft, r.limitReached, r.fLimit, r.nextFLimit>> =
         <<s.ids, s.expanded, s.numGenerated, s.dropped, s.child, s.generated, s.order, s.stopped,
           s.ordersLeft, s.limitReached, s.fLimit, s.nextFLimit>>
  <2>1. CASE src = "queues"
    <3>1. r = [s EXCEPT !.queues[o0] = @ \ {e}, !.expandCount = Count(s)]
      BY <2>1
    <3>2. s.secondary = [s.secondary EXCEPT ![o0] = @]
      BY DEF IndInv, TypeOK
    <3> HIDE DEF src, r
    <3> QED BY <2>1, <3>1, <3>2
  <2>2. CASE src = "secondary"
    <3>1. r = [s EXCEPT !.secondary[o0] = @ \ {e}, !.expandCount = Count(s)]
      BY <2>2
    <3>2. s.queues = [s.queues EXCEPT ![o0] = @]
      BY DEF IndInv, TypeOK
    <3> HIDE DEF src, r
    <3> QED BY <2>2, <3>1, <3>2
  <2> QED BY <1>2, <2>1, <2>2
<1> HIDE DEF r
<1>5. s' = IF goes THEN [r EXCEPT !.phase = "inner", !.current = e.plan, !.rank0 = e.rank]
           ELSE IF back THEN [r EXCEPT !.queues[r.order] = @ \cup {new}] ELSE r
  BY <1>3 DEF Evaluated, r
<1>6. /\ s'.queues = IF back THEN [r.queues EXCEPT ![o0] = @ \cup {new}] ELSE r.queues
      /\ s'.secondary = r.secondary
      /\ s'.phase = (IF goes THEN "inner" ELSE s.phase)
      /\ s'.current = (IF goes THEN e.plan ELSE s.current)
      /\ s'.rank0 = (IF goes THEN e.rank ELSE s.rank0)
      /\ UNCHANGED <<s.ids, s.expanded, s.numGenerated, s.dropped, s.child, s.generated, s.order,
                     s.stopped, s.ordersLeft, s.limitReached, s.fLimit, s.nextFLimit>>
  BY <1>4, <1>5
<1>7. /\ e \in Entries /\ e.plan \in Numbers /\ e.rank \in Nat
      /\ (src = "queues" /\ e \in s.queues[o0]) \/ (src = "secondary" /\ e \in s.secondary[o0])
  <2>1. e \in s[src][o0]
    BY DEF BestOf
  <2>2. (src = "queues" /\ e \in s.queues[o0]) \/ (src = "secondary" /\ e \in s.secondary[o0])
    BY <1>2, <2>1
  <2> HIDE DEF src
  <2>3. e \in Entries
    BY <1>1, <2>2 DEF IndInv, TypeOK
  <2> QED BY <2>2, <2>3 DEF Entries
<1> HIDE DEF src
<1>8. /\ QueueRank(e.plan) \in 0 .. Infinite
      /\ new.plan = e.plan /\ new.rank = QueueRank(e.plan) /\ new.lazy = FALSE
      /\ back => new \in Entries /\ new.rank < Infinite
  <2>1. QueueRank(e.plan) \in 0 .. Infinite
    BY <1>7, RankType DEF IndInv, TypeOK
  <2>2. new.plan = e.plan /\ new.rank = QueueRank(e.plan) /\ new.lazy = FALSE
    BY DEF Entry
  <2>3. QueueRank(e.plan) \in Nat /\ (back => QueueRank(e.plan) < Infinite)
    BY <2>1, SearchAssumption
  <2>4. new \in Entries
    BY <1>7, <2>3 DEF Entry, Entries
  <2> QED BY <2>1, <2>2, <2>3, <2>4
<1> HIDE DEF new
<1>9. /\ \A o \in Orders : s'.queues[o] \subseteq s.queues[o] \cup (IF o = o0 /\ back THEN {new} ELSE {})
      /\ \A o \in Orders : s'.secondary[o] \subseteq s.secondary[o]
      /\ \A o \in Orders : \A d \in s.queues[o] :
           d \in s'.queues[o] \/ (o = o0 /\ d = e /\ src = "queues")
      /\ back => new \in s'.queues[o0]
      /\ DOMAIN s'.queues = Orders /\ DOMAIN s'.secondary = Orders
  <2>1. DOMAIN s.queues = Orders /\ DOMAIN s.secondary = Orders
    BY DEF IndInv, TypeOK
  <2> HIDE DEF back, goes
  <2> QED BY <1>1, <1>4, <1>6, <2>1
<1>10. TypeOK'
  <2>1. \A o \in Orders : s'.queues[o] \in SUBSET Entries /\ s'.secondary[o] \in SUBSET Entries
    BY <1>8, <1>9 DEF IndInv, TypeOK
  <2>2. \A o \in Orders : IsFiniteSet(s'.queues[o])
    <3> SUFFICES ASSUME NEW o \in Orders PROVE IsFiniteSet(s'.queues[o])
      OBVIOUS
    <3>1. IsFiniteSet(s.queues[o] \cup {new})
      BY FS_AddElement DEF IndInv, TypeOK
    <3>2. s'.queues[o] \subseteq s.queues[o] \cup {new}
      BY <1>9
    <3> QED BY <3>1, <3>2, FS_Subset
  <2>3. s'.queues \in [Orders -> SUBSET Entries] /\ s'.secondary \in [Orders -> SUBSET Entries]
    <3> HIDE DEF back, goes
    <3>0. s.queues \in [Orders -> SUBSET Entries] /\ s.secondary \in [Orders -> SUBSET Entries]
      BY DEF IndInv, TypeOK
    <3>1. s'.queues = [o \in Orders |-> s'.queues[o]]
      <4>1. r.queues = [o \in Orders |-> r.queues[o]]
        BY <1>4, <3>0
      <4>2. s'.queues = r.queues \/ s'.queues = [r.queues EXCEPT ![o0] = @ \cup {new}]
        BY <1>6
      <4> QED BY <4>1, <4>2
    <3>2. s'.secondary = [o \in Orders |-> s'.secondary[o]]
      <4>1. r.secondary = [o \in Orders |-> r.secondary[o]]
        BY <1>4, <3>0
      <4>2. s'.secondary = r.secondary
        BY <1>6
      <4> QED BY <4>1, <4>2
    <3> QED BY <2>1, <3>1, <3>2
  <2>4. s'.phase \in Phases /\ s'.current \in Numbers \cup {NoPlan} /\ s'.rank0 \in Nat
    BY <1>6, <1>7 DEF IndInv, TypeOK, Phases
  <2> QED BY <1>1, <1>6, <2>2, <2>3, <2>4, SameCall DEF IndInv, TypeOK
<1>11. Places'
  <2>1. goes => s'.phase = "inner" /\ s'.current # NoPlan
    BY <1>6, <1>7, NoPlanIsNone
  <2>2. ~ goes => s'.phase = "pop" /\ s'.current = NoPlan
    BY <1>1, <1>6
  <2>3. s'.generated = s.generated /\ s'.order = s.order
    BY <1>6
  <2>4. (s.generated[s.order] > 0)' /\ Open(s.order)'
    BY <1>1, <2>3, SameCall DEF Open
  <2>5. s'.phase = "inner" \/ s'.phase = "pop"
    BY <2>1, <2>2
  <2>6. s'.phase = "inner" => s'.current # NoPlan
    BY <2>1, <2>2
  <2>7. s'.phase = "pop" => s'.current = NoPlan
    BY <2>1, <2>2
  <2> QED BY <2>4, <2>5, <2>6, <2>7 DEF Places, InHand
<1>12. Ends'
  BY <1>1, <1>6 DEF IndInv, Ends
<1>13. RootAlone'
  <2>1. Complete(sp, Root) => Complete(sp, e.plan)
    BY <1>1, <1>7 DEF IndInv, RootAlone
  <2>2. s'.current # NoPlan => s'.current = e.plan
    BY <1>1, <1>6
  <2>3. \A o \in Orders : \A d \in s'.queues[o] \cup s'.secondary[o] :
          d \in s.queues[o] \cup s.secondary[o] \/ d.plan = e.plan
    BY <1>8, <1>9
  <2> QED BY <1>1, <2>1, <2>2, <2>3, SameCall DEF IndInv, RootAlone
<1>14. e.lazy => IsLazy
  BY <1>1, <1>7 DEF IndInv, Ranked, IsLazy, IsDual
<1>15. \A o \in Orders' : Ranked(o)'
  <2>1. \A o \in Orders : \A d \in s'.queues[o] : d \in s.queues[o] \/ (d = new /\ back)
    BY <1>9
  <2>2. back => IsLazy /\ ~ IsIda
    BY <1>14 DEF IsLazy, IsIda
  <2> SUFFICES ASSUME NEW o \in Orders PROVE Ranked(o)'
    BY <1>1, SameCall
  <2>3. \A d \in s'.queues[o] :
          /\ d.rank < Infinite
          /\ IF d.lazy THEN IsLazy ELSE d.rank = QueueRank(d.plan)
          /\ IsIda => d.rank <= s.fLimit
    BY <1>8, <2>1, <2>2 DEF IndInv, Ranked
  <2>4. \A d \in s'.secondary[o] : IF d.lazy THEN IsDual ELSE IsDual => Complete(sp, d.plan)
    BY <1>9 DEF IndInv, Ranked
  <2> QED BY <1>1, <1>6, <2>3, <2>4, SameCall DEF Ranked
<1>16. src = "secondary" => IsDual \/ IsAlt
  BY DEF src, PopSource, UsesSecondary
<1>17. FiniteHand'
  <2>1. ASSUME goes, IsLazy, ~ Complete(sp, e.plan) PROVE e.rank < Infinite
    <3>1. src = "secondary" => IsDual
      BY <1>16, <2>1 DEF IsAlt, IsLazy
    <3>2. src = "queues"
      BY <1>1, <1>7, <2>1, <3>1 DEF IndInv, Ranked
    <3> QED BY <1>1, <1>7, <3>2 DEF IndInv, Ranked
  <2>2. InHand' => goes /\ s'.rank0 = e.rank /\ s'.current = e.plan
    BY <1>1, <1>6 DEF InHand
  <2> QED BY <1>1, <2>1, <2>2, SameCall DEF FiniteHand
<1>18. Limits'
  BY <1>1, <1>6, SameCall DEF IndInv, Limits
<1>19. BestInHand'
  <2>1. ASSUME Orderly, s'.phase = "inner"
        PROVE  /\ \A d \in s'.queues[o0] : sp.f[e.plan] <= d.rank
               /\ IsIda => sp.f[e.plan] <= s.fLimit
    <3>1. goes
      BY <1>1, <1>6, <2>1
    <3>2. src = "queues" /\ ~ back
      BY <1>2, <1>16, <2>1, <3>1 DEF Orderly, IsIda, IsDual, IsAlt
    <3>3. \A d \in s.queues[o0] : e.rank <= d.rank
      BY <3>2 DEF BestOf
    <3>4. e.rank = sp.f[e.plan]
      <4>1. ~ e.lazy /\ e \in s.queues[o0]
        BY <1>7, <3>1, <3>2
      <4>2. e.rank = QueueRank(e.plan)
        BY <1>1, <4>1 DEF IndInv, Ranked
      <4> QED BY <2>1, <4>2 DEF QueueRank, Orderly, IsIda, IsGbfs
    <3>5. IsIda => e.rank <= s.fLimit
      BY <1>1, <1>7, <3>2 DEF IndInv, Ranked
    <3> QED BY <1>1, <1>9, <3>2, <3>3, <3>4, <3>5
  <2>2. s'.phase = "inner" => s'.current = e.plan
    BY <1>1, <1>6
  <2> QED BY <1>1, <1>6, <2>1, <2>2, SameCall DEF BestInHand
<1>20. Marking'
  <2>1. \A o \in Orders, n \in Numbers : Held(o, n)' => Held(o, n)
    <3> SUFFICES ASSUME NEW o \in Orders, NEW n \in Numbers, Held(o, n)' PROVE Held(o, n)
      OBVIOUS
    <3>1. Held(o0, e.plan)
      BY <1>7 DEF Held
    <3>2. CASE <<o, n>> \in s'.expanded
      BY <1>6, <3>2 DEF Held
    <3>3. CASE \E d \in s'.queues[o] \cup s'.secondary[o] : d.plan = n
      BY <1>8, <1>9, <3>1, <3>3 DEF Held
    <3>4. CASE o = s'.order /\ n = s'.current
      BY <1>1, <1>6, <3>1, <3>4, NoPlanIsNone
    <3> QED BY <3>2, <3>3, <3>4 DEF Held
  <2>2. Marks => Descent'
    BY <1>1, <1>6, <2>1, SameCall DEF IndInv, Marking, Descent
  <2>3. goes => <<o0, e.plan>> \notin s.expanded
    BY DEF Stale
  <2>4. Marks => Unexpanded'
    BY <1>1, <1>6, <2>3, SameCall DEF IndInv, Marking, Unexpanded
  <2> QED BY <1>1, <1>6, <2>2, <2>4, SameCall DEF IndInv, Marking
<1>21. Coverage'
  <2>1. ASSUME NEW o \in Orders, CoveredIn(o) PROVE CoveredIn(o)'
    <3>1. ASSUME NEW g \in Solutions(o), NEW n \in Numbers, Live(o, n), Leads(o, n, g)
          PROVE  Live(o, n)'
      <4>1. PICK d \in s.queues[o] : d.plan = n /\ <<o, n>> \notin s.expanded
        BY <1>1, <3>1, NoPlanIsNone DEF Live, Queued
      <4>2. CASE d \in s'.queues[o]
        BY <1>6, <4>1, <4>2 DEF Live, Queued
      <4>3. CASE o = o0 /\ d = e /\ ~ e.lazy
        <5>1. goes
          BY <4>1, <4>3 DEF Stale
        <5> QED BY <1>6, <4>1, <4>3, <5>1 DEF Live
      <4>4. CASE o = o0 /\ d = e /\ e.lazy
        <5>1. QueueRank(n) \in Nat /\ QueueRank(n) < Infinite
          BY <3>1, LeadsFinite DEF IndInv, TypeOK
        <5>2. back
          BY <4>1, <4>4, <5>1, SearchAssumption DEF Stale
        <5> QED BY <1>6, <1>8, <1>9, <4>1, <4>4, <5>2 DEF Live, Queued
      <4> QED BY <1>9, <4>2, <4>3, <4>4
    <3>2. s'.nextFLimit \in 0 .. Infinite /\ s'.nextFLimit <= s.nextFLimit
      BY <1>6, SearchAssumption DEF IndInv, TypeOK
    <3> QED BY <1>1, <1>6, <2>1, <3>1, <3>2, StaysCovered DEF IndInv
  <2>2. SeenAreCovered'
    BY <1>1, <1>6 DEF SeenAreCovered
  <2> QED BY <1>1, <1>6, <2>1, <2>2, SameCall DEF IndInv, Coverage, Exact, Open
<1>22. Answers'
  BY <1>1, <1>6 DEF Answers, NoSolutionIsProof, Outcome
<1> QED BY <1>10, <1>11, <1>12, <1>13, <1>15, <1>17, <1>18, <1>19, <1>20, <1>21, <1>22 DEF IndInv

LEMMA DescentKept ==
  ASSUME Descent, task' = task, s.expanded \subseteq s'.expanded,
         \A o \in Orders, n \in Numbers : Held(o, n)' =>
           \/ Held(o, n) \/ n = Root
           \/ \E m \in Numbers : n \in MadeOf(sp, o, m) /\ <<o, m>> \in s'.expanded
  PROVE  Descent'
<1>1. \A o \in Orders, n \in Numbers : Held(o, n)' =>
        n = Root \/ \E m \in Numbers : n \in MadeOf(sp, o, m) /\ <<o, m>> \in s'.expanded
  BY DEF Descent
<1> QED BY <1>1, SameCall DEF Descent

\* What marking the plan in hand does to the marks.
LEMMA MarkedShape ==
  ASSUME NEW n
  PROVE  /\ Marked(s, n).expanded = IF Marks THEN s.expanded \cup {<<s.order, n>>} ELSE s.expanded
         /\ LET r == Marked(s, n) IN
            <<r.phase, r.current, r.rank0, r.ids, r.queues, r.secondary, r.numGenerated, r.dropped,
              r.child, r.generated, r.order, r.stopped, r.ordersLeft, r.limitReached, r.fLimit,
              r.nextFLimit>> =
            <<s.phase, s.current, s.rank0, s.ids, s.queues, s.secondary, s.numGenerated, s.dropped,
              s.child, s.generated, s.order, s.stopped, s.ordersLeft, s.limitReached, s.fLimit,
              s.nextFLimit>>
<1>1. CASE Marks
  BY <1>1 DEF Marked, Marks
<1>2. CASE ~ Marks
  BY <1>2 DEF Marked, Marks
<1> QED BY <1>1, <1>2

\* What pushing a plan does to the queues.
IsPushed(q, r, n, id, rank, lazy) ==
  /\ q.ids = [r.ids EXCEPT ![n] = id]
  /\ q.queues = [r.queues EXCEPT ![r.order] = @ \cup {Entry(n, rank, lazy)}]
  /\ q.secondary =
       IF Marks
       THEN [r.secondary EXCEPT ![r.order] =
               @ \cup {IF IsDual THEN Entry(n, id, lazy) ELSE Entry(n, sp.h[n], lazy)}]
       ELSE r.secondary
  /\ q.numGenerated = r.numGenerated + 1
  /\ <<q.phase, q.current, q.rank0, q.expanded, q.dropped, q.child, q.generated, q.order,
       q.stopped, q.ordersLeft, q.limitReached, q.fLimit, q.nextFLimit>> =
     <<r.phase, r.current, r.rank0, r.expanded, r.dropped, r.child, r.generated, r.order,
       r.stopped, r.ordersLeft, r.limitReached, r.fLimit, r.nextFLimit>>

LEMMA PushedShape ==
  ASSUME NEW r, NEW n, NEW id, NEW rank, NEW lazy, r.order \in Orders,
         r.secondary \in [Orders -> SUBSET Entries], r.queues \in [Orders -> SUBSET Entries]
  PROVE  IsPushed(Pushed(r, n, id, rank, lazy), r, n, id, rank, lazy)
<1> DEFINE q == Pushed(r, n, id, rank, lazy)
           snd == IF IsDual THEN Entry(n, id, lazy) ELSE Entry(n, sp.h[n], lazy)
           both == IF IsDual THEN r.secondary[r.order] \cup {Entry(n, id, lazy)}
                   ELSE IF IsAlt THEN r.secondary[r.order] \cup {Entry(n, sp.h[n], lazy)}
                   ELSE r.secondary[r.order]
<1>1. q = [r EXCEPT !.ids[n] = id, !.queues[r.order] = @ \cup {Entry(n, rank, lazy)},
                    !.secondary[r.order] = both, !.numGenerated = @ + 1]
  BY DEF Pushed
<1>2. [r.secondary EXCEPT ![r.order] = both] =
        IF Marks THEN [r.secondary EXCEPT ![r.order] = @ \cup {snd}] ELSE r.secondary
  <2>1. CASE Marks
    BY <2>1 DEF Marks
  <2>2. CASE ~ Marks
    BY <2>2 DEF Marks
  <2> QED BY <2>1, <2>2
<1> HIDE DEF both, snd, q
<1>3. /\ q.ids = [r.ids EXCEPT ![n] = id]
      /\ q.queues = [r.queues EXCEPT ![r.order] = @ \cup {Entry(n, rank, lazy)}]
      /\ q.secondary = [r.secondary EXCEPT ![r.order] = both]
      /\ q.numGenerated = r.numGenerated + 1
  BY <1>1
<1>4. <<q.phase, q.current, q.rank0, q.expanded, q.dropped, q.child, q.generated, q.order,
        q.stopped, q.ordersLeft, q.limitReached, q.fLimit, q.nextFLimit>> =
      <<r.phase, r.current, r.rank0, r.expanded, r.dropped, r.child, r.generated, r.order,
        r.stopped, r.ordersLeft, r.limitReached, r.fLimit, r.nextFLimit>>
  BY <1>1
<1>5. snd = IF IsDual THEN Entry(n, id, lazy) ELSE Entry(n, sp.h[n], lazy)
  BY DEF snd
<1>6. IsPushed(q, r, n, id, rank, lazy)
  BY <1>2, <1>3, <1>4, <1>5 DEF IsPushed
<1> QED BY <1>6 DEF q

\* The plan in hand, when it is a solution of A* or IDA*, is a cheapest one.
LEMMA BestIsCheapest ==
  ASSUME IndInv, s.phase = "inner", Orderly, Admissible(sp), s.dropped = 0, ~ late,
         NEW g \in Solutions(1)
  PROVE  sp.f[s.current] <= sp.f[sp.inst[g]]
<1> DEFINE n == s.current
           o0 == s.order
<1>1. n \in Numbers /\ o0 \in Orders /\ 1 \in Orders /\ Infinite \in Nat
  BY SpaceShape, SearchAssumption DEF IndInv, TypeOK, Places, InHand
<1>2. CASE n = Root
  <2>1. Leads(1, Root, g)
    BY DEF Leads, Solutions, SpaceSolutions
  <2> QED BY <1>1, <1>2, <2>1, LeadsCheap DEF IndInv, TypeOK
<1>3. CASE n # Root
  <2>1. PICK g2 \in Solutions(o0) : sp.f[sp.inst[g2]] <= sp.f[sp.inst[g]]
    BY <1>1, AsCheap DEF IndInv, TypeOK
  <2>2. \A m \in Numbers : sp.f[m] \in Nat
    BY <1>1, SpaceShape DEF IndInv, TypeOK
  <2>3. /\ g2 \in Numbers /\ Leads(o0, g2, g2) /\ Complete(sp, g2) /\ sp.inst[g2] # Fails
        /\ g \in Numbers /\ Complete(sp, g) /\ sp.inst[g] # Fails
    BY <1>1, Instances, Below DEF IndInv, TypeOK, Solutions, SpaceSolutions, Leads
  <2>4. sp.inst[g2] \in Numbers /\ sp.inst[g] \in Numbers
    BY <1>1, <2>3, Instances DEF IndInv, TypeOK
  <2>5. CoveredIn(o0)
    BY <1>1, <1>3 DEF IndInv, Places, Coverage, Exact, Orderly, IsIda
  <2>6. sp.f[n] <= sp.f[sp.inst[g2]]
    <3>1. CASE CutOff(o0, g2)
      <4>1. PICK m \in Numbers : Leads(o0, m, g2) /\ s.fLimit < sp.f[m] /\ s.nextFLimit <= sp.f[m]
        BY <3>1 DEF CutOff
      <4>2. sp.f[m] < Infinite /\ sp.f[m] <= sp.f[sp.inst[g2]]
        BY <1>1, <4>1, LeadsFinite, LeadsCheap DEF IndInv, TypeOK
      <4>3. s.nextFLimit \in Nat /\ s.fLimit \in Nat
        BY <1>1 DEF IndInv, TypeOK
      <4>4. IsIda
        BY <1>1, <2>2, <4>1, <4>2, <4>3 DEF IndInv, Limits
      <4>5. sp.f[n] <= s.fLimit
        BY <1>3, <4>4 DEF IndInv, BestInHand
      <4> QED BY <1>1, <2>2, <2>4, <4>1, <4>2, <4>3, <4>5
    <3>2. CASE \E m \in Numbers : Live(o0, m) /\ Leads(o0, m, g2)
      <4>1. PICK m \in Numbers : Live(o0, m) /\ Leads(o0, m, g2)
        BY <3>2
      <4>2. sp.f[m] <= sp.f[sp.inst[g2]]
        BY <1>1, <4>1, LeadsCheap DEF IndInv, TypeOK
      <4>3. CASE m = n
        BY <4>2, <4>3
      <4>4. CASE m # n
        <5>1. PICK e \in s.queues[o0] : e.plan = m
          BY <4>1, <4>4 DEF Live, Queued
        <5>2. e.rank = QueueRank(m)
          BY <1>1, <5>1 DEF IndInv, Ranked, Orderly, IsLazy, IsIda
        <5>3. QueueRank(m) = sp.f[m]
          BY DEF QueueRank, Orderly, IsIda, IsGbfs
        <5>4. sp.f[n] <= e.rank
          BY <1>3, <5>1 DEF IndInv, BestInHand
        <5> QED BY <1>1, <2>2, <2>4, <4>1, <4>2, <5>2, <5>3, <5>4
      <4> QED BY <4>3, <4>4
    <3> QED BY <2>5, <3>1, <3>2 DEF CoveredIn
  <2> QED BY <1>1, <2>1, <2>2, <2>4, <2>6
<1> QED BY <1>2, <1>3

LEMMA SolvedKeeps ==
  ASSUME IndInv, UNCHANGED <<task, late>>, s.phase = "inner", ~ late, Complete(sp, s.current),
         s' = [Marked(s, s.current) EXCEPT !.current = s.current, !.phase = "outer"]
  PROVE  IndInv'
<1> DEFINE n == s.current
<1>1. /\ s'.phase = "outer" /\ s'.current = s.current
      /\ s'.expanded = IF Marks THEN s.expanded \cup {<<s.order, n>>} ELSE s.expanded
      /\ UNCHANGED <<s.rank0, s.ids, s.queues, s.secondary, s.numGenerated, s.dropped, s.child,
                     s.generated, s.order, s.stopped, s.ordersLeft, s.limitReached, s.fLimit,
                     s.nextFLimit>>
  BY MarkedShape
<1>2. n \in Numbers /\ n # NoPlan /\ s.order \in Orders /\ s.generated[s.order] > 0
  BY DEF IndInv, TypeOK, Places, InHand
<1>3. TypeOK'
  BY <1>1, SameCall DEF IndInv, TypeOK, Phases
<1>4. Places' /\ Ends'
  BY <1>1, <1>2, SameCall DEF IndInv, Places, Ends, InHand
<1>5. RootAlone'
  BY <1>1, SameCall DEF IndInv, RootAlone
<1>6. \A o \in Orders' : Ranked(o)'
  BY <1>1, SameCall DEF IndInv, Ranked
<1>7. FiniteHand' /\ Limits' /\ BestInHand'
  BY <1>1, SameCall DEF IndInv, FiniteHand, Limits, BestInHand, InHand
<1>8. Marking'
  <2>1. \A o \in Orders, m \in Numbers : Held(o, m)' => Held(o, m)
    BY <1>1 DEF Held
  <2>2. Marks => Descent'
    BY <1>1, <2>1, DescentKept DEF IndInv, Marking
  <2>3. \A o \in Orders, m \in Numbers : s.generated[o] = 0 => <<o, m>> # <<s.order, n>>
    BY <1>2
  <2>4. Marks => Unexpanded'
    BY <1>1, <2>3, SameCall DEF IndInv, Marking, Unexpanded
  <2> QED BY <1>1, <2>2, <2>4, SameCall DEF IndInv, Marking
<1>9. Coverage'
  <2>1. \A o \in Orders, m \in Numbers : Live(o, m) => Live(o, m)'
    BY <1>1 DEF Live, Queued
  <2>2. \A o \in Orders : CoveredIn(o) => CoveredIn(o)'
    BY <1>1, <2>1, SameCall DEF CoveredIn, CutOff
  <2>3. SeenAreCovered'
    BY <1>1 DEF SeenAreCovered
  <2> QED BY <1>1, <2>2, <2>3, SameCall DEF IndInv, Coverage, Exact, Open
<1>10. Answers'
  BY <1>1, BestIsCheapest, SameCall DEF Answers, NoSolutionIsProof, Outcome
<1> QED BY <1>3, <1>4, <1>5, <1>6, <1>7, <1>8, <1>9, <1>10 DEF IndInv

LEMMA InstantiateCompleteKeeps == IndInv /\ InstantiateComplete => IndInv'
<1> SUFFICES ASSUME IndInv, InstantiateComplete PROVE IndInv'
  OBVIOUS
<1> DEFINE n == s.current
           o0 == s.order
           i == IF task.canTimeOut /\ late THEN Fails ELSE sp.inst[n]
           r == Marked(s, n)
           cut == IsIda /\ QueueRank(i) > r.fLimit
           requeued ==
             IF i = Fails \/ QueueRank(i) = Infinite THEN r
             ELSE IF cut THEN [r EXCEPT !.nextFLimit = Min({@, QueueRank(i)})]
                  ELSE Pushed(r, i, r.ids[n], QueueRank(i), FALSE)
<1>1. /\ s.phase = "inner" /\ Complete(sp, n) /\ UNCHANGED <<task, late>>
      /\ n \in Numbers /\ n # NoPlan /\ o0 \in Orders /\ s.generated[o0] > 0
  BY DEF InstantiateComplete, IndInv, TypeOK, Places, InHand
<1>2. IF AtQueuedCost(n, i)
      THEN s' = [r EXCEPT !.current = i, !.phase = "outer"]
      ELSE \E stop \in StopAnswers :
             s' = IF stop
                  THEN [requeued EXCEPT !.stopped = TRUE, !.current = NoPlan, !.phase = "outer"]
                  ELSE EnterPop(requeued)
  BY DEF InstantiateComplete
<1>3. CASE i = n
  <2>1. s' = [r EXCEPT !.current = s.current, !.phase = "outer"]
    BY <1>2, <1>3 DEF AtQueuedCost
  <2>2. ~ late
    BY <1>1, <1>3 DEF Fails, NoPlan, IndInv, TypeOK
  <2> QED BY <1>1, <2>1, <2>2, SolvedKeeps
<1>4. CASE i # n
  <2> DEFINE push == i # Fails /\ QueueRank(i) # Infinite /\ ~ cut
             skip == i # Fails /\ QueueRank(i) # Infinite /\ cut
             new == Entry(i, QueueRank(i), FALSE)
             newd == IF IsDual THEN Entry(i, s.ids[n], FALSE) ELSE Entry(i, sp.h[i], FALSE)
  <2>1. PICK stop \in StopAnswers :
          s' = IF stop
               THEN [requeued EXCEPT !.stopped = TRUE, !.current = NoPlan, !.phase = "outer"]
               ELSE EnterPop(requeued)
    BY <1>2, <1>4 DEF AtQueuedCost
  <2>2. stop \in BOOLEAN
    BY <2>1 DEF StopAnswers
  <2>3. /\ requeued.queues = IF push THEN [s.queues EXCEPT ![o0] = @ \cup {new}] ELSE s.queues
        /\ requeued.secondary =
             IF push /\ Marks THEN [s.secondary EXCEPT ![o0] = @ \cup {newd}] ELSE s.secondary
        /\ requeued.ids = IF push THEN [s.ids EXCEPT ![i] = s.ids[n]] ELSE s.ids
        /\ requeued.numGenerated = IF push THEN s.numGenerated + 1 ELSE s.numGenerated
        /\ requeued.nextFLimit = IF skip THEN Min({s.nextFLimit, QueueRank(i)}) ELSE s.nextFLimit
        /\ requeued.expanded = IF Marks THEN s.expanded \cup {<<o0, n>>} ELSE s.expanded
        /\ <<requeued.rank0, requeued.dropped, requeued.child, requeued.generated, requeued.order,
             requeued.stopped, requeued.ordersLeft, requeued.limitReached, requeued.fLimit>> =
           <<s.rank0, s.dropped, s.child, s.generated, s.order, s.stopped, s.ordersLeft,
             s.limitReached, s.fLimit>>
    <3> HIDE DEF n, r
    <3>1. CASE push
      <4>1. requeued = Pushed(r, i, r.ids[n], QueueRank(i), FALSE)
        BY <3>1
      <4>2. /\ r.order = o0 /\ r.secondary = s.secondary /\ r.queues = s.queues /\ r.ids = s.ids
            /\ r.numGenerated = s.numGenerated /\ r.nextFLimit = s.nextFLimit
            /\ r.expanded = IF Marks THEN s.expanded \cup {<<o0, n>>} ELSE s.expanded
            /\ <<r.rank0, r.dropped, r.child, r.generated, r.stopped, r.ordersLeft, r.limitReached,
                 r.fLimit>> = <<s.rank0, s.dropped, s.child, s.generated, s.stopped,
                                s.ordersLeft, s.limitReached, s.fLimit>>
        BY MarkedShape DEF r, n
      <4>3. /\ r.order \in Orders /\ r.secondary \in [Orders -> SUBSET Entries]
            /\ r.queues \in [Orders -> SUBSET Entries]
        BY <1>1, <4>2 DEF IndInv, TypeOK
      <4>4. /\ requeued.ids = [s.ids EXCEPT ![i] = s.ids[n]]
            /\ requeued.queues = [s.queues EXCEPT ![o0] = @ \cup {new}]
            /\ requeued.secondary =
                 IF Marks THEN [s.secondary EXCEPT ![o0] = @ \cup {newd}] ELSE s.secondary
            /\ requeued.numGenerated = s.numGenerated + 1
            /\ requeued.nextFLimit = s.nextFLimit /\ requeued.expanded = r.expanded
            /\ <<requeued.rank0, requeued.dropped, requeued.child, requeued.generated, requeued.order,
                 requeued.stopped, requeued.ordersLeft, requeued.limitReached, requeued.fLimit>> =
               <<r.rank0, r.dropped, r.child, r.generated, r.order, r.stopped, r.ordersLeft,
                 r.limitReached, r.fLimit>>
        <5> HIDE DEF requeued, i
        <5>1. IsPushed(requeued, r, i, r.ids[n], QueueRank(i), FALSE)
          BY <4>1, <4>3, PushedShape
        <5> QED BY <4>2, <5>1 DEF IsPushed
      <4> QED BY <3>1, <4>2, <4>4
    <3>2. CASE skip
      <4>1. requeued = [r EXCEPT !.nextFLimit = Min({@, QueueRank(i)})]
        BY <3>2
      <4> QED BY <3>2, <4>1, MarkedShape DEF r, n
    <3>3. CASE ~ push /\ ~ skip
      <4>1. requeued = r
        BY <3>3
      <4> QED BY <3>3, <4>1, MarkedShape DEF r, n
    <3> QED BY <3>1, <3>2, <3>3
  <2> HIDE DEF requeued
  <2>4. /\ s'.phase \in {"outer", "pop"} /\ s'.current = NoPlan
        /\ s'.rank0 \in {s.rank0, 0}
        /\ s'.stopped = (stop \/ s.stopped) /\ (s'.phase = "outer" => stop)
        /\ <<s'.ids, s'.queues, s'.secondary, s'.expanded, s'.numGenerated, s'.nextFLimit>> =
           <<requeued.ids, requeued.queues, requeued.secondary, requeued.expanded,
             requeued.numGenerated, requeued.nextFLimit>>
        /\ UNCHANGED <<s.dropped, s.child, s.generated, s.order, s.ordersLeft, s.limitReached, s.fLimit>>
    <3>1. CASE stop
      <4>1. s' = [requeued EXCEPT !.stopped = TRUE, !.current = NoPlan, !.phase = "outer"]
        BY <2>1, <3>1
      <4>2. s.stopped \in BOOLEAN
        BY DEF IndInv, TypeOK
      <4>3. /\ s'.phase = "outer" /\ s'.current = NoPlan /\ s'.stopped = TRUE
            /\ <<s'.ids, s'.queues, s'.secondary, s'.expanded, s'.numGenerated, s'.nextFLimit>> =
               <<requeued.ids, requeued.queues, requeued.secondary, requeued.expanded,
                 requeued.numGenerated, requeued.nextFLimit>>
            /\ <<s'.rank0, s'.dropped, s'.child, s'.generated, s'.order, s'.ordersLeft,
                 s'.limitReached, s'.fLimit>> =
               <<requeued.rank0, requeued.dropped, requeued.child, requeued.generated, requeued.order,
                 requeued.ordersLeft, requeued.limitReached, requeued.fLimit>>
        BY <4>1
      <4>4. /\ s'.rank0 = s.rank0
            /\ UNCHANGED <<s.dropped, s.child, s.generated, s.order, s.ordersLeft, s.limitReached,
                           s.fLimit>>
        BY <2>3, <4>3
      <4>5. stop = TRUE
        BY <2>2, <3>1
      <4>6. s'.stopped = (stop \/ s.stopped)
        BY <4>2, <4>3, <4>5
      <4> QED BY <3>1, <4>3, <4>4, <4>6
    <3>2. CASE ~ stop
      <4>1. s' = EnterPop(requeued)
        BY <2>1, <3>2
      <4>2. s.stopped \in BOOLEAN
        BY DEF IndInv, TypeOK
      <4> QED BY <2>2, <2>3, <3>2, <4>1, <4>2 DEF EnterPop
    <3> QED BY <2>2, <3>1, <3>2
  <2>5. ASSUME i # Fails
        PROVE  i \in Numbers /\ i = sp.inst[n] /\ Complete(sp, i) /\ i \in MadeOf(sp, o0, n)
    BY <1>1, <1>4, <2>5, Instances DEF IndInv, TypeOK, MadeOf
  <2> HIDE DEF i
  <2>6. ASSUME i # Fails
        PROVE  QueueRank(i) \in 0 .. Infinite /\ sp.h[i] \in 0 .. Infinite
    BY <2>5, <2>6, RankType, SpaceShape DEF IndInv, TypeOK
  <2>6a. r.fLimit = s.fLimit
    BY MarkedShape
  <2>7. push => /\ new \in Entries /\ new.plan = i /\ new.rank = QueueRank(i) /\ new.lazy = FALSE
                /\ new.rank < Infinite /\ (IsIda => new.rank <= s.fLimit)
    <3> SUFFICES ASSUME push
                 PROVE  /\ new \in Entries /\ new.plan = i /\ new.rank = QueueRank(i)
                        /\ new.lazy = FALSE /\ new.rank < Infinite
                        /\ (IsIda => new.rank <= s.fLimit)
      OBVIOUS
    <3>1. QueueRank(i) \in Nat /\ QueueRank(i) < Infinite
      BY <2>6, SearchAssumption
    <3>2. s.fLimit \in Nat
      BY SearchAssumption DEF IndInv, TypeOK
    <3>3. IsIda => QueueRank(i) <= s.fLimit
      BY <2>6a, <3>1, <3>2
    <3>4. new.plan = i /\ new.rank = QueueRank(i) /\ new.lazy = FALSE
      BY DEF Entry
    <3>5. new \in Entries
      BY <2>5, <3>1 DEF Entry, Entries
    <3> QED BY <3>1, <3>3, <3>4, <3>5
  <2>8. push => newd \in Entries /\ newd.plan = i /\ newd.lazy = FALSE
    <3> SUFFICES ASSUME push PROVE newd \in Entries /\ newd.plan = i /\ newd.lazy = FALSE
      OBVIOUS
    <3>1. sp.h[i] \in Nat /\ s.ids[n] \in Nat
      BY <1>1, <2>6, SearchAssumption DEF IndInv, TypeOK
    <3> QED BY <2>5, <3>1 DEF Entry, Entries
  <2>9. s'.nextFLimit \in 0 .. Infinite /\ s'.nextFLimit <= s.nextFLimit /\ s.fLimit <= s'.nextFLimit
    <3>1. s.nextFLimit \in Nat /\ s.fLimit \in Nat /\ s.nextFLimit <= Infinite /\ s.fLimit <= s.nextFLimit
      BY SearchAssumption DEF IndInv, TypeOK, Limits
    <3>2. CASE skip
      <4>1. QueueRank(i) \in Nat /\ QueueRank(i) > s.fLimit /\ QueueRank(i) <= Infinite
        BY <2>6, <2>6a, <3>2, SearchAssumption
      <4>2. s'.nextFLimit = Min({s.nextFLimit, QueueRank(i)})
        BY <2>3, <2>4, <3>2
      <4> QED BY <3>1, <4>1, <4>2, MinOfTwo, SearchAssumption
    <3>3. CASE ~ skip
      BY <2>3, <2>4, <3>1, <3>3, SearchAssumption
    <3> QED BY <3>2, <3>3
  <2>10. /\ \A o \in Orders : s'.queues[o] =
              s.queues[o] \cup (IF o = o0 /\ push THEN {new} ELSE {})
         /\ \A o \in Orders : s'.secondary[o] =
              s.secondary[o] \cup (IF o = o0 /\ push /\ Marks THEN {newd} ELSE {})
    <3> HIDE DEF push, new, newd
    <3> QED BY <1>1, <2>3, <2>4 DEF IndInv, TypeOK
  <2> HIDE DEF new, newd
  <2>11. TypeOK'
    <3>1. \A o \in Orders : s'.queues[o] \in SUBSET Entries /\ s'.secondary[o] \in SUBSET Entries
      BY <2>7, <2>8, <2>10 DEF IndInv, TypeOK
    <3>2. \A o \in Orders : IsFiniteSet(s'.queues[o])
      <4>1. \A o \in Orders : IsFiniteSet(s.queues[o]) /\ IsFiniteSet(s.queues[o] \cup {new})
        BY FS_AddElement DEF IndInv, TypeOK
      <4>2. \A o \in Orders : s'.queues[o] = s.queues[o] \/ s'.queues[o] = s.queues[o] \cup {new}
        BY <2>10
      <4> QED BY <4>1, <4>2
    <3>3. s'.queues \in [Orders -> SUBSET Entries] /\ s'.secondary \in [Orders -> SUBSET Entries]
      <4> HIDE DEF push
      <4>1. s'.queues = [o \in Orders |-> s'.queues[o]] /\ s'.secondary = [o \in Orders |-> s'.secondary[o]]
        BY <2>3, <2>4 DEF IndInv, TypeOK
      <4> QED BY <3>1, <4>1
    <3>4. s'.ids \in [Numbers -> Nat] /\ s'.numGenerated \in Nat
      <4> HIDE DEF push
      <4>1. /\ s'.ids = s.ids \/ s'.ids = [s.ids EXCEPT ![i] = s.ids[n]]
            /\ s'.numGenerated \in {s.numGenerated, s.numGenerated + 1}
        BY <2>3, <2>4
      <4>2. s.ids \in [Numbers -> Nat] /\ s.numGenerated \in Nat
        BY DEF IndInv, TypeOK
      <4>3. s.ids[n] \in Nat
        BY <1>1, <4>2
      <4> QED BY <4>1, <4>2, <4>3
    <3>5. s'.phase \in Phases /\ s'.current \in Numbers \cup {NoPlan} /\ s'.rank0 \in Nat
          /\ s'.stopped \in BOOLEAN
      BY <2>2, <2>4 DEF IndInv, TypeOK, Phases
    <3> QED BY <1>1, <2>4, <2>9, <3>2, <3>3, <3>4, <3>5, SameCall DEF IndInv, TypeOK
  <2>12. Places'
    <3>1. Open(s.order)
      BY <1>1 DEF IndInv, Places, Open
    <3>2. Open(s.order)' /\ (s.generated[s.order] > 0)'
      BY <1>1, <2>4, <3>1, SameCall DEF Open
    <3>3. s'.phase \in {"outer", "pop"} /\ s'.current = NoPlan
      BY <2>4
    <3> QED BY <3>2, <3>3 DEF Places, InHand
  <2>13. Ends'
    BY <2>4 DEF IndInv, Ends
  <2>14. RootAlone'
    <3>1. \A o \in Orders : \A d \in s'.queues[o] \cup s'.secondary[o] :
            d \in s.queues[o] \cup s.secondary[o] \/ Complete(sp, d.plan)
      BY <2>5, <2>7, <2>8, <2>10
    <3> QED BY <1>1, <2>4, <3>1, SameCall DEF IndInv, RootAlone
  <2>15. \A o \in Orders' : Ranked(o)'
    <3> SUFFICES ASSUME NEW o \in Orders PROVE Ranked(o)'
      BY <1>1, SameCall
    <3>1. \A d \in s'.queues[o] :
            /\ d.rank < Infinite
            /\ IF d.lazy THEN IsLazy ELSE d.rank = QueueRank(d.plan)
            /\ IsIda => d.rank <= s.fLimit
      BY <2>7, <2>10 DEF IndInv, Ranked
    <3>2. \A d \in s'.secondary[o] : IF d.lazy THEN IsDual ELSE IsDual => Complete(sp, d.plan)
      BY <2>5, <2>8, <2>10 DEF IndInv, Ranked
    <3> QED BY <1>1, <2>4, <3>1, <3>2, SameCall DEF Ranked
  <2>16. Limits'
    <3>1. ~ IsIda => s'.nextFLimit = s.nextFLimit
      BY <2>3, <2>4
    <3> QED BY <1>1, <2>4, <2>9, <3>1, SameCall DEF IndInv, Limits
  <2>17. FiniteHand' /\ BestInHand'
    BY <2>4 DEF FiniteHand, BestInHand, InHand
  <2>18. s'.expanded = IF Marks THEN s.expanded \cup {<<o0, n>>} ELSE s.expanded
    BY <2>3, <2>4
  <2>19. Marking'
    <3>1. ASSUME NEW o \in Orders, NEW m \in Numbers, Marks, Held(o, m)'
          PROVE  Held(o, m) \/ (o = o0 /\ m = i /\ i # Fails)
      <4>1. CASE <<o, m>> \in s'.expanded
        BY <1>1, <2>18, <4>1 DEF Held
      <4>2. CASE \E d \in s'.queues[o] \cup s'.secondary[o] : d.plan = m
        BY <2>7, <2>8, <2>10, <4>2 DEF Held
      <4>3. CASE o = s'.order /\ m = s'.current
        BY <2>4, <4>3, NoPlanIsNone
      <4> QED BY <3>1, <4>1, <4>2, <4>3 DEF Held
    <3>2. Marks => Descent'
      BY <1>1, <2>5, <2>18, <3>1, DescentKept DEF IndInv, Marking
    <3>3. \A o \in Orders, m \in Numbers : s.generated[o] = 0 => <<o, m>> # <<o0, n>>
      BY <1>1
    <3>4. Marks => Unexpanded'
      BY <1>1, <2>4, <2>18, <3>3, SameCall DEF IndInv, Marking, Unexpanded
    <3> QED BY <1>1, <2>18, <3>2, <3>4, SameCall DEF IndInv, Marking
  <2>20. Coverage'
    <3>1. ASSUME NEW o \in Orders, CoveredIn(o), ~ late PROVE CoveredIn(o)'
      <4>1. ASSUME NEW g \in Solutions(o), NEW m \in Numbers, Live(o, m), Leads(o, m, g)
            PROVE  CutOff(o, g)' \/ \E k \in Numbers : Live(o, k)' /\ Leads(o, k, g)
        <5>1. CASE o # o0 \/ m # n
          <6>1. Queued(o, m)
            BY <4>1, <5>1 DEF Live
          <6>2. Queued(o, m)'
            BY <2>10, <2>18, <5>1, <6>1 DEF Queued
          <6> QED BY <4>1, <6>2 DEF Live
        <5>2. CASE o = o0 /\ m = n
          <6>1. Complete(sp, g) /\ sp.inst[g] # Fails
            BY DEF Solutions, SpaceSolutions
          <6>2. i = sp.inst[n]
            BY <3>1 DEF i
          <6>3. g = n \/ n = sp.inst[g]
            BY <1>1, <4>1, <5>2, Below DEF Leads, IndInv, TypeOK
          <6>4. g = n
            BY <1>4, <6>1, <6>2, <6>3, Instances DEF IndInv, TypeOK
          <6>5. i = sp.inst[g] /\ i # Fails /\ i \in Numbers /\ Leads(o, i, g)
            BY <2>5, <6>1, <6>2, <6>4 DEF Leads
          <6>6. QueueRank(i) \in Nat /\ QueueRank(i) < Infinite
            BY <6>5, LeadsFinite DEF IndInv, TypeOK
          <6>7. CASE push
            <7>1. <<o, i>> \notin s'.expanded
              <8>1. CASE ~ Marks
                BY <2>18, <8>1 DEF IndInv, Marking
              <8>2. CASE Marks
                <9>1. <<o0, n>> \notin s.expanded
                  BY <1>1, <8>2 DEF IndInv, Marking, Unexpanded
                <9>2. i \in MadeOf(sp, o0, n)
                  BY <2>5, <6>5
                <9>3. i # Root /\ \A k \in Numbers : i \in MadeOf(sp, o0, k) => k = n
                  BY <1>1, <9>2, Made DEF IndInv, TypeOK
                <9>4. <<o0, i>> \notin s.expanded
                  BY <1>1, <6>5, <8>2, <9>1, <9>3 DEF IndInv, Marking, Descent, Held
                <9> QED BY <1>4, <2>18, <5>2, <9>4
              <8> QED BY <8>1, <8>2
            <7>2. new \in s'.queues[o] /\ new.plan = i
              BY <2>7, <2>10, <5>2, <6>7
            <7> QED BY <6>5, <7>1, <7>2 DEF Live, Queued
          <6>8. CASE skip
            <7>1. s'.nextFLimit = Min({s.nextFLimit, QueueRank(i)}) /\ s'.fLimit = s.fLimit
              BY <2>3, <2>4, <6>8
            <7>2. s.nextFLimit \in Nat
              BY SearchAssumption DEF IndInv, TypeOK
            <7>3. s'.nextFLimit <= QueueRank(i) /\ s'.fLimit < QueueRank(i)
              <8>1. s.fLimit \in Nat /\ QueueRank(i) > s.fLimit
                BY <2>6a, <6>8, SearchAssumption DEF IndInv, TypeOK
              <8> QED BY <6>6, <7>1, <7>2, <8>1, MinOfTwo
            <7>4. QueueRank(i) = sp.f[i]
              BY <6>8 DEF QueueRank, IsIda, IsGbfs
            <7> QED BY <1>1, <6>5, <7>3, <7>4, SameCall DEF CutOff
          <6> QED BY <6>5, <6>6, <6>7, <6>8, SearchAssumption
        <5> QED BY <5>1, <5>2
      <4> QED BY <1>1, <2>4, <2>9, <3>1, <4>1, StaysCovered DEF IndInv
    <3>2. SeenAreCovered'
      BY <2>4 DEF SeenAreCovered
    <3> QED BY <1>1, <2>4, <3>1, <3>2, SameCall DEF IndInv, Coverage, Exact, Open
  <2>21. Answers'
    BY <2>4 DEF Answers, NoSolutionIsProof, Outcome, Solved
  <2> QED BY <2>11, <2>12, <2>13, <2>14, <2>15, <2>16, <2>17, <2>19, <2>20, <2>21 DEF IndInv
<1> QED BY <1>3, <1>4

LEMMA ExpandKeeps == IndInv /\ Expand => IndInv'
<1> SUFFICES ASSUME IndInv, Expand PROVE IndInv'
  OBVIOUS
<1> DEFINE n == s.current
           o0 == s.order
<1>1. /\ s.phase = "inner" /\ ~ Complete(sp, n) /\ UNCHANGED <<task, late>>
      /\ n \in Numbers /\ n # NoPlan /\ o0 \in Orders /\ s.generated[o0] > 0
  BY DEF Expand, IndInv, TypeOK, Places, InHand
<1>2. /\ s'.phase = "children" /\ s'.child = 1
      /\ s'.expanded = IF Marks THEN s.expanded \cup {<<o0, n>>} ELSE s.expanded
      /\ UNCHANGED <<s.current, s.rank0, s.ids, s.queues, s.secondary, s.numGenerated, s.dropped,
                     s.generated, s.order, s.stopped, s.ordersLeft, s.limitReached, s.fLimit,
                     s.nextFLimit>>
  <2> DEFINE r == Marked(s, n)
             b == Boosted(r)
  <2>1. s' = [b EXCEPT !.phase = "children", !.child = 1]
    BY DEF Expand
  <2>2. <<b.current, b.rank0, b.ids, b.queues, b.secondary, b.expanded, b.numGenerated, b.dropped,
          b.generated, b.order, b.stopped, b.ordersLeft, b.limitReached, b.fLimit, b.nextFLimit>> =
        <<r.current, r.rank0, r.ids, r.queues, r.secondary, r.expanded, r.numGenerated, r.dropped,
          r.generated, r.order, r.stopped, r.ordersLeft, r.limitReached, r.fLimit, r.nextFLimit>>
    <3> HIDE DEF r
    <3>1. CASE IsDual
      BY <3>1 DEF Boosted
    <3>2. CASE ~ IsDual
      BY <3>2 DEF Boosted
    <3> QED BY <3>1, <3>2
  <2> HIDE DEF b
  <2>3. s'.phase = "children" /\ s'.child = 1
    BY <2>1
  <2>4. <<s'.current, s'.rank0, s'.ids, s'.queues, s'.secondary, s'.expanded, s'.numGenerated,
          s'.dropped, s'.generated, s'.order, s'.stopped, s'.ordersLeft, s'.limitReached, s'.fLimit,
          s'.nextFLimit>> =
        <<b.current, b.rank0, b.ids, b.queues, b.secondary, b.expanded, b.numGenerated, b.dropped,
          b.generated, b.order, b.stopped, b.ordersLeft, b.limitReached, b.fLimit, b.nextFLimit>>
    BY <2>1
  <2> QED BY <2>2, <2>3, <2>4, MarkedShape
<1>3. TypeOK'
  BY <1>1, <1>2, SameCall DEF IndInv, TypeOK, Phases
<1>4. Places' /\ Ends'
  BY <1>1, <1>2, SameCall DEF IndInv, Places, Ends, InHand
<1>5. RootAlone'
  BY <1>1, <1>2, SameCall DEF IndInv, RootAlone
<1>6. \A o \in Orders' : Ranked(o)'
  BY <1>1, <1>2, SameCall DEF IndInv, Ranked
<1>7. FiniteHand' /\ Limits' /\ BestInHand'
  BY <1>1, <1>2, SameCall DEF IndInv, FiniteHand, Limits, BestInHand, InHand
<1>8. Marking'
  <2>1. \A o \in Orders, m \in Numbers : Held(o, m)' => Held(o, m)
    BY <1>2 DEF Held
  <2>2. Marks => Descent'
    BY <1>1, <1>2, <2>1, DescentKept DEF IndInv, Marking
  <2>3. \A o \in Orders, m \in Numbers : s.generated[o] = 0 => <<o, m>> # <<o0, n>>
    BY <1>1
  <2>4. ASSUME Marks, NEW c \in MadeOf(sp, o0, n), <<o0, c>> \in s'.expanded
        PROVE  FALSE
    <3>1. c # n /\ c # Root /\ \A m \in Numbers : c \in MadeOf(sp, o0, m) => m = n
      BY <1>1, Made DEF IndInv, TypeOK
    <3>2. c \in Numbers
      BY <1>1, Below DEF MadeOf, IndInv, TypeOK
    <3>3. Held(o0, c)
      BY <1>2, <2>4, <3>1 DEF Held
    <3>4. <<o0, n>> \in s.expanded
      BY <1>1, <2>4, <3>1, <3>2, <3>3 DEF IndInv, Marking, Descent
    <3> QED BY <1>1, <2>4, <3>4 DEF IndInv, Marking, Unexpanded
  <2>5. Marks => Unexpanded'
    BY <1>1, <1>2, <2>3, <2>4, SameCall DEF IndInv, Marking, Unexpanded
  <2> QED BY <1>1, <1>2, <2>2, <2>5, SameCall DEF IndInv, Marking
<1>9. Coverage'
  <2>1. \A o \in Orders, m \in Numbers : Live(o, m) => Live(o, m)'
    BY <1>2 DEF Live, Queued
  <2>2. \A o \in Orders : CoveredIn(o) => CoveredIn(o)'
    BY <1>1, <1>2, <2>1, SameCall DEF CoveredIn, CutOff
  <2>3. Refinements' \in Seq(Numbers)
    BY <1>1, <1>2, SpaceShape, SameCall DEF Refinements, IndInv, TypeOK
  <2>4. SeenAreCovered'
    BY <1>2, <2>3 DEF SeenAreCovered
  <2> QED BY <1>1, <1>2, <2>2, <2>4, SameCall DEF IndInv, Coverage, Exact, Open
<1>10. Answers'
  BY <1>2 DEF Answers, NoSolutionIsProof, Outcome
<1> QED BY <1>3, <1>4, <1>5, <1>6, <1>7, <1>8, <1>9, <1>10 DEF IndInv

LEMMA NextChildKeeps == IndInv /\ NextChild => IndInv'
<1> SUFFICES ASSUME IndInv, NextChild PROVE IndInv'
  OBVIOUS
<1> DEFINE n == s.current
           o0 == s.order
           c == Refinements[s.child]
           rank == IF IsLazy THEN s.rank0 ELSE QueueRank(c)
           full == rank = Infinite \/ s.generated[o0] >= task.limits[o0]
           skip == ~ full /\ IsIda /\ rank > s.fLimit
           push == ~ full /\ ~ skip
           new == Entry(c, rank, IsLazy)
           newd == IF IsDual THEN Entry(c, s.numGenerated, IsLazy) ELSE Entry(c, sp.h[c], IsLazy)
<1>1. /\ s.phase = "children" /\ ~ Complete(sp, n) /\ UNCHANGED <<task, late>>
      /\ n \in Numbers /\ n # NoPlan /\ o0 \in Orders /\ s.generated[o0] > 0
      /\ s.child <= Len(Refinements) /\ s' = [Child(s, c) EXCEPT !.child = @ + 1]
  BY DEF NextChild, IndInv, TypeOK, Places, InHand
<1>1a. o0 \in Orders /\ s.child <= Len(Refinements)
  BY DEF NextChild, IndInv, TypeOK
<1>2. Refinements \in Seq(Numbers) /\ Refinements = sp.children[o0][n]
  BY <1>1, SpaceShape DEF Refinements, IndInv, TypeOK
<1>3. s.child \in Nat /\ s.child > 0
  BY <1>1 DEF IndInv, TypeOK, Places
<1>4. c \in Numbers /\ c \in ChildrenIn(sp, o0, n) /\ c \in MadeOf(sp, o0, n)
  <2>1. s.child \in DOMAIN Refinements
    <3>1. s.child \in Nat /\ Len(Refinements) \in Nat /\ s.child >= 1 /\ s.child <= Len(Refinements)
      BY <1>1a, <1>2, <1>3
    <3>2. s.child \in 1 .. Len(Refinements)
      BY <3>1
    <3> QED BY <1>2, <3>2
  <2> QED BY <1>2, <2>1 DEF ChildrenIn, MadeOf
<1> HIDE DEF c
<1>5. /\ QueueRank(c) \in 0 .. Infinite /\ sp.h[c] \in 0 .. Infinite /\ s.rank0 \in Nat
      /\ s.fLimit \in Nat /\ s.nextFLimit \in 0 .. Infinite /\ s.fLimit <= s.nextFLimit
      /\ s.generated[o0] \in Nat /\ task.limits[o0] \in Nat /\ Infinite \in Nat
      /\ s.numGenerated \in Nat
  <2>1. task \in Tasks /\ Infinite \in Nat
    BY SearchAssumption DEF IndInv, TypeOK
  <2>2. QueueRank(c) \in 0 .. Infinite
    BY <1>4, <2>1, RankType
  <2>3. sp.h \in [Numbers -> 0 .. Infinite] /\ task.limits \in [Orders -> Nat]
    BY <2>1, SpaceShape
  <2>4. sp.h[c] \in 0 .. Infinite /\ task.limits[o0] \in Nat
    BY <1>1, <1>4, <2>3
  <2>5. /\ s.rank0 \in Nat /\ s.nextFLimit \in 0 .. Infinite /\ s.fLimit \in 0 .. Infinite
        /\ s.fLimit <= s.nextFLimit /\ s.generated[o0] \in Nat /\ s.numGenerated \in Nat
    BY <1>1 DEF IndInv, TypeOK, Limits
  <2>6. s.fLimit \in Nat
    BY <2>1, <2>5
  <2> QED BY <2>1, <2>2, <2>4, <2>5, <2>6
<1>6. rank \in Nat /\ (rank # Infinite => rank < Infinite)
  <2>1. IsLazy => s.rank0 < Infinite
    BY <1>1 DEF IndInv, FiniteHand, InHand
  <2> QED BY <1>5, <2>1
<1> HIDE DEF rank
<1>7. /\ s'.queues = IF push THEN [s.queues EXCEPT ![o0] = @ \cup {new}] ELSE s.queues
      /\ s'.secondary =
           IF push /\ Marks THEN [s.secondary EXCEPT ![o0] = @ \cup {newd}] ELSE s.secondary
      /\ s'.ids = IF push THEN [s.ids EXCEPT ![c] = s.numGenerated] ELSE s.ids
      /\ s'.numGenerated = IF push THEN s.numGenerated + 1 ELSE s.numGenerated
      /\ s'.generated = IF push THEN [s.generated EXCEPT ![o0] = @ + 1] ELSE s.generated
      /\ s'.nextFLimit = IF skip THEN Min({s.nextFLimit, rank}) ELSE s.nextFLimit
      /\ s'.child = s.child + 1
      /\ UNCHANGED <<s.phase, s.current, s.rank0, s.expanded, s.dropped, s.order, s.stopped,
                     s.ordersLeft, s.limitReached, s.fLimit>>
  <2> DEFINE p == Pushed(s, c, s.numGenerated, rank, IsLazy)
  <2>1. Child(s, c) = IF full THEN s
                      ELSE IF IsIda /\ rank > s.fLimit
                           THEN [s EXCEPT !.nextFLimit = Min({@, rank})]
                      ELSE [p EXCEPT !.generated[s.order] = @ + 1]
    BY DEF Child, rank
  <2>2. CASE push
    <3>1. s' = [[p EXCEPT !.generated[s.order] = @ + 1] EXCEPT !.child = @ + 1]
      BY <1>1, <2>1, <2>2
    <3> HIDE DEF p
    <3>2. IsPushed(p, s, c, s.numGenerated, rank, IsLazy)
      BY PushedShape DEF IndInv, TypeOK, p
    <3>3. /\ <<s'.queues, s'.secondary, s'.ids, s'.numGenerated, s'.nextFLimit>> =
             <<p.queues, p.secondary, p.ids, p.numGenerated, p.nextFLimit>>
          /\ s'.generated = [p.generated EXCEPT ![s.order] = @ + 1]
          /\ s'.child = p.child + 1
          /\ <<s'.phase, s'.current, s'.rank0, s'.expanded, s'.dropped, s'.order, s'.stopped,
               s'.ordersLeft, s'.limitReached, s'.fLimit>> =
             <<p.phase, p.current, p.rank0, p.expanded, p.dropped, p.order, p.stopped,
               p.ordersLeft, p.limitReached, p.fLimit>>
      BY <3>1
    <3> QED BY <2>2, <3>2, <3>3 DEF IsPushed
  <2>3. CASE skip
    <3>1. s' = [[s EXCEPT !.nextFLimit = Min({@, rank})] EXCEPT !.child = @ + 1]
      BY <1>1, <2>1, <2>3
    <3> QED BY <2>3, <3>1
  <2>4. CASE full
    <3>1. s' = [s EXCEPT !.child = @ + 1]
      BY <1>1, <2>1, <2>4
    <3> HIDE DEF full
    <3> QED BY <2>4, <3>1
  <2> QED BY <2>2, <2>3, <2>4
<1>8. push => /\ new \in Entries /\ new.plan = c /\ new.rank = rank /\ new.lazy = IsLazy
              /\ new.rank < Infinite /\ (IsIda => new.rank <= s.fLimit)
              /\ newd \in Entries /\ newd.plan = c /\ newd.lazy = IsLazy
              /\ s.generated[o0] < task.limits[o0]
  <2> SUFFICES ASSUME push
               PROVE  /\ new \in Entries /\ new.plan = c /\ new.rank = rank /\ new.lazy = IsLazy
                      /\ new.rank < Infinite /\ (IsIda => new.rank <= s.fLimit)
                      /\ newd \in Entries /\ newd.plan = c /\ newd.lazy = IsLazy
                      /\ s.generated[o0] < task.limits[o0]
    OBVIOUS
  <2>1. rank < Infinite /\ (IsIda => rank <= s.fLimit) /\ s.generated[o0] < task.limits[o0]
    BY <1>5, <1>6
  <2>2. IsLazy \in BOOLEAN
    BY DEF IsLazy
  <2>3. new.plan = c /\ new.rank = rank /\ new.lazy = IsLazy /\ newd.plan = c /\ newd.lazy = IsLazy
    BY DEF Entry
  <2>4. sp.h[c] \in Nat
    BY <1>5
  <2>5. new \in Entries /\ newd \in Entries
    BY <1>4, <1>5, <1>6, <2>2, <2>4 DEF Entry, Entries
  <2> QED BY <2>1, <2>3, <2>5
<1>9. /\ s'.nextFLimit \in 0 .. Infinite /\ s'.nextFLimit <= s.nextFLimit /\ s.fLimit <= s'.nextFLimit
      /\ skip => s'.nextFLimit <= rank
  <2>1. CASE skip
    <3>1. s'.nextFLimit = Min({s.nextFLimit, rank}) /\ rank > s.fLimit
      BY <1>7, <2>1
    <3>2. s.nextFLimit \in Nat /\ rank \in Nat
      BY <1>5, <1>6
    <3>3. s'.nextFLimit \in {s.nextFLimit, rank} /\ s'.nextFLimit <= s.nextFLimit /\ s'.nextFLimit <= rank
      BY <3>1, <3>2, MinOfTwo
    <3> QED BY <1>5, <3>1, <3>2, <3>3
  <2>2. CASE ~ skip
    BY <1>5, <1>7, <2>2
  <2> QED BY <2>1, <2>2
<1>10. /\ \A o \in Orders : s'.queues[o] =
            s.queues[o] \cup (IF o = o0 /\ push THEN {new} ELSE {})
       /\ \A o \in Orders : s'.secondary[o] =
            s.secondary[o] \cup (IF o = o0 /\ push /\ Marks THEN {newd} ELSE {})
       /\ \A o \in Orders : s'.generated[o] =
            s.generated[o] + (IF o = o0 /\ push THEN 1 ELSE 0)
  <2> HIDE DEF push, new, newd
  <2>1. /\ s.queues = [o \in Orders |-> s.queues[o]] /\ s.secondary = [o \in Orders |-> s.secondary[o]]
        /\ s.generated \in [Orders -> Nat]
    BY DEF IndInv, TypeOK
  <2>2. \A o \in Orders : s'.queues[o] = s.queues[o] \cup (IF o = o0 /\ push THEN {new} ELSE {})
    <3>1. s'.queues = IF push THEN [s.queues EXCEPT ![o0] = @ \cup {new}] ELSE s.queues
      BY <1>7
    <3> QED BY <1>1a, <2>1, <3>1
  <2>3. \A o \in Orders : s'.secondary[o] =
          s.secondary[o] \cup (IF o = o0 /\ push /\ Marks THEN {newd} ELSE {})
    <3>1. s'.secondary =
            IF push /\ Marks THEN [s.secondary EXCEPT ![o0] = @ \cup {newd}] ELSE s.secondary
      BY <1>7
    <3> QED BY <1>1a, <2>1, <3>1
  <2>4. \A o \in Orders : s'.generated[o] = s.generated[o] + (IF o = o0 /\ push THEN 1 ELSE 0)
    <3>1. s'.generated = IF push THEN [s.generated EXCEPT ![o0] = @ + 1] ELSE s.generated
      BY <1>7
    <3> QED BY <1>1a, <2>1, <3>1
  <2> QED BY <2>2, <2>3, <2>4
<1> HIDE DEF new, newd
<1>11. TypeOK'
  <2>1. \A o \in Orders : s'.queues[o] \in SUBSET Entries /\ s'.secondary[o] \in SUBSET Entries
    BY <1>8, <1>10 DEF IndInv, TypeOK
  <2>2. \A o \in Orders : IsFiniteSet(s'.queues[o])
    <3>1. \A o \in Orders : IsFiniteSet(s.queues[o]) /\ IsFiniteSet(s.queues[o] \cup {new})
      BY FS_AddElement DEF IndInv, TypeOK
    <3>2. \A o \in Orders : s'.queues[o] = s.queues[o] \/ s'.queues[o] = s.queues[o] \cup {new}
      BY <1>10
    <3> QED BY <3>1, <3>2
  <2>3. s'.queues \in [Orders -> SUBSET Entries] /\ s'.secondary \in [Orders -> SUBSET Entries]
    <3> HIDE DEF push
    <3>1. s'.queues = [o \in Orders |-> s'.queues[o]] /\ s'.secondary = [o \in Orders |-> s'.secondary[o]]
      BY <1>7 DEF IndInv, TypeOK
    <3> QED BY <2>1, <3>1
  <2>4. s'.ids \in [Numbers -> Nat] /\ s'.numGenerated \in Nat /\ s'.generated \in [Orders -> Nat]
    <3> HIDE DEF push
    <3>1. /\ s'.ids = s.ids \/ s'.ids = [s.ids EXCEPT ![c] = s.numGenerated]
          /\ s'.numGenerated \in {s.numGenerated, s.numGenerated + 1}
          /\ s'.generated = s.generated \/ s'.generated = [s.generated EXCEPT ![o0] = @ + 1]
      BY <1>7
    <3>2. s.ids \in [Numbers -> Nat] /\ s.numGenerated \in Nat /\ s.generated \in [Orders -> Nat]
      BY DEF IndInv, TypeOK
    <3>3. s'.ids \in [Numbers -> Nat]
      BY <3>1, <3>2
    <3>4. s'.generated \in [Orders -> Nat]
      BY <3>1, <3>2
    <3>5. s'.numGenerated \in Nat
      BY <3>1, <3>2
    <3> QED BY <3>3, <3>4, <3>5
  <2>5. s'.child \in Nat
    BY <1>3, <1>7
  <2> QED BY <1>1, <1>7, <1>9, <2>2, <2>3, <2>4, <2>5, SameCall DEF IndInv, TypeOK
<1>12. Places'
  <2>1. s'.generated[o0] > 0 /\ s'.child > 0
    BY <1>1, <1>3, <1>5, <1>7, <1>10
  <2>2. s'.phase = "children" /\ s'.current = n /\ s'.order = o0
    BY <1>1, <1>7
  <2> QED BY <1>1, <2>1, <2>2, SameCall DEF Places, InHand
<1>13. Ends'
  BY <1>1, <1>7 DEF IndInv, Ends
<1>14. ~ Complete(sp, Root)
  BY <1>1 DEF IndInv, RootAlone
<1>15. RootAlone'
  BY <1>1, <1>14, SameCall DEF RootAlone
<1>16. \A o \in Orders' : Ranked(o)'
  <2> SUFFICES ASSUME NEW o \in Orders PROVE Ranked(o)'
    BY <1>1, SameCall
  <2>1. ~ IsLazy /\ push => new.rank = QueueRank(new.plan)
    BY <1>8 DEF rank
  <2>2. \A d \in s'.queues[o] :
          /\ d.rank < Infinite
          /\ IF d.lazy THEN IsLazy ELSE d.rank = QueueRank(d.plan)
          /\ IsIda => d.rank <= s.fLimit
    BY <1>8, <1>10, <2>1 DEF IndInv, Ranked
  <2>3. Marks => IF IsLazy THEN IsDual ELSE ~ IsDual
    BY DEF Marks, IsLazy, IsDual, IsAlt
  <2>4. \A d \in s'.secondary[o] : IF d.lazy THEN IsDual ELSE IsDual => Complete(sp, d.plan)
    BY <1>8, <1>10, <2>3 DEF IndInv, Ranked
  <2> QED BY <1>1, <1>7, <2>2, <2>4, SameCall DEF Ranked
<1>17. FiniteHand' /\ BestInHand'
  BY <1>1, <1>7, SameCall DEF IndInv, FiniteHand, BestInHand, InHand
<1>18. Limits'
  <2>1. ~ IsIda => s'.nextFLimit = s.nextFLimit
    BY <1>7
  <2> QED BY <1>1, <1>7, <1>9, <2>1, SameCall DEF IndInv, Limits
<1>19. Marking'
  <2>1. ASSUME NEW o \in Orders, NEW m \in Numbers, Held(o, m)'
        PROVE  Held(o, m) \/ (o = o0 /\ m = c)
    <3>1. CASE <<o, m>> \in s'.expanded
      BY <1>7, <3>1 DEF Held
    <3>2. CASE \E d \in s'.queues[o] \cup s'.secondary[o] : d.plan = m
      BY <1>8, <1>10, <3>2 DEF Held
    <3>3. CASE o = s'.order /\ m = s'.current
      BY <1>7, <3>3 DEF Held
    <3> QED BY <2>1, <3>1, <3>2, <3>3 DEF Held
  <2>2. Marks => <<o0, n>> \in s'.expanded
    BY <1>1, <1>7 DEF IndInv, Marking, Unexpanded
  <2>3. Marks => Descent'
    BY <1>1, <1>4, <1>7, <2>1, <2>2, DescentKept DEF IndInv, Marking
  <2>4. \A o \in Orders : s'.generated[o] = 0 => s.generated[o] = 0
    <3>1. \A o \in Orders : s.generated[o] \in Nat
      BY DEF IndInv, TypeOK
    <3> QED BY <1>10, <3>1
  <2>5. Marks => Unexpanded'
    BY <1>1, <1>7, <2>4, SameCall DEF IndInv, Marking, Unexpanded
  <2> QED BY <1>1, <1>7, <2>3, <2>5, SameCall DEF IndInv, Marking
<1>20. \A o \in Orders : Open(o)' => Open(o)
  <2>1. \A o \in Orders : s.generated[o] \in Nat /\ task.limits[o] \in Nat
    BY SpaceShape DEF IndInv, TypeOK
  <2>2. \A o \in Orders : s'.generated[o] >= s.generated[o]
    BY <1>10, <2>1
  <2>3. \A o \in Orders : s'.generated[o] \in Nat
    BY <1>10, <2>1
  <2>4. \A o \in Orders : s'.generated[o] < task.limits[o] => s.generated[o] < task.limits[o]
    BY <2>1, <2>2, <2>3
  <2> QED BY <1>1, <2>4, SameCall DEF Open
<1>21. \A o \in Orders, m \in Numbers : Queued(o, m) => Queued(o, m)'
  BY <1>7, <1>10 DEF Queued
<1>22. Coverage'
  <2>1. ASSUME NEW o \in Orders, CoveredIn(o) PROVE CoveredIn(o)'
    <3>1. \A m \in Numbers : Live(o, m) => Live(o, m)'
      BY <1>7, <1>21 DEF Live
    <3> QED BY <1>1, <1>7, <1>9, <2>1, <3>1, StaysCovered DEF IndInv
  <2>2. ASSUME NEW o \in Orders, s'.generated[o] > 0, Open(o)' PROVE s.generated[o] > 0 /\ Open(o)
    <3>1. s.generated[o] \in Nat
      BY DEF IndInv, TypeOK
    <3>2. s.generated[o] > 0
      BY <1>1, <1>10, <2>2, <3>1
    <3> QED BY <1>20, <2>2, <3>2
  <2>3. \A g \in Solutions(o0) : CutOff(o0, g) => CutOff(o0, g)'
    BY <1>1, <1>7, <1>9, StaysCutOff DEF IndInv
  <2>4. ASSUME Exact, ~ late PROVE SeenAreCovered'
    <3>1. Refinements' = Refinements /\ s'.phase = "children" /\ s'.order = o0
      BY <1>1, <1>7, SameCall DEF Refinements
    <3>2. ASSUME NEW i \in DOMAIN Refinements, i < s'.child,
                 NEW g \in Solutions(o0), g \in sp.below[o0][Refinements[i]]
          PROVE  \/ CutOff(o0, g)'
                 \/ ~ (s'.generated[o0] < task.limits[o0])
                 \/ /\ <<o0, Refinements[i]>> \notin s'.expanded
                    /\ \E e \in s'.queues[o0] : e.plan = Refinements[i]
      <4>1. i \in Nat /\ Refinements[i] \in Numbers
        BY <1>2
      <4>2. CASE i < s.child
        <5>1. CutOff(o0, g) \/ ~ Open(o0) \/ Queued(o0, Refinements[i])
          BY <1>1, <2>4, <3>2, <4>2 DEF IndInv, Coverage, SeenAreCovered
        <5>2. CASE CutOff(o0, g)
          BY <2>3, <3>2, <5>2
        <5>3. CASE ~ Open(o0)
          <6>1. s.generated[o0] \in Nat /\ ~ (s.generated[o0] < task.limits[o0])
            BY <1>5, <5>3 DEF Open
          <6>2. s'.generated[o0] \in {s.generated[o0], s.generated[o0] + 1}
            BY <1>1, <1>5, <1>10
          <6>3. ~ (s'.generated[o0] < task.limits[o0])
            BY <1>5, <6>1, <6>2
          <6> QED BY <6>3
        <5>4. CASE Queued(o0, Refinements[i])
          <6>1. s'.expanded = s.expanded /\ s.queues[o0] \subseteq s'.queues[o0]
            BY <1>1, <1>7, <1>10
          <6> QED BY <5>4, <6>1 DEF Queued
        <5> QED BY <5>1, <5>2, <5>3, <5>4
      <4>3. CASE i = s.child
        <5>1. Refinements[i] = c /\ Leads(o0, c, g)
          BY <3>2, <4>3 DEF c, Leads
        <5>2. QueueRank(c) \in Nat /\ QueueRank(c) < Infinite
          BY <1>1, <1>4, <5>1, LeadsFinite DEF IndInv, TypeOK
        <5>3. IsLazy => s.rank0 < Infinite
          BY <1>1 DEF IndInv, FiniteHand, InHand
        <5>4. rank # Infinite
          BY <1>5, <5>2, <5>3 DEF rank
        <5>5. CASE full
          <6>1. s'.generated[o0] >= task.limits[o0]
            BY <1>1, <1>5, <1>10, <5>4, <5>5
          <6>2. ~ (s'.generated[o0] < task.limits[o0])
            <7>1. s'.generated[o0] \in Nat
              BY <1>1, <1>5, <1>10
            <7> QED BY <1>5, <6>1, <7>1
          <6> QED BY <6>2
        <5>6. CASE skip
          <6>1. rank = sp.f[c]
            BY <5>6 DEF rank, QueueRank, IsIda, IsLazy, IsGbfs
          <6>2. s'.nextFLimit <= rank /\ s'.fLimit < rank
            BY <1>5, <1>6, <1>7, <1>9, <5>6
          <6> QED BY <1>1, <1>4, <3>1, <5>1, <6>1, <6>2, SameCall DEF CutOff
        <5>7. CASE push
          <6>1. <<o0, c>> \notin s'.expanded
            BY <1>1, <1>4, <1>7 DEF IndInv, Marking, Unexpanded
          <6>2. new \in s'.queues[o0] /\ new.plan = c
            BY <1>1, <1>8, <1>10, <5>7
          <6> QED BY <5>1, <6>1, <6>2
        <5> QED BY <5>5, <5>6, <5>7
      <4>4. i < s.child \/ i = s.child
        BY <1>3, <1>7, <3>2, <4>1
      <4> QED BY <4>2, <4>3, <4>4
    <3> QED BY <1>1, <1>14, <3>1, <3>2, SameCall DEF SeenAreCovered, Open, Queued
  <2> QED BY <1>1, <1>7, <2>1, <2>2, <2>4, SameCall DEF IndInv, Coverage, Exact
<1>23. Answers'
  BY <1>1, <1>7 DEF Answers, NoSolutionIsProof, Outcome
<1> QED BY <1>11, <1>12, <1>13, <1>15, <1>16, <1>17, <1>18, <1>19, <1>22, <1>23 DEF IndInv

-----------------------------------------------------------------------------
(* The open-list bound.                                                      *)

\* Trimming keeps a part of each queue, whatever the share.
LEMMA TrimmingsShape ==
  ASSUME NEW qs \in [Orders -> SUBSET Entries], NEW keep, NEW t \in Trimmings(qs, keep)
  PROVE  t \in [Orders -> SUBSET Entries] /\ \A o \in Orders : t[o] \subseteq qs[o]
<1>1. ASSUME NEW q, NEW k, NEW p \in Prunings(q, k) PROVE p \subseteq q
  BY DEF Prunings, kSubset
<1>2. CASE Total(qs) <= keep
  BY <1>2 DEF Trimmings
<1>3. CASE ~ (Total(qs) <= keep)
  <2> DEFINE share(o) == Max({(Cardinality(qs[o]) * keep) \div Total(qs), 1})
             pruned == [o \in Orders |-> Prunings(qs[o], share(o))]
  <2>1. /\ t \in [Orders -> UNION {pruned[o] : o \in Orders}]
        /\ \A o \in Orders : t[o] \in pruned[o]
    BY <1>3, Zenon DEF Trimmings
  <2> HIDE DEF share
  <2>2. \A o \in Orders : t[o] \in Prunings(qs[o], share(o))
    BY <2>1
  <2>3. \A o \in Orders : t[o] \subseteq qs[o]
    BY <1>1, <2>2
  <2>4. t = [o \in Orders |-> t[o]]
    BY <2>1, Zenon
  <2>5. \A o \in Orders : t[o] \in SUBSET Entries
    BY <2>3
  <2> QED BY <2>3, <2>4, <2>5
<1> QED BY <1>2, <1>3

\* The entries of all the queues are finite in number, and to trim without
\* dropping any is to leave the queues as they are.
LEMMA TotalShape ==
  ASSUME task \in Tasks,
         NEW qs \in [Orders -> SUBSET Entries], \A o \in Orders : IsFiniteSet(qs[o]),
         NEW t \in [Orders -> SUBSET Entries], \A o \in Orders : t[o] \subseteq qs[o]
  PROVE  /\ Total(qs) \in Nat /\ Total(t) \in Nat /\ Total(t) <= Total(qs)
         /\ Total(t) = Total(qs) => t = qs
<1> DEFINE parts == {{o} \X qs[o] : o \in Orders}
           all == UNION parts
           kept == UNION {{o} \X t[o] : o \in Orders}
           part == [o \in Orders |-> {o} \X qs[o]]
<1>1. Total(qs) = Cardinality(all) /\ Total(t) = Cardinality(kept)
  <2>1. DOMAIN qs = Orders /\ DOMAIN t = Orders
    OBVIOUS
  <2> QED BY <2>1 DEF Total
<1>2. IsFiniteSet(Orders)
  <2>1. 1 \in Int /\ NOrders \in Int
    BY SpaceShape
  <2>2. IsFiniteSet(1 .. NOrders)
    BY <2>1, FS_Interval
  <2> QED BY <2>2 DEF Orders
<1>3. part \in Surjection(Orders, parts)
  BY DEF Surjection
<1>4. IsFiniteSet(parts)
  <2> HIDE DEF part, parts
  <2> QED BY <1>2, <1>3, FS_Surjection
<1>5. \A p \in parts : IsFiniteSet(p)
  <2> SUFFICES ASSUME NEW o \in Orders PROVE IsFiniteSet({o} \X qs[o])
    OBVIOUS
  <2>1. IsFiniteSet({o}) /\ IsFiniteSet(qs[o])
    BY FS_Singleton
  <2> QED BY <2>1, FS_Product
<1>6. IsFiniteSet(all)
  <2> HIDE DEF parts
  <2> QED BY <1>4, <1>5, FS_UNION
<1>7. kept \subseteq all
  OBVIOUS
<1>8. /\ Cardinality(all) \in Nat /\ Cardinality(kept) \in Nat
      /\ Cardinality(kept) <= Cardinality(all)
      /\ Cardinality(kept) = Cardinality(all) => kept = all
  <2> HIDE DEF all, kept
  <2> QED BY <1>6, <1>7, FS_Subset, FS_CardinalityType
<1>9. ASSUME kept = all PROVE t = qs
  <2>1. ASSUME NEW o \in Orders, NEW e \in qs[o] PROVE e \in t[o]
    <3>1. <<o, e>> \in all
      OBVIOUS
    <3>2. PICK o2 \in Orders : <<o, e>> \in {o2} \X t[o2]
      BY <1>9, <3>1
    <3> QED BY <3>2
  <2>2. \A o \in Orders : t[o] = qs[o]
    BY <2>1
  <2> QED BY <2>2
<1> QED BY <1>1, <1>8, <1>9

\* What a bound does to the locals.
IsBounded(t, r) ==
  /\ t.queues \in [Orders -> SUBSET Entries] /\ \A o \in Orders : t.queues[o] \subseteq r.queues[o]
  /\ t.secondary \in [Orders -> SUBSET Entries]
  /\ \A o \in Orders : t.secondary[o] \subseteq r.secondary[o]
  /\ t.dropped \in Nat /\ (t.dropped = 0 => r.dropped = 0 /\ t.queues = r.queues)
  /\ <<t.phase, t.current, t.rank0, t.child, t.ids, t.expanded, t.generated, t.numGenerated,
       t.order, t.stopped, t.ordersLeft, t.nextSwitch, t.limitReached, t.fLimit, t.nextFLimit>> =
     <<r.phase, r.current, r.rank0, r.child, r.ids, r.expanded, r.generated, r.numGenerated,
       r.order, r.stopped, r.ordersLeft, r.nextSwitch, r.limitReached, r.fLimit, r.nextFLimit>>

LEMMA BoundedShape ==
  ASSUME task \in Tasks, NEW r, NEW capacity, NEW keep,
         NEW q \in Trimmings(r.queues, keep), NEW q2 \in Trimmings(r.secondary, keep),
         r.queues \in [Orders -> SUBSET Entries], r.secondary \in [Orders -> SUBSET Entries],
         \A o \in Orders : IsFiniteSet(r.queues[o]), r.dropped \in Nat
  PROVE  IsBounded(Bounded(r, capacity, q, q2), r)
<1> DEFINE t == Bounded(r, capacity, q, q2)
<1>3. /\ q \in [Orders -> SUBSET Entries] /\ \A o \in Orders : q[o] \subseteq r.queues[o]
      /\ q2 \in [Orders -> SUBSET Entries] /\ \A o \in Orders : q2[o] \subseteq r.secondary[o]
  BY TrimmingsShape
<1>4. /\ Total(r.queues) \in Nat /\ Total(q) \in Nat /\ Total(q) <= Total(r.queues)
      /\ Total(q) = Total(r.queues) => q = r.queues
  BY <1>3, TotalShape
<1>5. /\ t.queues = q /\ t.secondary = q2 /\ t.dropped = r.dropped + Total(r.queues) - Total(q)
      /\ <<t.phase, t.current, t.rank0, t.child, t.ids, t.expanded, t.generated, t.numGenerated,
           t.order, t.stopped, t.ordersLeft, t.nextSwitch, t.limitReached, t.fLimit, t.nextFLimit>> =
         <<r.phase, r.current, r.rank0, r.child, r.ids, r.expanded, r.generated, r.numGenerated,
           r.order, r.stopped, r.ordersLeft, r.nextSwitch, r.limitReached, r.fLimit, r.nextFLimit>>
  BY DEF Bounded
<1>6. t.dropped \in Nat /\ (t.dropped = 0 => r.dropped = 0 /\ Total(q) = Total(r.queues))
  <2> DEFINE before == r.dropped
             all == Total(r.queues)
             left == Total(q)
  <2>1. t.dropped = before + all - left
    BY <1>5
  <2>2. before \in Nat /\ all \in Nat /\ left \in Nat /\ left <= all
    BY <1>4
  <2> HIDE DEF before, all, left
  <2>3. before + all - left \in Nat /\ (before + all - left = 0 => before = 0 /\ left = all)
    BY <2>2
  <2>4. t.dropped \in Nat /\ (t.dropped = 0 => before = 0 /\ left = all)
    BY <2>1, <2>3
  <2> QED BY <2>4 DEF before, all, left
<1> HIDE DEF t
<1>7. IsBounded(t, r)
  <2>1. t.queues \in [Orders -> SUBSET Entries] /\ \A o \in Orders : t.queues[o] \subseteq r.queues[o]
    BY <1>3, <1>5
  <2>2. t.secondary \in [Orders -> SUBSET Entries]
        /\ \A o \in Orders : t.secondary[o] \subseteq r.secondary[o]
    BY <1>3, <1>5
  <2>3. t.dropped = 0 => r.dropped = 0 /\ t.queues = r.queues
    BY <1>4, <1>5, <1>6
  <2> QED BY <1>5, <1>6, <2>1, <2>2, <2>3, Zenon DEF IsBounded
<1> QED BY <1>7 DEF t

\* How the loop goes on after an expansion.
Goes(t, r) ==
  LET atLimit == r.generated[r.order] >= task.limits[r.order] IN
  /\ t.queues = IF atLimit THEN [r.queues EXCEPT ![r.order] = {}] ELSE r.queues
  /\ t.secondary = IF atLimit THEN [r.secondary EXCEPT ![r.order] = {}] ELSE r.secondary
  /\ t.limitReached = (r.limitReached \/ atLimit)
  /\ t.ordersLeft = IF atLimit /\ r.ordersLeft > 0 THEN r.ordersLeft - 1 ELSE r.ordersLeft
  /\ t.current \in {r.current, NoPlan}
  /\ t.phase \in {"outer", "rotate", "take"}
  /\ t.phase = "outer" => t.ordersLeft = 0
  /\ t.phase # "outer" => t.current = NoPlan
  /\ t.phase = "take" => ~ atLimit
  /\ <<t.rank0, t.child, t.ids, t.expanded, t.generated, t.numGenerated, t.dropped, t.order,
       t.stopped, t.fLimit, t.nextFLimit>> =
     <<r.rank0, r.child, r.ids, r.expanded, r.generated, r.numGenerated, r.dropped, r.order,
       r.stopped, r.fLimit, r.nextFLimit>>

LEMMA ContinueShape ==
  ASSUME NEW r, r.limitReached \in BOOLEAN, r.ordersLeft \in Nat
  PROVE  Goes(Continue(r), r)
<1> DEFINE atLimit == r.generated[r.order] >= task.limits[r.order]
           t == IF atLimit THEN GiveUpOrder(r) ELSE r
           last == [t EXCEPT !.phase = "outer",
                             !.current = IF t.nextFLimit # Infinite THEN NoPlan ELSE @]
           more == [t EXCEPT !.current = NoPlan,
                             !.phase = IF atLimit \/ r.generated[r.order] >= r.nextSwitch
                                       THEN "rotate" ELSE "take"]
<1>1. Continue(r) = IF t.ordersLeft = 0 THEN last ELSE more
  BY DEF Continue
<1>2. /\ t.queues = IF atLimit THEN [r.queues EXCEPT ![r.order] = {}] ELSE r.queues
      /\ t.secondary = IF atLimit THEN [r.secondary EXCEPT ![r.order] = {}] ELSE r.secondary
      /\ t.limitReached = (r.limitReached \/ atLimit)
      /\ t.ordersLeft = IF atLimit /\ r.ordersLeft > 0 THEN r.ordersLeft - 1 ELSE r.ordersLeft
      /\ <<t.current, t.rank0, t.child, t.ids, t.expanded, t.generated, t.numGenerated, t.dropped,
           t.order, t.stopped, t.fLimit, t.nextFLimit>> =
         <<r.current, r.rank0, r.child, r.ids, r.expanded, r.generated, r.numGenerated, r.dropped,
           r.order, r.stopped, r.fLimit, r.nextFLimit>>
  <2>1. CASE atLimit
    <3>1. t = GiveUpOrder(r)
      BY <2>1
    <3> HIDE DEF t, atLimit
    <3>2. /\ t.queues = [r.queues EXCEPT ![r.order] = {}]
          /\ t.secondary = [r.secondary EXCEPT ![r.order] = {}]
      BY <3>1 DEF GiveUpOrder
    <3>3. t.limitReached = TRUE /\ t.ordersLeft = IF r.ordersLeft > 0 THEN r.ordersLeft - 1 ELSE 0
      BY <3>1 DEF GiveUpOrder
    <3>4. <<t.current, t.rank0, t.child, t.ids, t.expanded, t.generated, t.numGenerated, t.dropped,
            t.order, t.stopped, t.fLimit, t.nextFLimit>> =
          <<r.current, r.rank0, r.child, r.ids, r.expanded, r.generated, r.numGenerated, r.dropped,
            r.order, r.stopped, r.fLimit, r.nextFLimit>>
      BY <3>1 DEF GiveUpOrder
    <3>5. t.ordersLeft = IF r.ordersLeft > 0 THEN r.ordersLeft - 1 ELSE r.ordersLeft
      BY <3>3
    <3> QED BY <2>1, <3>2, <3>3, <3>4, <3>5
  <2>2. CASE ~ atLimit
    <3>1. t = r
      BY <2>2
    <3> HIDE DEF t, atLimit
    <3> QED BY <2>2, <3>1
  <2> QED BY <2>1, <2>2
<1> HIDE DEF t
<1>3. CASE t.ordersLeft = 0
  <2>1. Continue(r) = last
    BY <1>1, <1>3
  <2> HIDE DEF atLimit
  <2>2. /\ last.phase = "outer" /\ last.current \in {t.current, NoPlan}
        /\ <<last.queues, last.secondary, last.limitReached, last.ordersLeft>> =
           <<t.queues, t.secondary, t.limitReached, t.ordersLeft>>
        /\ <<last.rank0, last.child, last.ids, last.expanded, last.generated, last.numGenerated,
             last.dropped, last.order, last.stopped, last.fLimit, last.nextFLimit>> =
           <<t.rank0, t.child, t.ids, t.expanded, t.generated, t.numGenerated,
             t.dropped, t.order, t.stopped, t.fLimit, t.nextFLimit>>
    OBVIOUS
  <2> HIDE DEF last
  <2>3. Goes(last, r)
    BY <1>2, <1>3, <2>2 DEF Goes, atLimit
  <2> QED BY <2>1, <2>3
<1>4. CASE t.ordersLeft # 0
  <2>1. Continue(r) = more
    BY <1>1, <1>4
  <2>2. /\ more.phase \in {"rotate", "take"} /\ (atLimit => more.phase = "rotate")
        /\ more.current = NoPlan
        /\ <<more.queues, more.secondary, more.limitReached, more.ordersLeft>> =
           <<t.queues, t.secondary, t.limitReached, t.ordersLeft>>
        /\ <<more.rank0, more.child, more.ids, more.expanded, more.generated, more.numGenerated,
             more.dropped, more.order, more.stopped, more.fLimit, more.nextFLimit>> =
           <<t.rank0, t.child, t.ids, t.expanded, t.generated, t.numGenerated,
             t.dropped, t.order, t.stopped, t.fLimit, t.nextFLimit>>
    <3> HIDE DEF atLimit
    <3> QED OBVIOUS
  <2> HIDE DEF more
  <2>3. Goes(more, r)
    BY <1>2, <1>4, <2>2 DEF Goes, atLimit
  <2> QED BY <2>1, <2>3
<1> QED BY <1>3, <1>4

LEMMA EndExpansionKeeps == IndInv /\ EndExpansion => IndInv'
<1> SUFFICES ASSUME IndInv, EndExpansion PROVE IndInv'
  OBVIOUS
<1> DEFINE n == s.current
           o0 == s.order
           atLimit == s.generated[o0] >= task.limits[o0]
           cut == IF atLimit THEN {o0} ELSE {}
<1>1. /\ s.phase = "children" /\ ~ Complete(sp, n) /\ UNCHANGED <<task, late>>
      /\ n \in Numbers /\ n # NoPlan /\ o0 \in Orders /\ s.generated[o0] > 0
      /\ s.child > Len(Refinements) /\ task \in Tasks
      /\ s.generated[o0] \in Nat /\ task.limits[o0] \in Nat
  <2>1. task \in Tasks
    BY DEF IndInv, TypeOK
  <2> QED BY <2>1, SpaceShape DEF EndExpansion, IndInv, TypeOK, Places, InHand
<1>2. PICK b : IsBounded(b, [s EXCEPT !.child = 0]) /\ s' = Continue(b)
  <2> DEFINE r == [s EXCEPT !.child = 0]
  <2>1. /\ r.queues \in [Orders -> SUBSET Entries] /\ r.secondary \in [Orders -> SUBSET Entries]
        /\ \A o \in Orders : IsFiniteSet(r.queues[o])
        /\ r.dropped \in Nat
    BY DEF IndInv, TypeOK
  <2>2. PICK t \in TrimTargets(Total(r.queues), r.capacity) :
          \E q \in Trimmings(r.queues, t.keep), q2 \in Trimmings(r.secondary, t.keep) :
            s' = Continue(Bounded(r, t.capacity, q, q2))
    BY Zenon DEF EndExpansion
  <2>3. PICK q \in Trimmings(r.queues, t.keep), q2 \in Trimmings(r.secondary, t.keep) :
          s' = Continue(Bounded(r, t.capacity, q, q2))
    BY <2>2
  <2> HIDE DEF r
  <2>4. IsBounded(Bounded(r, t.capacity, q, q2), r)
    BY <1>1, <2>1, BoundedShape
  <2> QED BY <2>3, <2>4 DEF r
<1>3. /\ b.queues \in [Orders -> SUBSET Entries] /\ \A o \in Orders : b.queues[o] \subseteq s.queues[o]
      /\ b.secondary \in [Orders -> SUBSET Entries]
      /\ \A o \in Orders : b.secondary[o] \subseteq s.secondary[o]
      /\ b.dropped \in Nat /\ (b.dropped = 0 => s.dropped = 0 /\ b.queues = s.queues)
      /\ b.child = 0
      /\ <<b.phase, b.current, b.rank0, b.ids, b.expanded, b.generated, b.numGenerated,
           b.order, b.stopped, b.ordersLeft, b.limitReached, b.fLimit, b.nextFLimit>> =
         <<s.phase, s.current, s.rank0, s.ids, s.expanded, s.generated, s.numGenerated,
           s.order, s.stopped, s.ordersLeft, s.limitReached, s.fLimit, s.nextFLimit>>
  BY <1>2 DEF IsBounded
<1>4. Goes(s', b)
  BY <1>2, <1>3, ContinueShape DEF IndInv, TypeOK
<1>5. /\ s'.queues = IF atLimit THEN [b.queues EXCEPT ![o0] = {}] ELSE b.queues
      /\ s'.secondary = IF atLimit THEN [b.secondary EXCEPT ![o0] = {}] ELSE b.secondary
      /\ s'.limitReached = (s.limitReached \/ atLimit)
      /\ s'.ordersLeft = IF atLimit /\ s.ordersLeft > 0 THEN s.ordersLeft - 1 ELSE s.ordersLeft
      /\ s'.current \in {n, NoPlan}
      /\ s'.phase \in {"outer", "rotate", "take"}
      /\ s'.phase = "outer" => s'.ordersLeft = 0
      /\ s'.phase # "outer" => s'.current = NoPlan
      /\ s'.phase = "take" => ~ atLimit
      /\ s'.dropped = b.dropped /\ s'.child = 0
      /\ UNCHANGED <<s.rank0, s.ids, s.expanded, s.generated, s.numGenerated, s.order, s.stopped,
                     s.fLimit, s.nextFLimit>>
  BY <1>3, <1>4 DEF Goes
<1> HIDE DEF atLimit
<1>6. /\ \A o \in Orders : s'.queues[o] \subseteq s.queues[o]
      /\ \A o \in Orders : s'.secondary[o] \subseteq s.secondary[o]
      /\ \A o \in Orders : ~ (o = o0 /\ atLimit) => s'.queues[o] = b.queues[o]
  BY <1>1, <1>3, <1>5
<1>7. TypeOK'
  <2>1. s'.queues \in [Orders -> SUBSET Entries] /\ s'.secondary \in [Orders -> SUBSET Entries]
    BY <1>1, <1>3, <1>5
  <2>2. \A o \in Orders : IsFiniteSet(s'.queues[o])
    <3>1. \A o \in Orders : IsFiniteSet(s.queues[o])
      BY DEF IndInv, TypeOK
    <3> QED BY <1>6, <3>1, FS_Subset
  <2>3. s'.ordersLeft \in Nat
    BY <1>5 DEF IndInv, TypeOK
  <2>4. s'.limitReached \in BOOLEAN
    BY <1>5 DEF IndInv, TypeOK, atLimit
  <2>5. s'.current \in Numbers \cup {NoPlan} /\ s'.phase \in Phases /\ s'.child \in Nat /\ s'.dropped \in Nat
    BY <1>1, <1>3, <1>5 DEF Phases
  <2> QED BY <1>1, <1>5, <2>1, <2>2, <2>3, <2>4, <2>5, SameCall DEF IndInv, TypeOK
<1>8. Places'
  <2>1. s'.phase = "take" => s.generated[o0] < task.limits[o0]
    BY <1>1, <1>5 DEF atLimit
  <2> QED BY <1>1, <1>5, <2>1, SameCall DEF Places, InHand
<1>9. s'.ordersLeft = 0 => s'.limitReached
  <2>1. CASE atLimit
    BY <1>5, <2>1
  <2>2. CASE ~ atLimit
    BY <1>5, <2>2 DEF IndInv, Ends
  <2> QED BY <2>1, <2>2
<1>10. Ends'
  BY <1>5, <1>9 DEF Ends
<1>11. ~ Complete(sp, Root)
  BY <1>1 DEF IndInv, RootAlone
<1>12. RootAlone'
  BY <1>1, <1>11, SameCall DEF RootAlone
<1>13. \A o \in Orders' : Ranked(o)'
  <2> SUFFICES ASSUME NEW o \in Orders PROVE Ranked(o)'
    BY <1>1, SameCall
  <2>1. Ranked(o)
    BY DEF IndInv
  <2> QED BY <1>1, <1>5, <1>6, <2>1, SameCall DEF Ranked
<1>14. FiniteHand' /\ BestInHand' /\ Limits'
  BY <1>1, <1>5, SameCall DEF IndInv, FiniteHand, BestInHand, InHand, Limits
<1>15. Marking'
  <2>1. ASSUME NEW o \in Orders, NEW m \in Numbers, Held(o, m)'
        PROVE  Held(o, m)
    <3>1. CASE <<o, m>> \in s'.expanded
      BY <1>5, <3>1 DEF Held
    <3>2. CASE \E d \in s'.queues[o] \cup s'.secondary[o] : d.plan = m
      BY <1>6, <3>2 DEF Held
    <3>3. CASE o = s'.order /\ m = s'.current
      BY <1>5, <3>3, NoPlanIsNone DEF Held
    <3> QED BY <2>1, <3>1, <3>2, <3>3 DEF Held
  <2>2. Marks => Descent'
    BY <1>1, <1>5, <2>1, DescentKept DEF IndInv, Marking
  <2>3. Marks => Unexpanded'
    BY <1>1, <1>5, SameCall DEF IndInv, Marking, Unexpanded
  <2> QED BY <1>1, <1>5, <2>2, <2>3, SameCall DEF IndInv, Marking
<1>16. Coverage'
  <2> SUFFICES ASSUME Exact', ~ late' PROVE Coverage'
    BY DEF Coverage
  <2>1. b.queues = s.queues /\ Exact /\ ~ late
    BY <1>1, <1>3, <1>5, SameCall DEF Exact
  <2>2. ASSUME NEW o \in Orders, s'.generated[o] > 0, Open(o)' PROVE CoveredIn(o)'
    <3>1. Open(o) /\ CoveredIn(o)
      BY <1>1, <1>5, <2>1, <2>2, SameCall DEF Open, IndInv, Coverage
    <3>2. ~ (o = o0 /\ atLimit)
      BY <1>1, <1>11, <3>1 DEF Open, atLimit
    <3>3. s'.queues[o] = s.queues[o]
      BY <1>6, <2>1, <3>2
    <3>4. \A m \in Numbers : Queued(o, m) => Live(o, m)'
      BY <1>5, <3>3 DEF Queued, Live
    <3>5. ASSUME NEW g \in Solutions(o), NEW m \in Numbers, Live(o, m), Leads(o, m, g)
          PROVE  CutOff(o, g)' \/ \E k \in Numbers : Live(o, k)' /\ Leads(o, k, g)
      <4>1. CASE Queued(o, m)
        BY <3>4, <3>5, <4>1
      <4>2. CASE o = o0 /\ m = n
        <5>1. Complete(sp, g) /\ sp.inst[g] # Fails /\ g \in Numbers
          BY <1>1, Instances DEF Solutions, SpaceSolutions
        <5>2. Complete(sp, sp.inst[g])
          BY <1>1, <5>1, Instances
        <5>3. g \in sp.below[o][n] /\ g # n
          BY <1>1, <3>5, <4>2, <5>1, <5>2 DEF Leads
        <5>4. PICK d \in ChildrenIn(sp, o, n) : g \in sp.below[o][d]
          BY <1>1, <5>3, Below
        <5>5. d \in Numbers
          BY <1>1, <5>4, Below
        <5>6. Refinements = sp.children[o][n] /\ Refinements \in Seq(Numbers)
          BY <1>1, <4>2, SpaceShape DEF Refinements
        <5>7. PICK i \in DOMAIN Refinements : d = Refinements[i]
          BY <5>4, <5>6 DEF ChildrenIn
        <5>8. i < s.child
          <6>1. i \in 1 .. Len(Refinements) /\ Len(Refinements) \in Nat
            BY <5>6, <5>7
          <6>2. s.child \in Nat
            BY DEF IndInv, TypeOK
          <6> QED BY <1>1, <6>1, <6>2
        <5>9. CutOff(o, g) \/ ~ Open(o) \/ Queued(o, d)
          BY <1>1, <2>1, <4>2, <5>4, <5>7, <5>8 DEF IndInv, Coverage, SeenAreCovered
        <5>10. CASE CutOff(o, g)
          BY <1>1, <1>5, <5>10, SameCall DEF CutOff
        <5>11. CASE Queued(o, d)
          BY <3>4, <5>4, <5>5, <5>11 DEF Leads
        <5> QED BY <3>1, <5>9, <5>10, <5>11
      <4> QED BY <3>5, <4>1, <4>2 DEF Live
    <3>6. s'.nextFLimit \in 0 .. Infinite /\ s'.nextFLimit <= s.nextFLimit
      BY <1>5, SearchAssumption DEF IndInv, TypeOK
    <3> QED BY <1>1, <1>5, <3>1, <3>5, <3>6, StaysCovered DEF IndInv
  <2>3. SeenAreCovered'
    BY <1>5 DEF SeenAreCovered
  <2> QED BY <1>1, <2>2, <2>3, SameCall DEF Coverage
<1>17. Answers'
  <2>1. ~ Solved(s)'
    BY <1>1, <1>5, SameCall DEF Solved
  <2> QED BY <1>5, <2>1 DEF Answers, NoSolutionIsProof, Outcome, Solved
<1> QED BY <1>7, <1>8, <1>10, <1>12, <1>13, <1>14, <1>15, <1>16, <1>17 DEF IndInv

-----------------------------------------------------------------------------
(* The theorems.                                                             *)

LEMMA IndInvStep == IndInv /\ [Next]_vars => IndInv'
<1>1. ASSUME IndInv, UNCHANGED vars PROVE IndInv'
  <2>1. task' = task /\ late' = late /\ s' = s
    BY <1>1 DEF vars
  <2>2. Refinements' = Refinements /\ (\A o : Open(o)' = Open(o)) /\ Exact' = Exact
    BY <2>1, SameCall DEF Refinements, Open, Exact
  <2>3. /\ \A o, n : Held(o, n)' = Held(o, n) /\ Live(o, n)' = Live(o, n) /\ Queued(o, n)' = Queued(o, n)
        /\ \A o, g : CutOff(o, g)' = CutOff(o, g)
    BY <2>1, SameCall DEF Held, Live, Queued, CutOff
  <2>4. TypeOK' /\ Places' /\ Ends' /\ RootAlone'
    BY <1>1, <2>1, <2>2, SameCall DEF IndInv, TypeOK, Places, InHand, Ends, RootAlone
  <2>5. \A o \in Orders' : Ranked(o)'
    BY <1>1, <2>1, SameCall DEF IndInv, Ranked
  <2>6. FiniteHand' /\ Limits' /\ BestInHand'
    BY <1>1, <2>1, SameCall DEF IndInv, FiniteHand, InHand, Limits, BestInHand
  <2>7. Marking'
    BY <1>1, <2>1, <2>3, SameCall DEF IndInv, Marking, Descent, Unexpanded
  <2>8. Coverage'
    BY <1>1, <2>1, <2>2, <2>3, SameCall DEF IndInv, Coverage, CoveredIn, SeenAreCovered
  <2>9. Answers'
    BY <1>1, <2>1, <2>2, SameCall DEF IndInv, Answers, Solved, Outcome, NoSolutionIsProof
  <2> QED BY <2>4, <2>5, <2>6, <2>7, <2>8, <2>9 DEF IndInv
<1>2. IndInv /\ Step => IndInv'
  BY InstantiateCompleteKeeps, StopBeforeExpansionKeeps, ExpandKeeps, NextChildKeeps,
     EndExpansionKeeps, RotateOrderKeeps, TakeNextKeeps, PopNothingKeeps, PopEntryKeeps,
     EndOrDeepenKeeps DEF Step
<1> QED BY <1>1, <1>2, DeadlinePassesKeeps DEF Next, Returned

LEMMA IndInvHolds == Spec => []IndInv
<1> QED BY IndInvInit, IndInvStep, PTL DEF Spec

\* As long as nothing was dropped and the deadline has not passed, every
\* solution of a flaw order below its limit is below a plan that is queued or
\* in hand, or IDA* will come back for it: pop_next, the stale test of the two
\* queues, the lazy evaluation and the hand-over between flaw orders lose none.
THEOREM NoSolutionIsLost == Spec => []FrontierCovers
<1>1. IndInv => FrontierCovers
  <2> SUFFICES ASSUME IndInv, s.dropped = 0, ~ late, IsIda => NOrders = 1,
                      NEW o \in Orders, s.generated[o] > 0, s.generated[o] < task.limits[o],
                      NEW g \in Solutions(o)
               PROVE  \E n \in Numbers :
                        /\ Leads(o, n, g)
                        /\ \/ n \in Pending(o)
                           \/ s.fLimit < sp.f[n] /\ s.nextFLimit <= sp.f[n] /\ sp.f[n] < Infinite
    BY DEF FrontierCovers, Leads, Numbers
  <2>1. CoveredIn(o)
    BY DEF IndInv, Coverage, Exact, Open
  <2>2. \A n \in Numbers : Live(o, n) => n \in Pending(o)
    BY NoPlanIsNone DEF Live, Queued, Pending
  <2>3. \A n \in Numbers : Leads(o, n, g) => sp.f[n] < Infinite
    BY LeadsFinite DEF IndInv, TypeOK
  <2> QED BY <2>1, <2>2, <2>3 DEF CoveredIn, CutOff
<1> QED BY <1>1, IndInvHolds, PTL

\* When nothing was dropped, A* and, with one flaw order, IDA* answer a plan of
\* least cost: what is in hand was the best of the queue, and every solution is
\* below something queued.
THEOREM AnswerIsCheapest == Spec => []SolvedIsCheapest
<1>1. IndInv => SolvedIsCheapest
  BY DEF IndInv, Answers, SolvedIsCheapest, Orderly, Outcome
<1> QED BY <1>1, IndInvHolds, PTL

\* NoSolution is answered only when there is no plan, whatever was skipped,
\* cut off, discarded or left when the search stopped.  IDA* with several flaw
\* orders is left out: there it fails, as the run search_ida_orders shows.
THEOREM ExhaustionIsProof == Spec => []((IsIda => NOrders = 1) => NoSolutionIsProof)
<1>1. IndInv => ((IsIda => NOrders = 1) => NoSolutionIsProof)
  <2> SUFFICES ASSUME IndInv, IsIda => NOrders = 1, Outcome = "NoSolution"
               PROVE  Solutions(1) = {}
    BY DEF NoSolutionIsProof
  <2>1. s.dropped \in Nat /\ ~ (s.dropped > 0)
    BY DEF IndInv, TypeOK, Outcome
  <2>2. s.dropped = 0
    BY <2>1
  <2> QED BY <2>2 DEF IndInv, Answers, Exact, NoSolutionIsProof
<1> QED BY <1>1, IndInvHolds, PTL

-----------------------------------------------------------------------------
(* The hand-over between flaw orders.                                        *)

BelowLimit == {o \in Orders : s.generated[o] < task.limits[o]}

\* The orders that still count as left: those below their limits, and the one
\* whose turn it is until its expansion has ended.
Unspent == IF s.phase \in {"rotate", "take"} THEN BelowLimit ELSE BelowLimit \cup {s.order}

HandOver ==
  /\ s.phase \in {"rotate", "take"} => s.ordersLeft > 0
  /\ (\A o \in Orders : task.limits[o] > 0) => s.ordersLeft <= Cardinality(Unspent)

LEMMA UnspentFinite ==
  ASSUME task \in Tasks, NEW left \in SUBSET Orders
  PROVE  IsFiniteSet(left) /\ Cardinality(left) \in Nat
<1>1. 1 \in Int /\ NOrders \in Int
  BY SpaceShape
<1>2. IsFiniteSet(Orders)
  BY <1>1, FS_Interval DEF Orders
<1> QED BY <1>2, FS_Subset, FS_CardinalityType

\* A step that gives no order up and takes none from those left.
LEMMA HandOverKept ==
  ASSUME TypeOK, TypeOK', HandOver, task' = task, s'.ordersLeft = s.ordersLeft,
         Unspent \subseteq Unspent',
         s'.phase \in {"rotate", "take"} => s.phase \in {"rotate", "take"}
  PROVE  HandOver'
<1>1. Orders' = Orders
  BY SameCall
<1>2. Unspent \subseteq Orders /\ Unspent' \subseteq Orders
  BY <1>1 DEF Unspent, BelowLimit, TypeOK
<1>3. /\ IsFiniteSet(Unspent) /\ Cardinality(Unspent) \in Nat
      /\ IsFiniteSet(Unspent') /\ Cardinality(Unspent') \in Nat
  BY <1>2, UnspentFinite DEF TypeOK
<1>4. Cardinality(Unspent) <= Cardinality(Unspent')
  BY <1>3, FS_Subset
<1>5. s.ordersLeft \in Nat
  BY DEF TypeOK
<1> QED BY <1>1, <1>3, <1>4, <1>5 DEF HandOver

\* What a step does to the turn that is not its business.
SameTurn(t, r) ==
  <<t.generated, t.order, t.ordersLeft>> = <<r.generated, r.order, r.ordersLeft>>

LEMMA SameTurnKeeps ==
  ASSUME TypeOK, TypeOK', HandOver, task' = task, SameTurn(s', s),
         s.phase \notin {"rotate", "take"}, s'.phase \notin {"rotate", "take"}
  PROVE  HandOver'
<1>1. Unspent' = Unspent
  BY SameCall DEF Unspent, BelowLimit, SameTurn
<1> QED BY <1>1, HandOverKept DEF SameTurn

LEMMA InstantiateCompleteHandsOn ==
  ASSUME IndInv, TypeOK', HandOver, InstantiateComplete PROVE HandOver'
<1> DEFINE n == s.current
           i == IF task.canTimeOut /\ late THEN Fails ELSE sp.inst[n]
           r == Marked(s, n)
           requeued ==
             IF i = Fails \/ QueueRank(i) = Infinite THEN r
             ELSE IF IsIda /\ QueueRank(i) > r.fLimit
                  THEN [r EXCEPT !.nextFLimit = Min({@, QueueRank(i)})]
                  ELSE Pushed(r, i, r.ids[n], QueueRank(i), FALSE)
<1>1. task' = task /\ s.phase = "inner"
  BY DEF InstantiateComplete
<1>2. SameTurn(r, s)
  BY MarkedShape DEF SameTurn
<1> HIDE DEF r
<1>3. SameTurn(requeued, s)
  <2>1. ASSUME NEW id, NEW rank PROVE SameTurn(Pushed(r, i, id, rank, FALSE), r)
    BY DEF Pushed, SameTurn
  <2> HIDE DEF i
  <2>2. ASSUME NEW l PROVE SameTurn([r EXCEPT !.nextFLimit = l], r)
    BY DEF SameTurn
  <2> QED BY <1>2, <2>1, <2>2 DEF SameTurn
<1>4. \/ s' = [r EXCEPT !.current = i, !.phase = "outer"]
      \/ s' = [requeued EXCEPT !.stopped = TRUE, !.current = NoPlan, !.phase = "outer"]
      \/ s' = EnterPop(requeued)
  BY Zenon DEF InstantiateComplete, r
<1> HIDE DEF requeued, i, n
<1>5. SameTurn(s', s) /\ s'.phase \in {"outer", "pop"}
  <2>1. CASE s' = [r EXCEPT !.current = i, !.phase = "outer"]
    BY <1>2, <2>1 DEF SameTurn
  <2>2. CASE s' = [requeued EXCEPT !.stopped = TRUE, !.current = NoPlan, !.phase = "outer"]
    BY <1>3, <2>2 DEF SameTurn
  <2>3. CASE s' = EnterPop(requeued)
    BY <1>3, <2>3 DEF EnterPop, SameTurn
  <2> QED BY <1>4, <2>1, <2>2, <2>3
<1> QED BY <1>1, <1>5, SameTurnKeeps DEF IndInv

LEMMA NextChildHandsOn ==
  ASSUME IndInv, TypeOK', HandOver, NextChild PROVE HandOver'
<1> DEFINE c == Refinements[s.child]
<1>1. s.phase = "children" /\ task' = task /\ s' = [Child(s, c) EXCEPT !.child = @ + 1]
  BY DEF NextChild
<1> HIDE DEF c
<1>2. /\ s'.phase = s.phase /\ s'.order = s.order /\ s'.ordersLeft = s.ordersLeft
      /\ \A o \in Orders \ {s.order} : s'.generated[o] = s.generated[o]
  <2>1. ASSUME NEW id, NEW rank, NEW lazy
        PROVE  LET p == Pushed(s, c, id, rank, lazy) IN
               SameTurn(p, s) /\ p.phase = s.phase
    BY DEF Pushed, SameTurn
  <2>2. \/ Child(s, c) = s
        \/ \E l : Child(s, c) = [s EXCEPT !.nextFLimit = l]
        \/ \E id, rank, lazy :
             Child(s, c) = [Pushed(s, c, id, rank, lazy) EXCEPT !.generated[s.order] = @ + 1]
    BY DEF Child
  <2>3. CASE Child(s, c) = s
    BY <1>1, <2>3
  <2>4. CASE \E l : Child(s, c) = [s EXCEPT !.nextFLimit = l]
    BY <1>1, <2>4
  <2>5. CASE \E id, rank, lazy :
               Child(s, c) = [Pushed(s, c, id, rank, lazy) EXCEPT !.generated[s.order] = @ + 1]
    <3>1. PICK id, rank, lazy :
            Child(s, c) = [Pushed(s, c, id, rank, lazy) EXCEPT !.generated[s.order] = @ + 1]
      BY <2>5
    <3> DEFINE p == Pushed(s, c, id, rank, lazy)
    <3>2. SameTurn(p, s) /\ p.phase = s.phase
      BY <2>1
    <3>3. s' = [[p EXCEPT !.generated[s.order] = @ + 1] EXCEPT !.child = @ + 1]
      BY <1>1, <3>1
    <3> HIDE DEF p
    <3>4. /\ s'.phase = p.phase /\ s'.order = p.order /\ s'.ordersLeft = p.ordersLeft
          /\ s'.generated = [p.generated EXCEPT ![s.order] = @ + 1]
      BY <3>3
    <3>5. s.generated \in [Orders -> Nat]
      BY DEF IndInv, TypeOK
    <3> QED BY <3>2, <3>4, <3>5 DEF SameTurn
  <2> QED BY <2>2, <2>3, <2>4, <2>5
<1>3. Unspent \subseteq Unspent'
  BY <1>1, <1>2, SameCall DEF Unspent, BelowLimit
<1> QED BY <1>1, <1>2, <1>3, HandOverKept DEF IndInv

\* An order at its limit is taken from those left when its queues are given up.
LEMMA EndExpansionHandsOn ==
  ASSUME IndInv, TypeOK', HandOver, EndExpansion PROVE HandOver'
<1> DEFINE r == [s EXCEPT !.child = 0]
           atLimit == s.generated[s.order] >= task.limits[s.order]
<1>1. s.phase = "children" /\ task' = task /\ task \in Tasks /\ s.order \in Orders
  BY DEF EndExpansion, IndInv, TypeOK
<1>2. PICK capacity, q, q2 : s' = Continue(Bounded(r, capacity, q, q2))
  BY Zenon DEF EndExpansion
<1> DEFINE b == Bounded(r, capacity, q, q2)
<1>3. SameTurn(b, s) /\ b.limitReached = s.limitReached
  BY DEF Bounded, SameTurn
<1> HIDE DEF b
<1>4. Goes(s', b)
  BY <1>2, <1>3, ContinueShape DEF b, SameTurn, IndInv, TypeOK
<1>5. /\ s'.generated = s.generated /\ s'.order = s.order
      /\ s'.ordersLeft = IF atLimit /\ s.ordersLeft > 0 THEN s.ordersLeft - 1 ELSE s.ordersLeft
      /\ s'.phase \in {"outer", "rotate", "take"}
      /\ s'.phase = "outer" => s'.ordersLeft = 0
  BY <1>3, <1>4 DEF Goes, SameTurn
<1>6. /\ s.ordersLeft \in Nat /\ s'.ordersLeft \in Nat
      /\ s.generated[s.order] \in Nat /\ task.limits[s.order] \in Nat
  BY <1>1, SpaceShape DEF IndInv, TypeOK
<1>7. /\ Cardinality(Unspent) \in Nat /\ IsFiniteSet(Unspent)
      /\ Cardinality(Unspent') \in Nat /\ IsFiniteSet(Unspent')
  <2>1. Unspent \subseteq Orders /\ Unspent' \subseteq Orders
    BY <1>1, <1>5, SameCall DEF Unspent, BelowLimit
  <2> QED BY <1>1, <2>1, UnspentFinite
<1>8. CASE s'.phase = "outer"
  BY <1>5, <1>7, <1>8 DEF HandOver
<1>9. CASE s'.phase # "outer"
  <2>1. Unspent' = BelowLimit /\ Unspent = BelowLimit \cup {s.order}
    BY <1>1, <1>5, <1>9, SameCall DEF Unspent, BelowLimit
  <2>2. (\A o \in Orders : task.limits[o] > 0) => s.ordersLeft <= Cardinality(Unspent)
    BY DEF HandOver
  <2>3. Orders' = Orders /\ task'.limits = task.limits
    BY <1>1, SameCall
  <2>4. s'.ordersLeft > 0
    <3>1. s'.ordersLeft # 0
      <4>1. Continue(b).ordersLeft = 0 => Continue(b).phase = "outer"
        BY DEF Continue, GiveUpOrder
      <4> QED BY <1>2, <1>9, <4>1 DEF b
    <3> QED BY <1>6, <3>1
  <2>5. CASE atLimit
    <3>1. Unspent' = Unspent \ {s.order}
      BY <1>1, <1>6, <2>1, <2>5 DEF BelowLimit
    <3>2. s.order \in Unspent
      BY <2>1
    <3>3. Cardinality(Unspent') = Cardinality(Unspent) - 1
      BY <1>7, <3>1, <3>2, FS_RemoveElement
    <3>4. s'.ordersLeft = s.ordersLeft - 1
      BY <1>5, <1>6, <2>4, <2>5
    <3> QED BY <1>6, <1>7, <2>2, <2>3, <2>4, <3>3, <3>4 DEF HandOver
  <2>6. CASE ~ atLimit
    <3>1. Unspent' = Unspent
      BY <1>1, <1>6, <2>1, <2>6 DEF BelowLimit
    <3> QED BY <1>5, <2>2, <2>3, <2>4, <2>6, <3>1 DEF HandOver
  <2> QED BY <2>5, <2>6
<1> QED BY <1>8, <1>9

LEMMA HandOverInit == Init => HandOver
<1> SUFFICES ASSUME Init PROVE HandOver
  OBVIOUS
<1>1. /\ s.phase = "inner" /\ s.order = 1 /\ s.ordersLeft = NOrders
      /\ s.generated = [o \in Orders |-> IF o = 1 THEN 1 ELSE 0]
      /\ task \in Tasks
  BY DEF Init, InitialLocals
<1>2. 1 \in Orders /\ NOrders \in Nat
  BY <1>1, SpaceShape
<1>3. ASSUME \A o \in Orders : task.limits[o] > 0 PROVE Unspent = Orders
  BY <1>1, <1>2, <1>3 DEF Unspent, BelowLimit
<1>4. Cardinality(Orders) = NOrders
  BY <1>2, FS_Interval DEF Orders
<1> QED BY <1>1, <1>2, <1>3, <1>4 DEF HandOver

LEMMA HandOverStep == IndInv /\ TypeOK' /\ HandOver /\ [Next]_vars => HandOver'
<1> SUFFICES ASSUME IndInv, TypeOK', HandOver, [Next]_vars PROVE HandOver'
  OBVIOUS
<1>1. CASE InstantiateComplete
  BY <1>1, InstantiateCompleteHandsOn
<1>2. CASE StopBeforeExpansion
  BY <1>2, SameTurnKeeps DEF StopBeforeExpansion, SameTurn, IndInv
<1>3. CASE Expand
  <2>1. ASSUME NEW r PROVE SameTurn(Boosted(r), r)
    BY DEF Boosted, SameTurn
  <2>2. SameTurn(Marked(s, s.current), s)
    BY MarkedShape DEF SameTurn
  <2> DEFINE b == Boosted(Marked(s, s.current))
  <2>3. SameTurn(b, s)
    BY <2>1, <2>2 DEF SameTurn
  <2>4. s' = [b EXCEPT !.phase = "children", !.child = 1] /\ s.phase = "inner" /\ task' = task
    BY <1>3 DEF Expand
  <2> HIDE DEF b
  <2>5. SameTurn(s', s) /\ s'.phase = "children"
    BY <2>3, <2>4 DEF SameTurn
  <2> QED BY <2>4, <2>5, SameTurnKeeps DEF IndInv
<1>4. CASE NextChild
  BY <1>4, NextChildHandsOn
<1>5. CASE EndExpansion
  BY <1>5, EndExpansionHandsOn
<1>6. CASE RotateOrder
  <2>1. /\ task' = task /\ s.phase = "rotate" /\ s'.phase \in {"rotate", "take"}
        /\ s'.generated = s.generated /\ s'.ordersLeft = s.ordersLeft
    BY <1>6 DEF RotateOrder
  <2>2. Unspent' = Unspent
    BY <2>1, SameCall DEF Unspent, BelowLimit
  <2> QED BY <2>1, <2>2, HandOverKept DEF IndInv
<1>7. CASE TakeNext
  <2>1. /\ task' = task /\ s.phase = "take" /\ s'.phase \in {"inner", "pop"}
        /\ s'.order = s.order /\ s'.ordersLeft = s.ordersLeft
        /\ \A o \in Orders \ {s.order} : s'.generated[o] = s.generated[o]
    BY <1>7 DEF TakeNext, EnterPop, IndInv, TypeOK
  <2>2. Unspent \subseteq Unspent'
    BY <2>1, SameCall DEF Unspent, BelowLimit
  <2> QED BY <2>1, <2>2, HandOverKept DEF IndInv
<1>8. CASE PopNothing
  <2>1. s.phase = "pop" /\ task' = task /\ s'.phase = "outer" /\ SameTurn(s', s)
    <3>1. \/ s' = [s EXCEPT !.phase = "outer"]
          \/ s' = [s EXCEPT !.phase = "outer", !.expandCount = Count(s)]
      BY <1>8, Zenon DEF PopNothing
    <3>2. s.phase = "pop" /\ task' = task
      BY <1>8 DEF PopNothing
    <3>3. CASE s' = [s EXCEPT !.phase = "outer"]
      BY <3>2, <3>3 DEF SameTurn
    <3>4. CASE s' = [s EXCEPT !.phase = "outer", !.expandCount = Count(s)]
      BY <3>2, <3>4 DEF SameTurn
    <3> QED BY <3>1, <3>3, <3>4
  <2> QED BY <2>1, SameTurnKeeps DEF IndInv
<1>9. CASE PopEntry
  <2>1. s.phase = "pop" /\ task' = task /\ s'.phase \in {"pop", "inner"} /\ SameTurn(s', s)
    <3> DEFINE src == PopSource(s)
    <3>1. PICK e : LET r == [s EXCEPT ![src][s.order] = @ \ {e}, !.expandCount = Count(s)] IN
            s' = IF Stale(e) THEN r
                 ELSE IF ~ e.lazy
                      THEN [r EXCEPT !.phase = "inner", !.current = e.plan, !.rank0 = e.rank]
                 ELSE Evaluated(r, e)
      BY <1>9 DEF PopEntry
    <3> DEFINE r == [s EXCEPT ![src][s.order] = @ \ {e}, !.expandCount = Count(s)]
    <3>2. s.phase = "pop" /\ task' = task
      BY <1>9 DEF PopEntry
    <3>3. src \in {"queues", "secondary"}
      BY DEF PopSource
    <3>4. SameTurn(r, s) /\ r.phase = s.phase
      <4>1. CASE src = "queues"
        BY <4>1 DEF SameTurn
      <4>2. CASE src = "secondary"
        BY <4>2 DEF SameTurn
      <4> QED BY <3>3, <4>1, <4>2
    <3> HIDE DEF r
    <3>5. SameTurn(Evaluated(r, e), r) /\ Evaluated(r, e).phase = r.phase
      BY DEF Evaluated, SameTurn
    <3>6. \/ s' = r
          \/ s' = [r EXCEPT !.phase = "inner", !.current = e.plan, !.rank0 = e.rank]
          \/ s' = Evaluated(r, e)
      BY <3>1 DEF r
    <3>7. CASE s' = [r EXCEPT !.phase = "inner", !.current = e.plan, !.rank0 = e.rank]
      <4> HIDE DEF src
      <4>1. SameTurn(s', r) /\ s'.phase = "inner"
        BY <3>7 DEF SameTurn
      <4> QED BY <3>2, <3>4, <4>1 DEF SameTurn
    <3>8. CASE s' = r \/ s' = Evaluated(r, e)
      <4>1. SameTurn(s', r) /\ s'.phase = r.phase
        BY <3>5, <3>8 DEF SameTurn
      <4> QED BY <3>2, <3>4, <4>1 DEF SameTurn
    <3> QED BY <3>6, <3>7, <3>8
  <2> QED BY <2>1, SameTurnKeeps DEF IndInv
<1>10. CASE EndOrDeepen
  <2>1. s.phase = "outer" /\ task' = task /\ s'.phase \in {"done", "inner"} /\ SameTurn(s', s)
    BY <1>10 DEF EndOrDeepen, SameTurn
  <2> QED BY <2>1, SameTurnKeeps DEF IndInv
<1>11. CASE DeadlinePasses \/ Returned \/ UNCHANGED vars
  <2>1. task' = task /\ s' = s
    BY <1>11 DEF DeadlinePasses, Returned, vars
  <2>2. Unspent' = Unspent
    BY <2>1, SameCall DEF Unspent, BelowLimit
  <2> QED BY <2>1, <2>2, HandOverKept DEF IndInv
<1> QED BY <1>1, <1>2, <1>3, <1>4, <1>5, <1>6, <1>7, <1>8, <1>9, <1>10, <1>11 DEF Next, Step

\* The loop that looks for the next flaw order ends when no limit is zero: the
\* orders counted as left are no more than those below their limits, because
\* each one is taken from the count once, when its queues are given up.
THEOREM HandOverAlwaysEnds == Spec => []HandOverEnds
<1>1. IndInv /\ HandOver => HandOverEnds
  <2> SUFFICES ASSUME IndInv, HandOver, s.phase = "rotate", \A o \in Orders : task.limits[o] > 0
               PROVE  \E o \in Orders : s.generated[o] < task.limits[o]
    BY DEF HandOverEnds
  <2>1. s.ordersLeft > 0 /\ s.ordersLeft <= Cardinality(Unspent) /\ Unspent = BelowLimit
    BY DEF HandOver, Unspent
  <2>2. s.ordersLeft \in Nat
    BY DEF IndInv, TypeOK
  <2>3. ASSUME Unspent = {} PROVE FALSE
    <3>1. Cardinality(Unspent) = 0
      BY <2>3, FS_EmptySet
    <3> QED BY <2>1, <2>2, <3>1
  <2> QED BY <2>1, <2>3 DEF BelowLimit
<1>2. IndInv' => TypeOK'
  BY DEF IndInv
<1> QED BY <1>1, <1>2, IndInvHolds, HandOverInit, HandOverStep, PTL DEF Spec

=============================================================================
