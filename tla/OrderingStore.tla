---------------------------- MODULE OrderingStore ----------------------------
(***************************************************************************)
(* The life of one plan's ordering collection along a branch of the        *)
(* search: the refinements of src/src/plan.rs add steps, reuse steps, and  *)
(* promote or demote a threatening step.  `asserted` is a history variable *)
(* (not in the code): the constraints between real steps that were         *)
(* accepted, before any closure.                                           *)
(***************************************************************************)
EXTENDS Orderings

VARIABLES
  ord,        \* Plan.orderings
  asserted    \* accepted pairs <<before, after>> of real steps

vars == <<ord, asserted>>

Ids(o) == {InitId, GoalId} \cup RealSteps(o)

Init ==
  /\ ord = NewOrderings
  /\ asserted = {}

\* add_step + make_link: a fresh step supports a condition of step c.
AddStep(c) ==
  LET new == ord.high + 1 IN
  /\ new <= MaxSteps
  /\ c \in {GoalId} \cup RealSteps(ord)
  /\ ord' = RefineWithStep(ord, new, c, new)
  /\ asserted' = IF c = GoalId THEN asserted ELSE asserted \cup {<<new, c>>}

\* reuse_step + make_link: an old step s supports a condition of step c.
ReuseStep(s, c) ==
  /\ s \in Ids(ord) /\ c \in {GoalId} \cup RealSteps(ord)
  /\ PossiblyBefore(ord, s, c)
  /\ ord' = RefineWithStep(ord, s, c, s)
  /\ asserted' = IF s = InitId \/ c = GoalId THEN asserted ELSE asserted \cup {<<s, c>>}

\* promote / demote through new_ordering: no child when refine answers None.
NewOrdering(a, b) ==
  /\ a \in Ids(ord) /\ b \in Ids(ord)
  /\ Refinable(ord, a, b)
  /\ ord' = Refine(ord, a, b)
  /\ asserted' = IF a = InitId \/ b = GoalId THEN asserted ELSE asserted \cup {<<a, b>>}

Next ==
  \/ \E c \in 1 .. GoalId : AddStep(c)
  \/ \E s \in 0 .. GoalId, c \in 1 .. GoalId : ReuseStep(s, c)
  \/ \E a, b \in 0 .. GoalId : NewOrdering(a, b)

Spec == Init /\ [][Next]_vars

TypeOK ==
  /\ IsOrderings(ord)
  /\ ord.high <= MaxSteps
  /\ asserted \subseteq RealSteps(ord) \X RealSteps(ord)

-----------------------------------------------------------------------------
(* The rows form a strict partial order: no step ends up before itself,     *)
(* although refine_with_step closes the relation without looking for a      *)
(* cycle, and the rows stay transitively closed.                            *)
StrictPartialOrder == IsStrictOrder(ord)

RowPairs(o) == {e \in RealSteps(o) \X RealSteps(o) : e[2] \in o.succ[e[1]]}

IsTransitive(T) == \A e, f \in T : e[2] = f[1] => <<e[1], f[2]>> \in T

(* The rows are the transitive closure of the constraints the refinements   *)
(* asked for: they are transitive, they hold every one, and no transitive   *)
(* relation inside them that holds every one is smaller (fill_transitive    *)
(* misses nothing and invents nothing).                                     *)
ClosureExact ==
  /\ asserted \subseteq RowPairs(ord) /\ IsTransitive(RowPairs(ord))
  /\ \A T \in SUBSET RowPairs(ord) :
       asserted \subseteq T /\ IsTransitive(T) => T = RowPairs(ord)

(* The orders in which the real steps could be executed.                    *)
Linearizations ==
  {p \in SetToSeqs(RealSteps(ord)) :
     \A m, n \in 1 .. Len(p) : OrderedBefore(ord, p[m], p[n]) => m < n}

ComesBefore(p, a, b) ==
  \/ a = InitId /\ b # InitId
  \/ b = GoalId /\ a # GoalId
  \/ \E m, n \in 1 .. Len(p) : m < n /\ p[m] = a /\ p[n] = b

(* possibly_before and possibly_after answer exactly whether some execution *)
(* order of the plan puts the first step before (after) the second: the     *)
(* threat test neither misses an interleaving nor reports an impossible one.*)
PossiblyMeansSomeLinearization ==
  \A a, b \in Ids(ord) :
    /\ PossiblyBefore(ord, a, b) <=> \E p \in Linearizations : ComesBefore(p, a, b)
    /\ PossiblyAfter(ord, a, b)  <=> \E p \in Linearizations : ComesBefore(p, b, a)

(* schedule starts every step one after its latest predecessor (1 when it   *)
(* has none) and answers the latest start as makespan, although it visits   *)
(* each step once and in an order read off the row sizes.                   *)
ScheduleIsLongestChain ==
  LET s == Schedule(ord)
      latest(K) == IF K = {} THEN 0 ELSE CHOOSE x \in {s.start[k] : k \in K} :
                                           \A k \in K : s.start[k] <= x
  IN  /\ \A n \in RealSteps(ord) :
           s.start[n] = 1 + latest({k \in RealSteps(ord) : OrderedBefore(ord, k, n)})
      /\ s.makespan = latest(RealSteps(ord))

(* A refinement never takes back an ordering: whatever was impossible for   *)
(* the parent stays impossible for the child, so a resolved threat stays    *)
(* resolved.                                                                *)
NeverForgets ==
  [][\A a, b \in Ids(ord) :
       ~ PossiblyBefore(ord, a, b) => ~ PossiblyBefore(ord', a, b)]_vars

=============================================================================
