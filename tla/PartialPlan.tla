----------------------------- MODULE PartialPlan -----------------------------
(***************************************************************************)
(* Refinement of partial-order causal-link plans (src/src/plan.rs) over a  *)
(* ground task.  A behaviour is one branch of the search tree: at each     *)
(* step some flaw of the plan is selected, whichever the flaw order would  *)
(* choose, and one of the children the code generates for it is the next   *)
(* plan.                                                                   *)
(*                                                                         *)
(* A plan is [acts, ord, links, open, unsafes]:                            *)
(*   acts     the actions of the real steps 1, 2, ...   (Plan.steps)       *)
(*   ord      the ordering collection                   (Plan.orderings)   *)
(*   links    bag of [from, to, cond]                   (Plan.links)       *)
(*   open     bag of [step, goal], goal a disjunction   (Plan.open_conds)  *)
(*   unsafes  bag of [link, step, effect]               (Plan.unsafes)     *)
(* The three collections are chains in the code; they are bags here since  *)
(* a chain may hold an element twice and `remove` takes out one            *)
(* occurrence.  A literal is the disjunction of one cube of one literal.   *)
(***************************************************************************)
EXTENDS Orderings, PlanningTask, Bags

\* `cons` and `remove` of src/src/chain.rs.
Chain == INSTANCE BagsExt

VARIABLES
  plan,
  solutions   \* the solutions of at most MaxSteps actions, to follow

vars == <<problem, plan, solutions>>

ActionPre(p, s) ==
  IF s = GoalId THEN Goal ELSE IF s = InitId THEN {} ELSE Pre[p.acts[s]]

ActionEffects(p, s) ==
  IF s = GoalId THEN {}
  ELSE IF s = InitId THEN {[cond |-> {}, lit |-> Lit(a)] : a \in InitAtoms}
  ELSE Effects[p.acts[s]]

StepIds(p) == {InitId, GoalId} \cup (1 .. Len(p.acts))

StepGuard(p, s, e) == Guard(ActionPre(p, s), ActionEffects(p, s), e)

LiteralGoal(l) == {{l}}
IsLiteral(d) == \E l \in Literals : d = LiteralGoal(l)
TheLiteral(d) == CHOOSE l \in Literals : d = LiteralGoal(l)

\* add_goal: the open conditions a conjunction of disjunctions adds at a
\* step.  A disjunction of one cube is a conjunction, opened literal by literal.
Opened(d, s) ==
  IF Cardinality(d) = 1
  THEN SetToBag({[step |-> s, goal |-> LiteralGoal(l)] : l \in UNION d})
  ELSE SetToBag({[step |-> s, goal |-> d]})

Contradiction(conj) == {} \in conj

AddGoal(open, conj, s) == open (+) BagUnion({Opened(d, s) : d \in conj})

-----------------------------------------------------------------------------
(* Threats.                                                                 *)

PlacementAdmits(o, l, s) ==
  /\ s # l.to
  /\ PossiblyNotAfter(o, l.from, s)
  /\ PossiblyNotBefore(o, l.to, s)
  /\ ~ l.cond.pos \/ l.from # s

\* Effects of step s that may clobber link l: opposite literal, guard not false.
Clobbering(p, s, l) ==
  {e \in ActionEffects(p, s) : e.lit = Neg(l.cond) /\ {} \notin StepGuard(p, s, e)}

LinkThreats(p, l) ==
  SetToBag(UNION {{[link |-> l, step |-> s, effect |-> e] : e \in Clobbering(p, s, l)} :
                   s \in {t \in StepIds(p) : PlacementAdmits(p.ord, l, t)}})

\* Mutant of StepThreats: the old links are not looked at.
StepThreats_None(p, s, links) == EmptyBag

\* The threats of new step s to the links that were there before it.
StepThreats(p, s, links) ==
  LET threatened == {l \in BagToSet(links) : PlacementAdmits(p.ord, l, s)}
      threats == UNION {{[link |-> l, step |-> s, effect |-> e] : e \in Clobbering(p, s, l)} :
                         l \in threatened}
  IN  [u \in threats |-> links[u.link]]

-----------------------------------------------------------------------------
(* Children of an open condition.  Each operator answers a set of plans.    *)

\* make_link with a step already in the plan.
LinkOld(p, s, e, oc) ==
  LET guard == {AsDisjunction(c) : c \in StepGuard(p, s, e)}
      link == [from |-> s, to |-> oc.step, cond |-> e.lit]
      q == [p EXCEPT
              !.ord   = RefineWithStep(p.ord, s, oc.step, s),
              !.links = Chain!BagAdd(p.links, link),
              !.open  = AddGoal(Chain!BagRemove(p.open, oc), guard, s)]
  IN  IF Contradiction(guard) THEN {}
      ELSE {[q EXCEPT !.unsafes = p.unsafes (+) LinkThreats(q, link)]}

\* make_link with a new step: its precondition is opened too, and the links
\* the plan already had are looked at for threats from it.
LinkNew(p, a, e, oc) ==
  LET s == Len(p.acts) + 1
      grown == [p EXCEPT !.acts = Append(p.acts, a)]
      guard == {AsDisjunction(c) : c \in StepGuard(grown, s, e)}
      link == [from |-> s, to |-> oc.step, cond |-> e.lit]
      q == [grown EXCEPT
              !.ord   = RefineWithStep(p.ord, s, oc.step, s),
              !.links = Chain!BagAdd(p.links, link),
              !.open  = AddGoal(AddGoal(Chain!BagRemove(p.open, oc), guard, s), Pre[a], s)]
  IN  IF Contradiction(guard) \/ Contradiction(Pre[a]) THEN {}
      ELSE {[q EXCEPT !.unsafes =
               p.unsafes (+) LinkThreats(q, link) (+) StepThreats(q, s, p.links)]}

AddStep(p, oc) ==
  IF Len(p.acts) = MaxSteps THEN {}
  ELSE UNION {UNION {LinkNew(p, a, e, oc) :
                       e \in {f \in Effects[a] : f.lit = TheLiteral(oc.goal)}} : a \in Actions}

ReuseStep(p, oc) ==
  UNION {UNION {LinkOld(p, s, e, oc) :
                  e \in {f \in ActionEffects(p, s) : f.lit = TheLiteral(oc.goal)}} :
          s \in {t \in StepIds(p) : PossiblyBefore(p.ord, t, oc.step)}}

\* A negative literal may hold because no initial atom says otherwise.
ClosedWorld(l) == ~ l.pos /\ l.atom \notin InitAtoms

NewCwLink(p, oc) ==
  LET l == TheLiteral(oc.goal)
      link == [from |-> InitId, to |-> oc.step, cond |-> l]
      q == [p EXCEPT !.links = Chain!BagAdd(p.links, link),
                     !.open = Chain!BagRemove(p.open, oc)]
  IN  IF ClosedWorld(l)
      THEN {[q EXCEPT !.unsafes = p.unsafes (+) LinkThreats(q, link)]}
      ELSE {}

HandleDisjunction(p, oc) ==
  {[p EXCEPT !.open = AddGoal(Chain!BagRemove(p.open, oc), {{c}}, oc.step)] : c \in oc.goal}

HandleOpenCondition(p, oc) ==
  IF IsLiteral(oc.goal)
  THEN AddStep(p, oc) \cup ReuseStep(p, oc) \cup NewCwLink(p, oc)
  ELSE HandleDisjunction(p, oc)

-----------------------------------------------------------------------------
(* Children of a threatened link.                                           *)

Resolved(p, u) == [p EXCEPT !.unsafes = Chain!BagRemove(p.unsafes, u)]

\* Nothing can be separated between ground atoms, so what is left of
\* separation is confrontation: the negated guard becomes a goal of the step.
Separate(p, u) ==
  LET guard == StepGuard(p, u.step, u.effect)
      goal == Confrontation(guard)
  IN  IF guard = {} THEN {}
      ELSE {[Resolved(p, u) EXCEPT !.open = AddGoal(p.open, {goal}, u.step)]}

NewOrdering(p, a, b, u) ==
  IF Refinable(p.ord, a, b)
  THEN {[Resolved(p, u) EXCEPT !.ord = Refine(p.ord, a, b)]}
  ELSE {}

Promote(p, u) ==
  IF PossiblyBefore(p.ord, u.link.to, u.step) THEN NewOrdering(p, u.link.to, u.step, u) ELSE {}

\* Mutant of Demote: only promotion is tried.
Demote_Never(p, u) == {}

Demote(p, u) ==
  IF PossiblyBefore(p.ord, u.step, u.link.from) THEN NewOrdering(p, u.step, u.link.from, u) ELSE {}

\* The orderings may have moved the step away since the threat was recorded.
StillThreatens(p, u) ==
  /\ {} \notin StepGuard(p, u.step, u.effect)
  /\ PossiblyNotAfter(p.ord, u.link.from, u.step)
  /\ PossiblyNotBefore(p.ord, u.link.to, u.step)

HandleUnsafe(p, u) ==
  IF StillThreatens(p, u)
  THEN Separate(p, u) \cup Promote(p, u) \cup Demote(p, u)
  ELSE {Resolved(p, u)}

-----------------------------------------------------------------------------
InitialPlan ==
  [acts |-> <<>>, ord |-> NewOrderings, links |-> EmptyBag, unsafes |-> EmptyBag,
   open |-> AddGoal(EmptyBag, Goal, GoalId)]

Init ==
  /\ problem \in Problems
  /\ plan = InitialPlan
  /\ solutions = SolutionsUpTo(MaxSteps)

\* handle_unsafe and handle_open_condition push their children one by one;
\* each disjunct is one way to be such a child.
ThreatDropped(u)  == ~ StillThreatens(plan, u) /\ plan' = Resolved(plan, u)
ThreatSeparated(u) == StillThreatens(plan, u) /\ plan' \in Separate(plan, u)
ThreatPromoted(u) == StillThreatens(plan, u) /\ plan' \in Promote(plan, u)
ThreatDemoted(u)  == StillThreatens(plan, u) /\ plan' \in Demote(plan, u)

StepAdded(oc)  == IsLiteral(oc.goal) /\ plan' \in AddStep(plan, oc)
StepReused(oc) == IsLiteral(oc.goal) /\ plan' \in ReuseStep(plan, oc)
ClosedWorldLinked(oc) == IsLiteral(oc.goal) /\ plan' \in NewCwLink(plan, oc)
DisjunctChosen(oc) == ~ IsLiteral(oc.goal) /\ plan' \in HandleDisjunction(plan, oc)

Unsafes == BagToSet(plan.unsafes)
OpenConditions == BagToSet(plan.open)

Refined ==
  \/ \E u \in Unsafes : ThreatDropped(u)
  \/ \E u \in Unsafes : ThreatSeparated(u)
  \/ \E u \in Unsafes : ThreatPromoted(u)
  \/ \E u \in Unsafes : ThreatDemoted(u)
  \/ \E oc \in OpenConditions : StepAdded(oc)
  \/ \E oc \in OpenConditions : StepReused(oc)
  \/ \E oc \in OpenConditions : ClosedWorldLinked(oc)
  \/ \E oc \in OpenConditions : DisjunctChosen(oc)

Next == Refined /\ UNCHANGED <<problem, solutions>>

Spec == Init /\ [][Next]_vars

Complete(p) == p.open = EmptyBag /\ p.unsafes = EmptyBag

-----------------------------------------------------------------------------
(* Every causal link runs forward: some execution order of the plan puts    *)
(* its producer before its consumer and none the other way round, although  *)
(* a link to a reused step is added with no search for a cycle.             *)
LinksRunForward(p) ==
  \A l \in BagToSet(p.links) :
    PossiblyBefore(p.ord, l.from, l.to) /\ ~ PossiblyBefore(p.ord, l.to, l.from)

\* Disjunction d is taken care of at step s: still open, or one of its cubes
\* is, literal by literal, open or linked.
Covered(p, d, s) ==
  \/ [step |-> s, goal |-> d] \in BagToSet(p.open)
  \/ \E c \in d : \A l \in c :
       \/ [step |-> s, goal |-> LiteralGoal(l)] \in BagToSet(p.open)
       \/ \E k \in BagToSet(p.links) : k.to = s /\ k.cond = l

\* A link has the effect behind it, whose guard is covered in turn.  A link
\* from the initial step may also rest on the closed world.
Supported(p, l) ==
  \/ l.from = InitId /\ ClosedWorld(l.cond)
  \/ \E e \in ActionEffects(p, l.from) :
       /\ e.lit = l.cond
       /\ \A c \in StepGuard(p, l.from, e) : Covered(p, AsDisjunction(c), l.from)

(* Nothing a step needs is forgotten: each disjunction of each precondition *)
(* and of the goal, and the guard of some effect behind each causal link,   *)
(* is open or supported, through every removal and re-opening of flaws.     *)
ConditionsCovered(p) ==
  /\ \A s \in StepIds(p) : \A d \in ActionPre(p, s) : Covered(p, d, s)
  /\ \A l \in BagToSet(p.links) : Supported(p, l)

(* No threat is overlooked: an effect that could still come between a       *)
(* link's producer and consumer and undo its condition is on the list of    *)
(* unsafe links, or the negation of its guard has become a goal of its step.*)
\* Threats are only looked for when the link or the step is new, against
\* the orderings of that moment.
ThreatsAccounted(p) ==
  \A l \in BagToSet(p.links), s \in StepIds(p) :
    PlacementAdmits(p.ord, l, s) =>
      \A e \in Clobbering(p, s, l) :
        \/ [link |-> l, step |-> s, effect |-> e] \in BagToSet(p.unsafes)
        \/ Covered(p, Confrontation(StepGuard(p, s, e)), s)

(* Every flaw a plan still has is one of its open conditions or unsafe      *)
(* links: what the flaw orders select from is complete.  And every link runs *)
(* forward, since otherwise no threat to it could be recognised.            *)
FlawsAreComplete ==
  LinksRunForward(plan) /\ ConditionsCovered(plan) /\ ThreatsAccounted(plan)

Linearizations(p) ==
  {w \in SetToSeqs(1 .. Len(p.acts)) :
     \A m, n \in 1 .. Len(w) : OrderedBefore(p.ord, w[m], w[n]) => m < n}

(* A plan without flaws is a solution: its actions can be executed from the *)
(* initial state in every order the plan allows and always reach the goal,  *)
(* conditional effects, simultaneous adds and deletes, and closed-world     *)
(* negation included (what validate.rs replays for one of the orders).      *)
CompletePlanExecutes ==
  Complete(plan) =>
    \A w \in Linearizations(plan) : IsSolution([k \in 1 .. Len(w) |-> plan.acts[w[k]]])

-----------------------------------------------------------------------------
(* Completeness.  Plan p still stands for the solution `acts` when its steps *)
(* can be found in it, in order, so that every link's condition holds from   *)
(* the producer to the consumer and every open condition holds at its step.  *)
StandsFor(p, acts) ==
  LET n  == Len(p.acts)
      st == States(acts)
      fits(at) ==
        LET pos(s) == IF s = InitId THEN 0 ELSE IF s = GoalId THEN Len(acts) + 1 ELSE at[s] IN
        /\ \A s \in 1 .. n : acts[at[s]] = p.acts[s]
        /\ \A s, t \in 1 .. n : OrderedBefore(p.ord, s, t) => at[s] < at[t]
        /\ \A l \in BagToSet(p.links) :
             \A k \in pos(l.from) + 1 .. pos(l.to) : Holds(l.cond, st[k])
        /\ \A oc \in BagToSet(p.open) : HoldsDisjunction(oc.goal, st[pos(oc.step)])
  IN  \E at \in Injection(1 .. n, 1 .. Len(acts)) : fits(at)

(* Refinement loses no solution: while a plan stands for a solution,        *)
(* whichever flaw is selected, one of the children generated for that flaw  *)
(* still stands for it.  An exhausted search space therefore proves that    *)
(* there is no plan, and the choice of flaw order is free.                  *)
NoSolutionLost ==
  \A acts \in solutions :
    StandsFor(plan, acts) =>
      /\ \A u \in BagToSet(plan.unsafes) :
           \E child \in HandleUnsafe(plan, u) : StandsFor(child, acts)
      /\ \A oc \in BagToSet(plan.open) :
           \E child \in HandleOpenCondition(plan, oc) : StandsFor(child, acts)

=============================================================================
