------------------------------- MODULE FdrPocl -------------------------------
(***************************************************************************)
(* Partial-order planning over finite-domain tasks (Planner in             *)
(* src/src/fdr_pocl.rs): the tables built before the search, the choice of *)
(* a flaw, the children of a plan that reach a queue, and the form they    *)
(* wait there in.  A behaviour is one branch of the refinement tree: each  *)
(* step takes a plan off a queue, expands it and follows one child.        *)
(*                                                                         *)
(* A configuration is a task, the -p rules, the flaw-selection order (a    *)
(* sequence of criteria [kinds, max, order, reuse], kinds the letters of   *)
(* the {..} group) and the heuristic term that ranks children.             *)
(***************************************************************************)
EXTENDS FdrPlan

CONSTANTS
  Configs,                \* a sequence of [task, prune, flaws, term]
  Planner(_, _),          \* the tables built for a task and rules
  ConditionValues(_, _, _),  \* cost and work of facts, for a plan, with reuse or not
  WorthQueueing(_, _, _)  \* the tests and the rank let a plan be queued

\* Tasks, and what the planner has to know of one.
IsTask(T) ==
  /\ IsFiniteSet(Facts(T)) /\ Facts(T) \subseteq Nat \X Nat
  /\ T.goals \in Seq(Facts(T))
  /\ \A o \in Operators(T) :
       /\ T.ops[o].pre \subseteq Facts(T)
       /\ DOMAIN T.ops[o].effs \subseteq 1 .. NoEffect - 1
       /\ \A e \in DOMAIN T.ops[o].effs : T.ops[o].effs[e].cond \subseteq Facts(T)

Effects(T) == UNION {{o} \X DOMAIN T.ops[o].effs : o \in Operators(T)}

IsPlanner(P, T, prune) ==
  /\ P.T = T /\ P.prune = prune
  /\ DOMAIN P.supports = {f \in Facts(T) : IsDerived(T, f[1])}
  /\ \A f \in DOMAIN P.supports : P.supports[f] \subseteq SUBSET Facts(T)
  /\ \A f \in Facts(T) \ DOMAIN P.supports :
       IsFiniteSet(P.achievers[f]) /\ P.achievers[f] \subseteq Effects(T)

ASSUME ConfigsAssumption ==
  \A c \in DOMAIN Configs :
    /\ IsTask(Configs[c].task)
    /\ Configs[c].flaws \in Seq(ToSet(Configs[c].flaws))
    /\ IsPlanner(Planner(Configs[c].task, Configs[c].prune), Configs[c].task, Configs[c].prune)

VARIABLES
  config,
  planner,    \* the tables built before the search
  plan,
  stored      \* the form the plan waited in

vars == <<config, planner, plan, stored>>

-----------------------------------------------------------------------------
(* Before the search.                                                       *)

\* The facts some effect assigns.
Made(T) == UNION {{Assignment(e) : e \in ToSet(T.ops[o].effs)} : o \in Operators(T)}

-----------------------------------------------------------------------------
(* How many refinements a flaw has.                                         *)

\* The supporters an existing step offers a condition.
Reusable(P, p, oc) ==
  {x \in UNION {{s} \X DOMAIN Op(P, p, s).effs : s \in PlanSteps(p)} :
     /\ PossiblyBefore(p.ord, x[1], oc.step)
     /\ <<p.ops[x[1]], x[2]>> \in P.achievers[oc.fact]
     /\ ~ EffectCannotFire(P, p, x[1], x[2])}

\* open_refinement_count, and up to a cap.
OpenCount(P, p, oc) ==
  IF oc.fact \in DOMAIN P.supports
  THEN Cardinality({c \in P.supports[oc.fact] : RequirementsPossible(P, p, oc.step, c)})
  ELSE (IF P.T.init[oc.fact[1]] = oc.fact[2] THEN 1 ELSE 0)
         + Cardinality(P.achievers[oc.fact])
         + Cardinality({x \in Reusable(P, p, oc) :
                          RequirementsPossible(P, p, x[1], Eff(P, p, x[1], x[2]).cond)})

HasReuse(P, p, oc) ==
  \/ P.T.init[oc.fact[1]] = oc.fact[2]
  \/ oc.fact \in DOMAIN P.achievers /\ Reusable(P, p, oc) # {}

ThreatRefinements(P, p, t) == ThreatOrderings(p, t) + Cardinality(Confrontations(P, p, t))

-----------------------------------------------------------------------------
(* Flaw selection.                                                          *)

HasEffect(T, v) == IsDerived(T, v) \/ \E o \in Operators(T) : \E e \in ToSet(T.ops[o].effs) : e.var = v

UnsafeOpen(P, p, oc) ==
  \E s \in PlanSteps(p) :
    /\ PossiblyBefore(p.ord, s, oc.step)
    /\ \E e \in DOMAIN Op(P, p, s).effs :
         Clobbers(Eff(P, p, s, e), oc.fact) /\ ~ EffectCannotFire(P, p, s, e)

\* "local" is the step of the newest open condition.
OpenMatches(P, p, c, oc) ==
  \/ "o" \in c.kinds
  \/ "l" \in c.kinds /\ oc.step = p.opens[Len(p.opens)].step
  \/ "t" \in c.kinds /\ ~ HasEffect(P.T, oc.fact[1])
  \/ "u" \in c.kinds /\ UnsafeOpen(P, p, oc)

ThreatMatches(P, p, c, t) ==
  /\ ~ ThreatCovered(p, t)
  /\ IF Confrontations(P, p, t) = {} THEN "n" \in c.kinds ELSE "s" \in c.kinds
  /\ ThreatRefinements(P, p, t) <= c.max

\* Threats in key order, then open conditions newest first.
Candidates(P, p, c) ==
  LET Threats == [k \in DOMAIN p.threats |->
        [flaw |-> p.threats[k], threat |-> TRUE, recency |-> k, count |-> ThreatRefinements(P, p, p.threats[k]),
         new |-> FALSE, reuse |-> FALSE, estimate |-> 0]]
      Opens(m) == [k \in DOMAIN p.opens |->
        [flaw |-> p.opens[k], threat |-> FALSE, recency |-> k, count |-> OpenCount(P, p, p.opens[k]),
         new |-> p.opens[k].fact \in DOMAIN P.supports \/ p.opens[k].fact \in Made(P.T),
         reuse |-> HasReuse(P, p, p.opens[k]), estimate |-> m[p.opens[k].fact]]]
      Matching(xs) == Among(xs, {x \in ToSet(xs) :
        IF x.threat THEN ThreatMatches(P, p, c, x.flaw)
        ELSE OpenMatches(P, p, c, x.flaw) /\ x.count <= c.max})
      Estimates(v) == IF c.order \in {"LW", "MW"} THEN v.work ELSE v.cost
  IN  Matching(Threats \o Reverse(Opens(Estimates(ConditionValues(P, p, c.reuse)))))

Later(x, y) == (x.threat /\ ~ y.threat) \/ (x.threat = y.threat /\ x.recency > y.recency)

\* prefer, in choose_candidate: x replaces y.
Preferred(order, x, y) ==
  CASE order = "LIFO" -> Later(x, y)
    [] order = "FIFO" -> IF x.threat # y.threat THEN ~ x.threat ELSE x.recency < y.recency
    [] order = "LR" -> x.count < y.count \/ (x.count = y.count /\ Later(x, y))
    [] order = "MR" -> x.count > y.count \/ (x.count = y.count /\ Later(x, y))
    [] order = "NEW" -> (x.new /\ ~ y.new) \/ (x.new = y.new /\ x.recency > y.recency)
    [] order = "REUSE" -> (x.reuse /\ ~ y.reuse) \/ (x.reuse = y.reuse /\ x.recency > y.recency)
    [] order \in {"LC", "LW"} -> x.estimate < y.estimate \/ (x.estimate = y.estimate /\ x.recency > y.recency)
    [] order \in {"MC", "MW"} -> x.estimate > y.estimate \/ (x.estimate = y.estimate /\ x.recency > y.recency)

\* choose_candidate: later ones replace the best so far.
Best(order, xs) ==
  LET best[k \in 1 .. Len(xs)] ==
        IF k = 1 THEN xs[1] ELSE IF Preferred(order, xs[k], best[k - 1]) THEN xs[k] ELSE best[k - 1]
  IN  best[Len(xs)]

\* select_flaw: of the first criterion with a candidate, if there is one.
Selected(P, p, flaws) ==
  LET From(c, xs) == IF xs = <<>> THEN {} ELSE {Best(flaws[c].order, xs)}
      found[c \in 0 .. Len(flaws)] ==
        IF c = 0 THEN {} ELSE IF found[c - 1] # {} THEN found[c - 1]
        ELSE From(c, Candidates(P, p, flaws[c]))
  IN  found[Len(flaws)]

\* Only covered threats are left when nothing is selected; the code panics
\* when there is no disjunction either.
Refinements(P, p, flaws) ==
  LET Kinds(best) ==
        IF best = {} THEN IF p.disjunctions = <<>> THEN {} ELSE SplitDisjunction(p)
        ELSE UNION {IF x.threat THEN ResolveThreat(P, p, x.flaw) ELSE OpenChildren(P, p, x.flaw) : x \in best}
  IN  UNION {Finished(P, c) : c \in Kinds(Selected(P, p, flaws))}

-----------------------------------------------------------------------------
(* Children.  Forced choices of support are made before a child is queued.  *)

MaxForced == 16

Forced(P, p) == Among(Reverse(p.opens), {oc \in ToSet(p.opens) : OpenCount(P, p, oc) <= 1})

\* One forced choice: no plan when a condition has no supporter left.
ForceFirst(P, p) ==
  LET Of(forced) == IF forced = <<>> THEN {p} ELSE ResolveOpen(P, p, forced[1]) IN Of(Forced(P, p))

\* propagate_supporters
Propagate(P, p) ==
  LET after[n \in 0 .. MaxForced] ==
        IF n = 0 THEN {p} ELSE UNION {ForceFirst(P, q) : q \in after[n - 1]}
  IN  after[MaxForced]

Propagated1(P, p) == IF "supporters" \in P.prune THEN Propagate(P, p) ELSE {p}

\* A child with the plan propagation made of it, when it is queued at all.
Children(P, p, flaws, term) ==
  {x \in UNION {{[raw |-> r, plan |-> q] : q \in Propagated1(P, r)} : r \in Refinements(P, p, flaws)} :
     WorthQueueing(P, x.plan, term)}

\* Mutant of Store: what propagation added is forgotten.
Store_Always(P, p, x) ==
  IF Len(x.plan.ops) = Len(p.ops) + 1
  THEN [deferred |-> TRUE, plan |-> p, link |-> x.plan.links[Len(x.plan.links)],
        op |-> x.plan.ops[Len(x.plan.ops)]]
  ELSE [deferred |-> FALSE, plan |-> x.plan]

\* store: a child that only added a step waits as a recipe on its parent.
Store(P, p, x) ==
  IF x.plan = x.raw /\ Len(x.plan.ops) = Len(p.ops) + 1
  THEN [deferred |-> TRUE, plan |-> p, link |-> x.plan.links[Len(x.plan.links)],
        op |-> x.plan.ops[Len(x.plan.ops)]]
  ELSE [deferred |-> FALSE, plan |-> x.plan]

\* materialize replays the step; the code asserts that it succeeds.
Materialized(P, s) ==
  IF s.deferred
  THEN UNION {Finished(P, c) :
                c \in AddStep(P, s.plan, [step |-> s.link.to, fact |-> s.link.fact], s.op, s.link.effect)}
  ELSE {s.plan}

-----------------------------------------------------------------------------
(* The branch.                                                              *)

C == Configs[config]

Ready(p) == [deferred |-> FALSE, plan |-> p]

Init ==
  /\ config \in DOMAIN Configs
  /\ planner = Planner(C.task, C.prune)
  /\ plan = InitialPlan(planner)
  /\ stored = Ready(plan)
  /\ C.prune \cap {"cutset", "h2"} # {} => ~ GoalsInconsistent(planner)

\* A plan leaves its queue, is expanded, and one of its children is followed.
\* A complete plan is replayed and answered: the branch ends.
Expand ==
  /\ ~ Complete(plan)
  /\ \E x \in Children(planner, plan, C.flaws, C.term) : stored' = Store(planner, plan, x)
  /\ plan' \in Materialized(planner, stored')
  /\ UNCHANGED <<config, planner>>

Next == Expand

Spec == Init /\ [][Next]_vars

-----------------------------------------------------------------------------
(* Properties.                                                              *)

\* A threat that no commitment of its step can disarm.
Unguarded(P, p, t) == t.effect = NoEffect \/ Eff(P, p, t.step, t.effect).cond = {}

(* The incremental cache of threats holds, in key order, exactly the threats *)
(* a search over all links and steps finds, whatever was refined since.  In  *)
(* a task with axioms and conditional effects only those no commitment can   *)
(* disarm: nothing settles the expansion of a derived condition, which takes *)
(* one commitment away and makes others.                                     *)
ThreatCacheExact ==
  LET Settling == planner.T.axioms = <<>> \/ ~ HasConditionalEffects(planner.T)
      Certain(ts) == {t \in ts : Settling \/ Unguarded(planner, plan, t)}
  IN  /\ plan.threats = ThreatSeq(ToSet(plan.threats))
      /\ Certain(ToSet(plan.threats)) = Certain(Rediscovered(planner, plan))

(* A child rebuilt from its recipe when it leaves the queue is the child     *)
(* that was checked and ranked, and a forced choice never had an             *)
(* alternative: the count of refinements covers all there are.               *)
QueuedChildrenAreKept ==
  /\ \A x \in IF Complete(plan) THEN {} ELSE Children(planner, plan, C.flaws, C.term) :
       Materialized(planner, Store(planner, plan, x)) = {x.plan}
  /\ \A oc \in ToSet(plan.opens) :
       Cardinality(ResolveOpen(planner, plan, oc)) <= OpenCount(planner, plan, oc)

=============================================================================
