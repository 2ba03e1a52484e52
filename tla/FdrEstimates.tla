---------------------------- MODULE FdrEstimates ----------------------------
(***************************************************************************)
(* What a finite-domain partial plan is estimated to cost still: additive  *)
(* values, one relaxed plan and the ranks (src/src/fdr_pocl.rs), LM-cut    *)
(* (src/src/lmcut.rs), the compiled relaxation and the landmarks           *)
(* (src/src/cl_relax.rs).                                                  *)
(*                                                                         *)
(* A cost is a number up to Inf, which stands for every infinite or        *)
(* unreached value (f32::INFINITY, u32::MAX, None) and absorbs sums.       *)
(***************************************************************************)
EXTENDS FdrPlan

Inf == 1000
Plus(a, b) == IF a + b < Inf THEN a + b ELSE Inf
PlusAll(fs, cost) == FoldSet(LAMBDA f, c : Plus(cost[f], c), 0, fs)

InitialFacts(T) == BaseFacts(T, {<<v, T.init[v]>> : v \in Variables(T)})

\* effect_requirements
Requirements(T, o, e) == T.ops[o].pre \cup T.ops[o].effs[e].cond

\* Assignments of the steps of p that may still happen.
Produced(P, p) ==
  {Assignment(Eff(P, p, x[1], x[2])) :
     x \in {<<s, e>> \in UNION {{s} \X DOMAIN Op(P, p, s).effs : s \in PlanSteps(p)} :
              ~ EffectCannotFire(P, p, s, e)}}

-----------------------------------------------------------------------------
(* Additive values.  A source of a fact is an operator's effect or, for a   *)
(* derived fact, one of its supports, which has no operator (op = 0).       *)

Listed(S) == FoldSet(LAMBDA x, s : Append(s, x), <<>>, S)

Sources(T, supports) ==
  FlattenSeq([o \in Operators(T) |->
    [e \in DOMAIN T.ops[o].effs |->
       [op |-> o, effect |-> e, pre |-> Requirements(T, o, e),
        fact |-> Assignment(T.ops[o].effs[e]), cost |-> T.ops[o].cost, work |-> 1]]])
  \o Listed(UNION {{[op |-> 0, effect |-> 0, pre |-> c, fact |-> f, cost |-> 0, work |-> 0] :
                        c \in supports[f]} : f \in DOMAIN supports})

Improve(v, src) ==
  LET With(cost, work) ==
        LET cheaper == cost < v.cost[src.fact] IN
        [cost |-> IF cheaper THEN [v.cost EXCEPT ![src.fact] = cost] ELSE v.cost,
         work |-> IF work < v.work[src.fact] THEN [v.work EXCEPT ![src.fact] = work] ELSE v.work,
         achiever |-> IF cheaper /\ src.op # 0
                      THEN [v.achiever EXCEPT ![src.fact] = {<<src.op, src.effect>>}]
                      ELSE v.achiever]
  IN  With(Plus(src.cost, PlusAll(src.pre, v.cost)), Plus(src.work, PlusAll(src.pre, v.work)))

RECURSIVE Saturated(_, _)
Saturated(v, sources) ==
  LET Then(w) == IF w = v THEN v ELSE Saturated(w, sources) IN Then(FoldLeft(Improve, v, sources))

FreeFacts(T, free) == [f \in Facts(T) |-> IF f \in free THEN 0 ELSE Inf]

\* build_base_relaxed_values
BaseValues(T, supports) ==
  Saturated([cost |-> FreeFacts(T, InitialFacts(T)), work |-> FreeFacts(T, InitialFacts(T)),
             achiever |-> [f \in Facts(T) |-> {}]], Sources(T, supports))

RelaxedValues(P, p, reuse) ==
  LET Zeroed(m, free) == [f \in DOMAIN m |-> IF f \in free THEN 0 ELSE m[f]]
      From(free, sources) ==
        Saturated([P.base EXCEPT !.cost = Zeroed(@, free), !.work = Zeroed(@, free)], sources)
  IN  IF reuse THEN From(Produced(P, p), Sources(P.T, P.supports)) ELSE P.base

OpenEstimate(p, m) == FoldLeft(LAMBDA c, oc : Plus(m[oc.fact], c), 0, p.opens)

-----------------------------------------------------------------------------
(* relaxed_plan_size: operators of one relaxed plan, each counted once.     *)

CheapestSupport(P, f) ==
  CHOOSE c \in P.supports[f] : \A d \in P.supports[f] : PlusAll(c, P.base.cost) <= PlusAll(d, P.base.cost)

RECURSIVE Extracted(_, _, _, _)
Extracted(P, free, work, done) ==
  LET f == CHOOSE g \in work : TRUE
      rest == work \ {f}
      later(pre) == (rest \cup pre) \ (done.facts \cup {f})
      now == [done EXCEPT !.facts = @ \cup {f}]
  IN  IF work = {} THEN {done.ops}
      ELSE IF f \in InitialFacts(P.T) \cup free THEN Extracted(P, free, rest, now)
      ELSE IF f \in DOMAIN P.supports
      THEN IF P.supports[f] = {} THEN {} ELSE Extracted(P, free, later(CheapestSupport(P, f)), now)
      ELSE UNION {Extracted(P, free, later(Requirements(P.T, a[1], a[2])),
                            [now EXCEPT !.ops = @ \cup {a[1]}]) : a \in P.base.achiever[f]}

RelaxedPlanSize(P, p, reuse) ==
  LET Size(found) ==
        IF found = {} THEN Inf
        ELSE PlusAll(CHOOSE ops \in found : TRUE, [o \in Operators(P.T) |-> P.T.ops[o].cost])
  IN  Size(Extracted(P, IF reuse THEN Produced(P, p) ELSE {}, {oc.fact : oc \in ToSet(p.opens)},
                     [facts |-> {}, ops |-> {}]))

-----------------------------------------------------------------------------
(* LM-cut.  A relaxed action is [pre, effects, cost].                       *)

SupportsApart(T, supports) ==
  Listed(UNION {{[pre |-> c, effects |-> {f}, cost |-> 0] : c \in supports[f]} : f \in DOMAIN supports})

\* FdrLmCut::new; conditional effects are an error of the whole heuristic.
LmCutActions(T, supports) ==
  [o \in Operators(T) |-> [pre |-> T.ops[o].pre, cost |-> T.ops[o].cost,
                           effects |-> {Assignment(e) : e \in ToSet(T.ops[o].effs)}]]
  \o SupportsApart(T, supports)

Cheaper(m, fs, c) == [f \in DOMAIN m |-> IF f \in fs /\ c < m[f] THEN c ELSE m[f]]

\* hmax: facts leave the queue by cost, then index; an action is reached with
\* the last of its preconditions, its supporter.
RECURSIVE HMaxFrom(_, _, _, _)
HMaxFrom(actions, residual, cost, popped) ==
  LET waiting == {f \in DOMAIN cost : cost[f] < Inf} \ ToSet(popped)
      f == CHOOSE g \in waiting : \A h \in waiting \ {g} :
             cost[g] < cost[h] \/ (cost[g] = cost[h] /\ FactBefore(g, h))
      fired == {a \in DOMAIN actions : f \in actions[a].pre /\ actions[a].pre \subseteq ToSet(popped) \cup {f}}
  IN  IF waiting = {} THEN [cost |-> cost, popped |-> popped]
      ELSE HMaxFrom(actions, residual,
                    FoldSet(LAMBDA a, m : Cheaper(m, actions[a].effects, Plus(cost[f], residual[a])), cost, fired),
                    Append(popped, f))

HMax(T, actions, init, residual) ==
  LET free == {a \in DOMAIN actions : actions[a].pre = {}} IN
  HMaxFrom(actions, residual,
           FoldSet(LAMBDA a, m : Cheaper(m, actions[a].effects, residual[a]), FreeFacts(T, init), free), <<>>)

SupporterOf(h, a) ==
  IF a.pre = {} \/ ~ a.pre \subseteq ToSet(h.popped) THEN {}
  ELSE LET order == SelectSeq(h.popped, LAMBDA f : f \in a.pre) IN {order[Len(order)]}

ActionReached(h, a) == a.pre \subseteq ToSet(h.popped)

\* The facts a zero-cost path leads from to the goal's supporter.
RECURSIVE GoalZone(_, _, _, _)
GoalZone(actions, residual, h, zone) ==
  LET next == zone \cup UNION {SupporterOf(h, actions[a]) :
                a \in {b \in DOMAIN actions : residual[b] = 0 /\ actions[b].effects \cap zone # {}}}
  IN  IF next = zone THEN zone ELSE GoalZone(actions, residual, h, next)

\* The actions whose justification starts before the zone.
Justified(actions, h, before) ==
  {a \in DOMAIN actions : /\ ActionReached(h, actions[a])
                          /\ SupporterOf(h, actions[a]) \subseteq before}

RECURSIVE BeforeZone(_, _, _, _)
BeforeZone(actions, h, zone, before) ==
  LET next == before \cup UNION {actions[a].effects :
                a \in {b \in Justified(actions, h, before) : actions[b].effects \cap zone = {}}}
  IN  IF next = before THEN before ELSE BeforeZone(actions, h, zone, next)

\* The first of the dearest goals.
Dearest(h, goals) ==
  goals[CHOOSE k \in DOMAIN goals :
          /\ \A j \in DOMAIN goals : h.cost[goals[j]] <= h.cost[goals[k]]
          /\ \A j \in 1 .. k - 1 : h.cost[goals[j]] < h.cost[goals[k]]]

\* The actions with a cost that cross into the zone.
Cut(actions, residual, h, init, zone) ==
  {a \in Justified(actions, h, BeforeZone(actions, h, zone, init \ zone)) :
     residual[a] > 0 /\ actions[a].effects \cap zone # {}}

RECURSIVE LmCutFrom(_, _, _, _, _, _)
LmCutFrom(T, actions, init, goals, residual, total) ==
  LET Lowered(cut, least) ==
        LmCutFrom(T, actions, init, goals,
                  [a \in DOMAIN actions |-> IF a \in cut THEN residual[a] - least ELSE residual[a]],
                  Plus(total, least))
      Round(cut) == IF cut = {} THEN Inf ELSE Lowered(cut, Min({residual[a] : a \in cut}))
      From(h, goal) ==
        IF h.cost[goal] >= Inf THEN Inf
        ELSE IF h.cost[goal] = 0 THEN total
        ELSE Round(Cut(actions, residual, h, init, GoalZone(actions, residual, h, {goal})))
      At(h) == From(h, Dearest(h, goals))
  IN  At(HMax(T, actions, init, residual))

\* lmcut_estimate; goals in the order of the chain, newest first.
LmCutEstimate(P, p, reuse) ==
  IF p.opens = <<>> THEN 0
  ELSE LmCutFrom(P.T, P.lmcut, InitialFacts(P.T) \cup IF reuse THEN Produced(P, p) ELSE {},
                 [k \in DOMAIN p.opens |-> Reverse(p.opens)[k].fact],
                 [a \in DOMAIN P.lmcut |-> P.lmcut[a].cost], 0)

-----------------------------------------------------------------------------
(* Landmarks: an exploration without the fact finds who could achieve it    *)
(* first; what all of those require is a landmark too.                      *)

RECURSIVE ReachedWithout(_, _, _)
ReachedWithout(sources, f, reached) ==
  LET next == reached \cup ({s.fact : s \in {x \in sources : x.pre \subseteq reached}} \ {f})
  IN  IF next = reached THEN reached ELSE ReachedWithout(sources, f, next)

FirstAchievers(T, sources, f) ==
  LET reached == ReachedWithout(sources, f, InitialFacts(T) \ {f})
  IN  {s \in sources : s.fact = f /\ s.pre \subseteq reached}

RequiredFirst(T, sources, f) ==
  LET all == FirstAchievers(T, sources, f) IN
  {g \in Facts(T) : all # {} /\ \A s \in all : g \in s.pre}

RECURSIVE LandmarksFrom(_, _, _)
LandmarksFrom(T, sources, found) ==
  LET next == found \cup UNION {RequiredFirst(T, sources, f) : f \in found \ InitialFacts(T)}
  IN  IF next = found THEN found ELSE LandmarksFrom(T, sources, next)

FactLandmarks(T, sources) == LandmarksFrom(T, sources, ToSet(T.goals))

LandmarkCount(P, p) ==
  Cardinality({f \in P.landmarks : P.T.init[f[1]] # f[2]} \ Produced(P, p))

-----------------------------------------------------------------------------
(* The compiled relaxation: the steps of the plan are free actions that     *)
(* need their link producers, and all of them have to run.                  *)

Done(s) == <<0, s>>

StepActions(P, p) ==
  LET before(s) == {Done(l.from) : l \in {k \in ToSet(p.links) : k.to = s /\ k.from # InitId}}
      live(s) == {e \in DOMAIN Op(P, p, s).effs : ~ EffectCannotFire(P, p, s, e)}
      always(s) == {Assignment(Eff(P, p, s, e)) : e \in {d \in live(s) : Eff(P, p, s, d).cond = {}}}
  IN  UNION {{[op |-> 0, pre |-> Op(P, p, s).pre \cup before(s), cost |-> 0,
               effects |-> always(s) \cup {Done(s)}]} \cup
             {[op |-> 0, pre |-> Eff(P, p, s, e).cond \cup {Done(s)}, cost |-> 0,
               effects |-> {Assignment(Eff(P, p, s, e))}] :
                e \in {d \in live(s) : Eff(P, p, s, d).cond # {}}} : s \in PlanSteps(p)}

StaticActions(P) ==
  {[op |-> s.op, pre |-> s.pre, cost |-> s.cost, effects |-> {s.fact}] : s \in P.sources}

Settle(v, a) ==
  LET c == Plus(a.cost, PlusAll(a.pre, v.cost))
      better == {f \in a.effects : c < v.cost[f]}
  IN  [cost |-> [f \in DOMAIN v.cost |-> IF f \in better THEN c ELSE v.cost[f]],
       achiever |-> [f \in DOMAIN v.cost |-> IF f \in better THEN {a} ELSE v.achiever[f]]]

RECURSIVE AddCosts(_, _)
AddCosts(actions, v) ==
  LET w == FoldSet(LAMBDA a, m : Settle(m, a), v, actions) IN IF w = v THEN v ELSE AddCosts(actions, w)

\* The actions that achieve the facts of `work`, and all they need.
RECURSIVE Chosen(_, _, _)
Chosen(v, work, found) ==
  LET next == UNION {v.achiever[f] : f \in work} \ found IN
  IF next = {} THEN found ELSE Chosen(v, UNION {a.pre : a \in next}, found \cup next)

CompiledEstimate(P, p, count) ==
  LET done == {Done(s) : s \in PlanSteps(p)}
      Values0(facts) == [cost |-> [f \in facts |-> IF f \in InitialFacts(P.T) THEN 0 ELSE Inf],
                         achiever |-> [f \in facts |-> {}]]
      Ops(v, goals) == {a.op : a \in Chosen(v, goals, {})} \ {0}
      Estimate(v, goals, add) ==
        IF ~ count \/ add = Inf THEN add
        ELSE PlusAll(Ops(v, goals), [o \in Operators(P.T) |-> P.T.ops[o].cost])
      From(v, goals) == Estimate(v, goals, PlusAll(goals, v.cost))
  IN  From(AddCosts(StaticActions(P) \cup StepActions(P, p), Values0(Facts(P.T) \cup done)),
           done \cup ToSet(P.T.goals))

-----------------------------------------------------------------------------
(* compute_rank_both, one term at weight 1: what is left, and with the cost *)
(* so far added unless nothing can be left to do.                           *)

Remaining(P, p, term) ==
  CASE term \in {"OC", "S+OC"} -> Len(p.opens)
    [] term = "UC" -> Len(p.threats)
    [] term = "BUC" -> IF p.threats = <<>> THEN 0 ELSE 1
    [] term = "UCPOP" -> Len(p.opens) + Len(p.threats)
    [] term \in {"ADD", "ADDR", "ADDR_WORK"} ->
         LET Of(v) == OpenEstimate(p, IF term = "ADDR_WORK" THEN v.work ELSE v.cost)
         IN  Of(RelaxedValues(P, p, term # "ADD"))
    [] term \in {"RELAX", "RELAXR"} -> RelaxedPlanSize(P, p, term = "RELAXR")
    [] term \in {"LMCUT", "LMCUTR"} -> LmCutEstimate(P, p, term = "LMCUTR")
    [] term \in {"CLADD", "CLFF"} -> CompiledEstimate(P, p, term = "CLFF")
    [] term = "LM" -> LandmarkCount(P, p)

Rank(P, p, term) ==
  Plus(IF term \in {"OC", "UC", "BUC"} THEN 0 ELSE p.cost, Remaining(P, p, term))

=============================================================================
