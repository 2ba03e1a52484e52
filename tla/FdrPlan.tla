------------------------------ MODULE FdrPlan ------------------------------
(***************************************************************************)
(* Partial plans over a finite-domain task and their refinements           *)
(* (PartialPlan and the refinement half of Planner, src/src/fdr_pocl.rs).  *)
(*                                                                         *)
(* A plan p is a record                                                    *)
(*   ops      operator of each real step 1, 2, ...                         *)
(*   links    [from, to, fact, effect], oldest first; effect 0 is the      *)
(*            initial state's (None)                                       *)
(*   opens    [step, fact], oldest first, no duplicates                    *)
(*   ord      the ordering collection                                      *)
(*   threats  [link, step, effect], the cache, in key order                *)
(*   suppressed  effects <<step, effect>> committed never to fire          *)
(*   disjunctions  [threat, promote, demote], posted and not yet settled   *)
(*   cost                                                                  *)
(* The chains of the code are sequences.  P is the planner: the task with  *)
(* the tables built from it before the search (module FdrPocl).            *)
(***************************************************************************)
EXTENDS Orderings, FdrTask

NoEffect == 99      \* the effect of a threat made by a precondition

FactBefore(f, g) == f[1] < g[1] \/ (f[1] = g[1] /\ f[2] < g[2])
FactSeq(fs) == SortedBy(fs, FactBefore)

PushOpen(opens, oc) == IF oc \in ToSet(opens) THEN opens ELSE Append(opens, oc)

AddOpens(opens, s, facts) ==
  LET after[k \in 0 .. Len(facts)] ==
        IF k = 0 THEN opens ELSE PushOpen(after[k - 1], [step |-> s, fact |-> facts[k]])
  IN  after[Len(facts)]

WithoutOpen(opens, oc) == Among(opens, ToSet(opens) \ {oc})

InitialPlan(P) ==
  [ops |-> <<>>, links |-> <<>>, ord |-> NewOrderings, threats |-> <<>>, cost |-> 0,
   suppressed |-> {}, disjunctions |-> <<>>, opens |-> AddOpens(<<>>, GoalId, P.T.goals)]

PlanSteps(p) == DOMAIN p.ops
Op(P, p, s) == P.T.ops[p.ops[s]]
Eff(P, p, s, e) == Op(P, p, s).effs[e]

Complete(p) == p.opens = <<>> /\ p.threats = <<>>

-----------------------------------------------------------------------------
(* What a step is committed to.                                             *)

Commitments(p, s) ==
  {oc.fact : oc \in {x \in ToSet(p.opens) : x.step = s}}
    \cup {l.fact : l \in {x \in ToSet(p.links) : x.to = s}}

StepExcludes(p, s, f) == \E g \in Commitments(p, s) : g[1] = f[1] /\ g[2] # f[2]

EffectCannotFire(P, p, s, e) ==
  \/ <<s, e>> \in p.suppressed
  \/ \E c \in Eff(P, p, s, e).cond : StepExcludes(p, s, c)

-----------------------------------------------------------------------------
(* Threats.                                                                 *)

IsMutex(P, f, g) == {f, g} \in P.mutexes

\* FactMutexes::inconsistent
Inconsistent(P, fs) ==
  \/ fs \cap P.unreachable # {}
  \/ \E f, g \in fs : {f, g} \in P.mutexes

GoalsInconsistent(P) == Inconsistent(P, ToSet(P.T.goals))

Clobbers(e, f) == e.var = f[1] /\ e.post # f[2]

EffectDeletes(P, e, f) ==
  Clobbers(e, f) \/ ("edelete" \in P.prune /\ e.cond = {} /\ IsMutex(P, Assignment(e), f))

PreconditionDeletes(P, o, f) ==
  /\ "edelete" \in P.prune
  /\ ~ \E e \in ToSet(P.T.ops[o].effs) : e.cond = {} /\ Assignment(e) = f
  /\ \E g \in P.T.ops[o].pre : IsMutex(P, g, f)

CanBeInside(p, s, l) == PossiblyBefore(p.ord, l.from, s) /\ PossiblyBefore(p.ord, s, l.to)

\* collect_link_threats for one step and one link.  A reason nothing but an
\* ordering can remove stands for every other reason of the pair.
PairThreats(P, p, s, k) ==
  LET l == p.links[k]
      Firing == {e \in DOMAIN Op(P, p, s).effs :
                   EffectDeletes(P, Eff(P, p, s, e), l.fact) /\ ~ EffectCannotFire(P, p, s, e)}
      Reasons(firing) ==
        LET certain == {e \in firing : Eff(P, p, s, e).cond = {}} IN
        IF certain # {} THEN {Min(certain)}
        ELSE IF PreconditionDeletes(P, p.ops[s], l.fact) THEN {NoEffect} ELSE firing
  IN  IF s \in {l.from, l.to} \/ ~ CanBeInside(p, s, l) THEN {}
      ELSE {[link |-> k, step |-> s, effect |-> e] : e \in Reasons(Firing)}

\* rediscover_threats: the search over all links and steps.
Rediscovered(P, p) ==
  UNION {PairThreats(P, p, s, k) : s \in PlanSteps(p), k \in DOMAIN p.links}

ThreatBefore(t, u) ==
  \/ t.link < u.link
  \/ t.link = u.link /\ t.step < u.step
  \/ t.link = u.link /\ t.step = u.step /\ t.effect < u.effect

ThreatSeq(ts) == SortedBy(ts, ThreatBefore)

AddLinkThreats(P, p) ==
  [p EXCEPT !.threats =
     @ \o ThreatSeq(UNION {PairThreats(P, p, s, Len(p.links)) : s \in PlanSteps(p)})]

\* A new step may threaten old links; the cache stays in key order.
AddStepThreats(P, p, s) ==
  [p EXCEPT !.threats =
     ThreatSeq(ToSet(@) \cup UNION {PairThreats(P, p, s, k) : k \in DOMAIN p.links})]

ThreatActive(P, p, t) ==
  LET l == p.links[t.link] IN
  /\ t.step \notin {l.from, l.to}
  /\ CanBeInside(p, t.step, l)
  /\ IF t.effect = NoEffect
     THEN PreconditionDeletes(P, p.ops[t.step], l.fact)
     ELSE /\ EffectDeletes(P, Eff(P, p, t.step, t.effect), l.fact)
          /\ ~ EffectCannotFire(P, p, t.step, t.effect)

\* Mutant of RetainActive: nothing leaves the cache.
RetainActive_All(P, p) == p

RetainActive(P, p) ==
  [p EXCEPT !.threats = Among(@, {t \in ToSet(@) : ThreatActive(P, p, t)})]

-----------------------------------------------------------------------------
(* Posted disjunctions: promote or demote, to be decided later.             *)

OrderedFor(o, a, b) == a # b /\ ~ PossiblyBefore(o, b, a)

OrderingStatus(o, ab) ==
  CASE ab[1] = ab[2] \/ ab[1] = GoalId \/ ab[2] = InitId -> "impossible"
    [] OTHER -> IF OrderedFor(o, ab[1], ab[2]) THEN "entailed"
                ELSE IF OrderedFor(o, ab[2], ab[1]) THEN "impossible" ELSE "undetermined"

RetainLive(p) ==
  [p EXCEPT !.disjunctions = Among(@, {d \in ToSet(@) : d.threat \in ToSet(p.threats)})]

\* Adds an ordering, or answers no plan when it is inconsistent.
Ordered(p, ab) ==
  IF Refinable(p.ord, ab[1], ab[2]) THEN {[p EXCEPT !.ord = Refine(p.ord, ab[1], ab[2])]} ELSE {}

\* What a disjunction has come to.
Fate(o, d) ==
  LET Of(up, down) ==
        CASE "entailed" \in {up, down} -> "settled"
          [] {up, down} = {"impossible"} -> "refuted"
          [] up = "impossible" /\ down = "undetermined" -> "demote"
          [] up = "undetermined" /\ down = "impossible" -> "promote"
          [] OTHER -> "open"
  IN  Of(OrderingStatus(o, d.promote), OrderingStatus(o, d.demote))

\* The first decided disjunction is removed, its last possible disjunct enforced.
Decide(p, k, fate) ==
  LET rest == [p EXCEPT !.disjunctions = RemoveAt(@, k)] IN
  IF fate = "settled" THEN {rest}
  ELSE IF fate = "refuted" THEN {}
  ELSE Ordered(rest, IF fate = "demote" THEN p.disjunctions[k].demote ELSE p.disjunctions[k].promote)

DecideFirst(p) ==
  LET fate == [k \in DOMAIN p.disjunctions |-> Fate(p.ord, p.disjunctions[k])]
      Of(decided) == IF decided = {} THEN {p} ELSE Decide(p, Min(decided), fate[Min(decided)])
  IN  Of({k \in DOMAIN p.disjunctions : fate[k] # "open"})

\* propagate_disjunctions: until none is decided; every round takes one away.
Propagated(p) ==
  LET after[n \in 0 .. Len(p.disjunctions)] ==
        IF n = 0 THEN {p} ELSE UNION {DecideFirst(q) : q \in after[n - 1]}
  IN  after[Len(p.disjunctions)]

\* settle, after every refinement but the expansion of a derived condition.
Settled(P, p) ==
  LET Live(q) ==
        IF q.disjunctions = <<>> THEN {q}
        ELSE {IF r.ord = q.ord THEN r ELSE RetainLive(RetainActive(P, r)) :
                r \in Propagated(RetainLive(q))}
  IN  Live(RetainActive(P, p))

ThreatCovered(p, t) ==
  LET l == p.links[t.link] IN
  \E d \in ToSet(p.disjunctions) :
    /\ d.threat.step = t.step
    /\ d.threat.link = t.link \/ (d.promote[1] = l.to /\ d.demote[2] = l.from)

-----------------------------------------------------------------------------
(* Resolving an open condition.  A refinement [by, plan] is finished by the *)
(* bookkeeping its kind calls for: "derived" expands a derived condition,   *)
(* "order" decides a threat, "link" reuses a producer, "step" adds one.     *)

Finished(P, c) ==
  {CASE c.by = "link" -> AddLinkThreats(P, r)
     [] c.by = "step" -> AddStepThreats(P, AddLinkThreats(P, r), Len(r.ops))
     [] OTHER -> r : r \in IF c.by = "derived" THEN {c.plan} ELSE Settled(P, c.plan)}

\* support_requirements_possible: what a supporter would newly require of a
\* step can hold beside what the step already requires.
RequirementsPossible(P, p, s, required) ==
  LET fs == BaseFacts(P.T, required) IN
  P.prune \cap {"supporters", "h2"} = {} \/
    /\ \A f, g \in fs : ~ IsMutex(P, f, g)
    /\ \A f \in fs, g \in BaseFacts(P.T, Commitments(p, s)) : ~ IsMutex(P, f, g)

DerivedChildren(P, p, oc) ==
  {[by |-> "derived", plan |-> [p EXCEPT !.opens = AddOpens(WithoutOpen(@, oc), oc.step, FactSeq(c))]] :
     c \in {d \in P.supports[oc.fact] : RequirementsPossible(P, p, oc.step, d)}}

\* support: an existing producer, its effect's conditions opened at it.
Support(P, p, oc, producer, effect, conds) ==
  LET q == [p EXCEPT
              !.ord = Refine(p.ord, producer, oc.step),
              !.links = Append(@, [from |-> producer, to |-> oc.step, fact |-> oc.fact,
                                   effect |-> effect]),
              !.opens = AddOpens(WithoutOpen(@, oc), producer, FactSeq(conds))]
  IN  IF RequirementsPossible(P, p, producer, conds) /\ Refinable(p.ord, producer, oc.step)
      THEN {[by |-> "link", plan |-> q]}
      ELSE {}

\* Mutant of AddStep: the guard of the supporting effect is not opened.
AddStep_NoGuard(P, p, oc, o, e) ==
  LET s == Len(p.ops) + 1
      q == [p EXCEPT
              !.ord = RefineWithStep(p.ord, s, oc.step, s),
              !.cost = @ + P.T.ops[o].cost,
              !.ops = Append(@, o),
              !.links = Append(@, [from |-> s, to |-> oc.step, fact |-> oc.fact, effect |-> e]),
              !.opens = AddOpens(WithoutOpen(@, oc), s, FactSeq(P.T.ops[o].pre))]
  IN  IF s > MaxSteps THEN {} ELSE {[by |-> "step", plan |-> q]}

\* add_step: a new producer, opened with its precondition and the guard of
\* the supporting effect.
AddStep(P, p, oc, o, e) ==
  LET s == Len(p.ops) + 1
      guard == P.T.ops[o].effs[e].cond \ P.T.ops[o].pre
      q == [p EXCEPT
              !.ord = RefineWithStep(p.ord, s, oc.step, s),
              !.cost = @ + P.T.ops[o].cost,
              !.ops = Append(@, o),
              !.links = Append(@, [from |-> s, to |-> oc.step, fact |-> oc.fact, effect |-> e]),
              !.opens = AddOpens(WithoutOpen(@, oc), s, FactSeq(P.T.ops[o].pre) \o FactSeq(guard))]
  IN  IF s > MaxSteps THEN {} ELSE {[by |-> "step", plan |-> q]}

\* SymmetryTable::canonical: of each class the operator introduces the first
\* objects that no step of the plan mentions.
Canonical(P, p, o) ==
  LET used == UNION {Op(P, p, s).args : s \in PlanSteps(p)} IN
  \A class \in ToSet(P.T.classes) :
    LET fresh == SelectSeq(class, LAMBDA x : x \notin used)
        new == ToSet(fresh) \cap P.T.ops[o].args
    IN  new = {fresh[k] : k \in 1 .. Cardinality(new)}

NewStepChildren(P, p, oc) ==
  UNION {AddStep(P, p, oc, a[1], a[2]) :
           a \in {b \in P.achievers[oc.fact] :
                    "symmetry" \in P.prune => Canonical(P, p, b[1])}}

ReuseChildren(P, p, oc) ==
  UNION {UNION {Support(P, p, oc, s, a[2], Eff(P, p, s, a[2]).cond) :
                  a \in {b \in P.achievers[oc.fact] :
                           b[1] = p.ops[s] /\ ~ EffectCannotFire(P, p, s, b[2])}} :
          s \in {t \in PlanSteps(p) : PossiblyBefore(p.ord, t, oc.step)}}

InitialChildren(P, p, oc) ==
  IF P.T.init[oc.fact[1]] = oc.fact[2] THEN Support(P, p, oc, InitId, 0, {}) ELSE {}

OpenChildren(P, p, oc) ==
  IF oc.fact \in DOMAIN P.supports
  THEN DerivedChildren(P, p, oc)
  ELSE NewStepChildren(P, p, oc) \cup ReuseChildren(P, p, oc) \cup InitialChildren(P, p, oc)

ResolveOpen(P, p, oc) == UNION {Finished(P, c) : c \in OpenChildren(P, p, oc)}

-----------------------------------------------------------------------------
(* Resolving a threat.                                                      *)

\* The values that keep a conditional effect from firing.
Confrontations(P, p, t) ==
  IF t.effect = NoEffect THEN {}
  ELSE UNION {{f \in {c[1]} \X Values(P.T, c[1]) : f # c /\ ~ StepExcludes(p, t.step, f)} :
                c \in Eff(P, p, t.step, t.effect).cond}

\* How many orderings could remove a threat.
ThreatOrderings(p, t) ==
  LET l == p.links[t.link] IN
  (IF l.from # InitId /\ PossiblyBefore(p.ord, t.step, l.from) THEN 1 ELSE 0)
    + (IF l.to # GoalId /\ PossiblyBefore(p.ord, l.to, t.step) THEN 1 ELSE 0)

OrderChildren(ps) == {[by |-> "order", plan |-> q] : q \in ps}

Confronted(P, p, t) ==
  {LET linked == \E l \in ToSet(p.links) : l.to = t.step /\ l.fact = f IN
   [p EXCEPT !.suppressed = @ \cup {<<t.step, t.effect>>},
             !.opens = IF linked THEN @ ELSE AddOpens(@, t.step, <<f>>)]
   : f \in Confrontations(P, p, t)}

Promoted(p, t) ==
  LET to == p.links[t.link].to IN IF to = GoalId THEN {} ELSE Ordered(p, <<to, t.step>>)

Demoted(p, t) ==
  LET from == p.links[t.link].from IN IF from = InitId THEN {} ELSE Ordered(p, <<t.step, from>>)

\* post_disjunction: one child for both orderings, unless only one makes sense.
PostDisjunction(p, t) ==
  LET l == p.links[t.link]
      d == [threat |-> t, promote |-> <<l.to, t.step>>, demote |-> <<t.step, l.from>>]
  IN  IF l.to # GoalId /\ l.from # InitId
      THEN {[p EXCEPT !.disjunctions = Append(@, d)]}
      ELSE Promoted(p, t) \cup Demoted(p, t)

ResolveThreat(P, p, t) ==
  OrderChildren(Confronted(P, p, t) \cup IF "disjunctive" \in P.prune THEN PostDisjunction(p, t)
                                         ELSE Promoted(p, t) \cup Demoted(p, t))

SplitDisjunction(p) ==
  LET d == p.disjunctions[1] IN
  OrderChildren(UNION {Ordered([p EXCEPT !.disjunctions = Tail(@)], ab) : ab \in {d.promote, d.demote}})

=============================================================================
