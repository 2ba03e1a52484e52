--------------------------- MODULE PlanningGraph ---------------------------
(***************************************************************************)
(* The delete-relaxed planning graph of a lifted task                      *)
(* (src/src/planning_graph.rs): additive cost, work and layer of every     *)
(* reachable atom and of every initial atom that can be made false; the    *)
(* values an open condition reads from it through a plan's bindings; the   *)
(* relaxed plan behind RELAX and RELAXR; and the parameter relations.      *)
(*                                                                         *)
(* A layer counts the multiples of THRESHOLD that the makespan is made of. *)
(* The join that enumerates parameters through positional indexes is the   *)
(* set of the substitutions it finds.                                      *)
(***************************************************************************)
EXTENDS LiftedTask, FiniteSetsExt

CONSTANT NoBindings   \* a lookup during construction, without a plan

Infinity == 1000000

Hv(c, w, l) == [cost |-> c, work |-> w, layer |-> l]
ZeroValue == Hv(0, 0, 1)
ZeroCostUnitWork == Hv(0, 1, 1)
Infinite == Hv(Infinity, Infinity, Infinity)
IsZero(v) == v.cost = 0
IsInfinite(v) == v.layer = Infinity

AddSat(a, b) == IF a + b > Infinity THEN Infinity ELSE a + b
AddAssign(v, w) ==
  Hv(AddSat(v.cost, w.cost), AddSat(v.work, w.work), IF v.layer < w.layer THEN w.layer ELSE v.layer)

\* hv_min over a set: the cheapest cost with the smallest work at that cost,
\* and the smallest layer of all.
Least(values) ==
  IF values = {} THEN Infinite
  ELSE LET cost == Min({v.cost : v \in values})
       IN  Hv(cost, Min({v.work : v \in {v \in values : v.cost = cost}}), Min({v.layer : v \in values}))

HvMin(v, w) == Least({v, w})

\* is_static: no effect is about the predicate.
Static(p) ==
  \A k \in Schemas : \A i \in DOMAIN Schema(k).effects : Schema(k).effects[i].atom[1] # p

(***************************************************************************)
(* Lookups.  bindings is NoBindings, or the objects each variable of the   *)
(* condition may still denote.  The atoms of a relation are scanned in     *)
(* g.scan, the order in which a hash map gave them up, and the scan stops  *)
(* at the first value of cost zero: that cost is the least, but work and   *)
(* layer are those of what was scanned until then.                         *)
(***************************************************************************)
Variables(a, bindings) == Range(a) \cap DOMAIN bindings
IsGround(a, bindings) == bindings = NoBindings \/ Variables(a, bindings) = {}

\* The ground atoms a condition may still denote: resolve_pattern, matches.
Admitted(a, bindings) ==
  LET vars == Variables(a, bindings)
  IN  {Instance(a, s) : s \in {s \in [vars -> UNION {bindings[v] : v \in vars}] :
                                 \A v \in vars : s[v] \in bindings[v]}}

GroundAtomValue(g, a) == IF a \in DOMAIN g.pos THEN g.pos[a] ELSE Infinite

GroundNegationValue(g, a) ==
  CASE a \in DOMAIN g.neg -> g.neg[a]
    [] a \in task.init -> Infinite
    [] OTHER -> ZeroCostUnitWork

\* for_each_match: the admitted atoms of a relation up to the first free one.
Visited(g, values, admitted) ==
  LET matches == SelectSeq(g.scan, LAMBDA c : c \in admitted \cap DOMAIN values)
      free == {i \in DOMAIN matches : IsZero(values[matches[i]])}
  IN  Range(IF free = {} THEN matches ELSE SubSeq(matches, 1, Min(free)))

ScannedValue(g, values, admitted) == Least({values[c] : c \in Visited(g, values, admitted)})

AtomValue(g, a, bindings) ==
  IF IsGround(a, bindings) THEN GroundAtomValue(g, a)
  ELSE ScannedValue(g, g.pos, Admitted(a, bindings))

\* Mutant of LiftedNegationValue: the tuples absent from the relation forgotten.
LiftedNegationValue_OnlyAchieved(g, a, admitted) == ScannedValue(g, g.neg, admitted)

\* A tuple absent from the relation is false for free; the admitted tuples are
\* counted against those true initially to see whether there is one.
LiftedNegationValue(g, a, admitted) ==
  LET achieved == ScannedValue(g, g.neg, admitted)
      true == {c \in admitted \cap DOMAIN g.pos : c \in task.init}
  IN  IF ~IsZero(achieved) /\ Cardinality(admitted) > Cardinality(true)
      THEN HvMin(achieved, ZeroCostUnitWork) ELSE achieved

NegationValue(g, a, bindings) ==
  CASE bindings = NoBindings -> GroundNegationValue(g, a)
    [] ~IsZero(AtomValue(g, a, bindings)) -> ZeroValue
    [] Cardinality(Admitted(a, bindings)) = 1 ->
         GroundNegationValue(g, CHOOSE c \in Admitted(a, bindings) : TRUE)
    [] OTHER -> LiftedNegationValue(g, a, Admitted(a, bindings))

\* binding_consistent: an equality needs a common object, an inequality fails
\* only between two known, equal objects.
TermDomain(t, bindings) == IF t \in DOMAIN bindings THEN bindings[t] ELSE {t}
BindingConsistent(f, bindings) ==
  LET l == TermDomain(f.terms[1], bindings)
      r == TermDomain(f.terms[2], bindings)
  IN  IF f.kind = "eq" THEN l \cap r # {} ELSE Cardinality(l) > 1 \/ l # r

\* formula_heuristic_value.
RECURSIVE FormulaValue(_, _, _)
FormulaValue(g, f, bindings) ==
  CASE f.kind \in {"true", "false"} -> ZeroValue
    [] f.kind = "atom" -> AtomValue(g, f.atom, bindings)
    [] f.kind = "not" -> NegationValue(g, f.atom, bindings)
    [] f.kind \in {"eq", "neq"} ->
         IF bindings = NoBindings \/ BindingConsistent(f, bindings) THEN ZeroValue ELSE Infinite
    [] f.kind = "and" ->
         FoldLeft(LAMBDA h, p : IF IsInfinite(h) THEN h ELSE AddAssign(h, FormulaValue(g, p, bindings)),
                  ZeroValue, f.parts)
    [] f.kind = "or" ->
         FoldLeft(LAMBDA h, p : IF IsZero(h) THEN h ELSE HvMin(h, FormulaValue(g, p, bindings)),
                  Infinite, f.parts)
    [] OTHER -> FormulaValue(g, f.body, bindings)

(***************************************************************************)
(* formula_value: the same value, but a literal that an effect of a step   *)
(* possibly before the condition unifies with costs nothing.  "steps"      *)
(* holds those steps; an effect's guard does not matter, and its           *)
(* quantified variables may denote anything of their types.                *)
(***************************************************************************)
ReuseLiteral(a, negated, bindings, steps) ==
  LET Effects(step) ==
        LET sch == Schema(step.schema)
        IN  UNION {{Instance(e.atom, s) : s \in Substitutions(e.params, sch.types, step.s)} :
                     e \in {e \in Range(sch.effects) : e.neg = negated}}
      denoted == IF IsGround(a, bindings) THEN {a} ELSE Admitted(a, bindings)
  IN  ~Static(a[1]) /\ \E step \in steps : denoted \cap Effects(step) # {}

RECURSIVE ReuseValue(_, _, _, _)
ReuseValue(g, f, bindings, steps) ==
  CASE f.kind \in {"atom", "not"} ->
         IF ReuseLiteral(f.atom, f.kind = "not", bindings, steps) THEN ZeroCostUnitWork
         ELSE FormulaValue(g, f, bindings)
    [] f.kind = "or" ->
         FoldLeft(LAMBDA h, p : HvMin(h, ReuseValue(g, p, bindings, steps)), Infinite, f.parts)
    [] f.kind = "and" ->
         FoldLeft(LAMBDA h, p : AddAssign(h, ReuseValue(g, p, bindings, steps)), ZeroValue, f.parts)
    [] f.kind \in {"exists", "forall"} -> ReuseValue(g, f.body, bindings, steps)
    [] OTHER -> FormulaValue(g, f, bindings)

(***************************************************************************)
(* Construction.  Every round reads the values of the round before it.     *)
(***************************************************************************)
Level0 ==
  [pos |-> [a \in task.init |-> IF Static(a[1]) THEN ZeroValue ELSE ZeroCostUnitWork],
   neg |-> [a \in {} |-> Infinite]]

\* The substitutions under which every positive conjunct of f is reachable.
Joined(g, vars, types, f, s) ==
  {t \in Substitutions(vars, types, s) : \A a \in JoinAtoms(f) : Instance(a, t) \in DOMAIN g.pos}

PreconditionValue(g, sch, s) == FormulaValue(g, Expanded(sch.pre, s, sch.types), NoBindings)

\* The parameter tuples of a schema whose precondition has a finite value.
Reachable(g, sch) ==
  {s \in Joined(g, sch.params, sch.types, sch.pre, Nothing) :
     Consistent(sch.pre, s) /\ ~IsInfinite(PreconditionValue(g, sch, s))}

\* apply_effect_tuple: what one effect of one tuple offers its literal.
EffectValue(sch, pre, cond) ==
  LET v == AddAssign(cond, pre)
  IN  Hv(AddSat(v.cost, sch.cost), AddSat(v.work, 1), AddSat(v.layer, 1))

EffectOffers(g, sch, e, s, pre) ==
  LET Offer(t) == LET cond == FormulaValue(g, Expanded(e.cond, t, sch.types), NoBindings)
                  IN  IF IsInfinite(cond) THEN {}
                      ELSE {[neg |-> e.neg, atom |-> Instance(e.atom, t),
                             value |-> EffectValue(sch, pre, cond)]}
  IN  UNION {Offer(t) : t \in IF e.params = <<>> THEN {s}
                              ELSE Joined(g, e.params, sch.types, e.cond, s)}

SchemaOffers(g, sch) ==
  LET Of(s) == LET OfTuple(pre) == UNION {EffectOffers(g, sch, sch.effects[i], s, pre) :
                                            i \in DOMAIN sch.effects}
               IN  OfTuple(PreconditionValue(g, sch, s))
  IN  UNION {Of(s) : s \in Reachable(g, sch)}

Merged(values, offers) ==
  LET Best(a) == Least({o.value : o \in {o \in offers : o.atom = a}})
      Old(a) == IF a \in DOMAIN values THEN values[a] ELSE Infinite
  IN  [a \in DOMAIN values \cup {o.atom : o \in offers} |-> HvMin(Best(a), Old(a))]

\* One iteration; a negation is free unless the atom starts true.
Round(g, offers) ==
  [pos |-> Merged(g.pos, {o \in offers : ~o.neg}),
   neg |-> Merged(g.neg, {o \in offers : o.neg /\ o.atom \in task.init})]

RECURSIVE Fixpoint(_)
Fixpoint(g) ==
  The({IF n = g THEN g ELSE Fixpoint(n) :
         n \in {Round(g, UNION {SchemaOffers(g, Schema(k)) : k \in Schemas})}})

Graph == The({Fixpoint(g) : g \in {Level0}})

\* The graph as the search reads it: the order of its relations is that of a
\* hash map, so any; here by rising layer, or by falling layer.
Layered(g) ==
  LET Layer(a) == IF a \in DOMAIN g.pos THEN g.pos[a].layer ELSE g.neg[a].layer
  IN  SortSeq(FoldSet(LAMBDA a, listed : Append(listed, a), <<>>, DOMAIN g.pos \cup DOMAIN g.neg),
              LAMBDA a, b : Layer(a) < Layer(b))

Indexed(g) ==
  LET In(scan) == [pos |-> g.pos, neg |-> g.neg, scan |-> scan]
  IN  UNION {{In(scan), In(Reverse(scan))} : scan \in {Layered(g)}}

ReachableActions(g) ==
  UNION {{[schema |-> k, s |-> s] : s \in Reachable(g, Schema(k))} : k \in Schemas}

(***************************************************************************)
(* Relaxed plans.  The worklist is in any order; among equally cheap       *)
(* achievers the first in the graph's order of actions, so any.            *)
(***************************************************************************)
PreAtoms(a) == {Instance(p, a.s) : p \in JoinAtoms(Schema(a.schema).pre)}

\* Guards are ignored: an effect achieves its atom whatever its condition.
Adds(a) ==
  LET sch == Schema(a.schema)
  IN  {Instance(sch.effects[i].atom, a.s) : i \in {i \in DOMAIN sch.effects : ~sch.effects[i].neg}}

\* Mutant of AchieverCost: the achiever's own cost forgotten.
AchieverCost_Free(g, a) == FoldSet(LAMBDA p, c : AddSat(c, GroundAtomValue(g, p).cost), 0, PreAtoms(a))

AchieverCost(g, a) ==
  FoldSet(LAMBDA p, c : AddSat(c, GroundAtomValue(g, p).cost), Schema(a.schema).cost, PreAtoms(a))

CheapestAchievers(g, atom, actions) ==
  LET achievers == {a \in actions : atom \in Adds(a) /\ \A p \in PreAtoms(a) : p \in DOMAIN g.pos}
  IN  {a \in achievers : \A b \in achievers : AchieverCost(g, a) <= AchieverCost(g, b)}

\* goal_atom: the cheapest ground atom the condition may denote.
GoalAtoms(g, f, bindings) ==
  IF f.kind # "atom" THEN {}
  ELSE IF IsGround(f.atom, bindings) THEN {f.atom}
  ELSE LET reachable == Admitted(f.atom, bindings) \cap DOMAIN g.pos
       IN  {a \in reachable : \A b \in reachable : g.pos[a].cost <= g.pos[b].cost}

\* The sets of chosen actions extraction may end with; {} when a subgoal has no
\* achiever.  reused holds what committed steps add.
RECURSIVE Extracted(_, _, _, _, _, _)
Extracted(g, work, achieved, chosen, reused, actions) ==
  IF work \subseteq achieved THEN {chosen}
  ELSE LET goal == CHOOSE a \in work \ achieved : TRUE
           rest == work \ {goal}
           AtHand == IsZero(GroundAtomValue(g, goal)) \/ goal \in reused
           steps == IF AtHand THEN {<<rest, chosen>>}
                    ELSE {<<rest \cup PreAtoms(a), chosen \cup {a}>> : a \in CheapestAchievers(g, goal, actions)}
       IN  UNION {Extracted(g, step[1], achieved \cup {goal}, step[2], reused, actions) : step \in steps}

RelaxedPlanSize(chosen) ==
  FoldSet(LAMBDA a, c : c + Schema(a.schema).cost, 0, chosen)
===========================================================================
