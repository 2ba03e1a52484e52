------------------------------- MODULE MCFdr -------------------------------
(***************************************************************************)
(* Small finite-domain tasks for FdrPocl, and what is checked of every     *)
(* plan of their refinement trees.                                         *)
(*                                                                         *)
(* No operator writes one variable twice: which of two such effects wins   *)
(* is the order the translator emitted them in, and a plan in which it     *)
(* matters is left to the replay.                                          *)
(***************************************************************************)
EXTENDS FdrPlanner

Write(v, x) == [cond |-> {}, var |-> v, post |-> x]
WriteIf(c, v, x) == [cond |-> c, var |-> v, post |-> x]
OpOf(pre, effs, cost, args) == [pre |-> pre, effs |-> effs, cost |-> cost, args |-> args]

\* Variable 1 is wanted and variable 3 as well; making 3 undoes 1 when 2 is
\* set, and 2 is needed for 1.  An effect of the last operator can stand for
\* either.  Value 2 of variable 2 cannot be reached.
Conditional ==
  [size |-> <<2, 3, 2>>, groups |-> {}, init |-> <<0, 0, 0>>, goals |-> <<<<1, 1>>, <<3, 1>>>>,
   axioms |-> <<>>, classes |-> <<>>,
   ops |-> <<OpOf({}, <<Write(3, 1), WriteIf({<<2, 1>>}, 1, 0)>>, 1, {}),
             OpOf({<<2, 1>>}, <<Write(1, 1)>>, 2, {}),
             OpOf({}, <<Write(2, 1)>>, 1, {}),
             OpOf({<<2, 2>>}, <<Write(1, 1), Write(3, 1)>>, 0, {}),
             OpOf({}, <<WriteIf({<<2, 1>>}, 3, 1), Write(2, 0)>>, 1, {})>>]

\* A parcel (variable 2: here, there, aboard) and a van (variable 1).  The
\* second group is the translator's; that the van's hold is taken (variable 3)
\* exactly when the parcel is aboard is not declared.
Delivery ==
  [size |-> <<2, 3, 2>>, groups |-> {{<<2, 0>>, <<2, 2>>}, {<<2, 2>>, <<3, 0>>}}, init |-> <<0, 0, 0>>,
   goals |-> <<<<2, 1>>, <<3, 0>>>>, axioms |-> <<>>, classes |-> <<>>,
   ops |-> <<OpOf({<<1, 0>>}, <<Write(1, 1)>>, 1, {}),
             OpOf({<<1, 1>>}, <<Write(1, 0)>>, 1, {}),
             OpOf({<<1, 0>>, <<2, 0>>, <<3, 0>>}, <<Write(2, 2), Write(3, 1)>>, 1, {}),
             OpOf({<<1, 1>>, <<2, 2>>, <<3, 1>>}, <<Write(2, 1), Write(3, 0)>>, 1, {})>>]

\* Variable 3 holds (value 0) when 1 and 2 do, and 4 when 3 does not.
Derived ==
  [size |-> <<2, 2, 2, 2>>, groups |-> {}, init |-> <<0, 1, 1, 1>>, goals |-> <<<<3, 0>>, <<2, 1>>>>,
   classes |-> <<>>,
   axioms |-> <<[cond |-> <<<<1, 1>>, <<2, 1>>>>, var |-> 3, pre |-> 1, post |-> 0],
                [cond |-> <<<<3, 1>>>>, var |-> 4, pre |-> 1, post |-> 0]>>,
   ops |-> <<OpOf({<<2, 0>>}, <<Write(1, 1)>>, 1, {}),
             OpOf({<<4, 0>>}, <<Write(2, 0)>>, 1, {}),
             OpOf({}, <<Write(2, 1)>>, 1, {})>>]

\* Two interchangeable tools: either will do.
Tools ==
  [size |-> <<2, 2, 2, 2>>, groups |-> {}, init |-> <<0, 0, 0, 0>>, goals |-> <<<<3, 1>>, <<4, 1>>>>,
   axioms |-> <<>>, classes |-> <<<<"a", "b">>>>,
   ops |-> <<OpOf({}, <<Write(1, 1)>>, 1, {"a"}), OpOf({}, <<Write(2, 1)>>, 1, {"b"}),
             OpOf({<<1, 1>>}, <<Write(3, 1), Write(1, 0)>>, 1, {"a"}),
             OpOf({<<2, 1>>}, <<Write(3, 1), Write(2, 0)>>, 1, {"b"}),
             OpOf({<<1, 1>>}, <<Write(4, 1)>>, 1, {"a"}),
             OpOf({<<2, 1>>}, <<Write(4, 1)>>, 1, {"b"})>>]

\* A corridor: walking back and forth regresses to the same condition.
Corridor ==
  [size |-> <<3, 2>>, groups |-> {}, init |-> <<0, 0>>, goals |-> <<<<1, 2>>, <<2, 1>>>>,
   axioms |-> <<>>, classes |-> <<>>,
   ops |-> <<OpOf({<<1, 0>>}, <<Write(1, 1)>>, 1, {}), OpOf({<<1, 1>>}, <<Write(1, 0)>>, 1, {}),
             OpOf({<<1, 1>>}, <<Write(1, 2)>>, 1, {}), OpOf({<<1, 0>>}, <<Write(2, 1)>>, 1, {})>>]

\* What the goal asks for holds at the start, is given up and made again.
Detour ==
  [size |-> <<2, 2, 2>>, groups |-> {}, init |-> <<1, 0, 0>>, goals |-> <<<<1, 1>>>>,
   axioms |-> <<>>, classes |-> <<>>,
   ops |-> <<OpOf({<<2, 1>>}, <<Write(1, 1), Write(2, 0)>>, 1, {}),
             OpOf({<<1, 1>>, <<3, 1>>}, <<Write(1, 0), Write(2, 1)>>, 1, {}),
             OpOf({}, <<Write(3, 1)>>, 1, {})>>]

\* Variable 3 holds (value 0) when 1 does; the first operator needs that and
\* undoes 4 when 1 does not hold.
Guarded ==
  [size |-> <<2, 2, 2, 2>>, groups |-> {}, init |-> <<0, 0, 1, 1>>, goals |-> <<<<2, 1>>, <<4, 1>>>>,
   classes |-> <<>>,
   axioms |-> <<[cond |-> <<<<1, 1>>>>, var |-> 3, pre |-> 1, post |-> 0]>>,
   ops |-> <<OpOf({<<3, 0>>}, <<Write(2, 1), WriteIf({<<1, 0>>}, 4, 0)>>, 1, {}),
             OpOf({}, <<Write(1, 1)>>, 1, {})>>]

Crit(kinds, max, order) == [kinds |-> kinds, max |-> max, order |-> order, reuse |-> FALSE]
NoLimit == 1000

Lcfr == <<Crit({"n", "s", "o"}, NoLimit, "LR")>>
Ucpop == <<Crit({"n", "s"}, NoLimit, "LIFO"), Crit({"o"}, NoLimit, "LIFO")>>
DsepFifo == <<Crit({"n"}, NoLimit, "LIFO"), Crit({"o"}, NoLimit, "FIFO"), Crit({"s"}, NoLimit, "LIFO")>>
Zlifo == <<Crit({"n"}, NoLimit, "LIFO"), Crit({"o"}, 0, "LIFO"), Crit({"o"}, 1, "NEW"),
           Crit({"o"}, NoLimit, "LIFO"), Crit({"s"}, NoLimit, "LIFO")>>
McLocConf == <<Crit({"n", "s"}, NoLimit, "LR"), Crit({"u"}, NoLimit, "MC"), Crit({"l"}, NoLimit, "MC")>>
Delayed == <<Crit({"t"}, NoLimit, "REUSE"), Crit({"o"}, NoLimit, "MR"),
             [Crit({"n", "s", "o"}, NoLimit, "LW") EXCEPT !.reuse = TRUE]>>

Config(T, prune, flaws, term) == [task |-> T, prune |-> prune, flaws |-> flaws, term |-> term]

MCConfigs ==
  <<Config(Conditional, {}, Lcfr, "OC"),
    Config(Conditional, {}, Delayed, "CLADD"),
    Config(Conditional, {"disjunctive"}, McLocConf, "ADDR"),
    Config(Conditional, {"supporters", "recursion", "minimality", "cutset"}, Zlifo, "LM"),
    Config(Conditional, {"h2", "edelete"}, Ucpop, "RELAX"),
    Config(Delivery, {}, Ucpop, "S+OC"),
    Config(Delivery, {"disjunctive", "edelete"}, Delayed, "LMCUTR"),
    Config(Delivery, {"cutset", "recursion", "minimality"}, Lcfr, "UCPOP"),
    Config(Delivery, {"h2", "edelete", "supporters", "disjunctive"}, DsepFifo, "CLFF"),
    Config(Derived, {"cutset", "minimality"}, Lcfr, "ADD"),
    Config(Derived, {"h2", "recursion", "supporters"}, Ucpop, "LMCUT"),
    Config(Derived, {"h2", "limited", "cutset"}, Ucpop, "OC"),
    Config(Derived, {"disjunctive", "edelete"}, Delayed, "RELAXR"),
    Config(Guarded, {"disjunctive", "edelete"}, DsepFifo, "OC"),
    Config(Guarded, {"supporters", "cutset"}, Ucpop, "S+OC"),
    Config(Tools, {"symmetry"}, Lcfr, "BUC"),
    Config(Tools, {"symmetry", "disjunctive", "supporters"}, McLocConf, "UC"),
    Config(Tools, {"recursion", "minimality", "h2"}, Zlifo, "ADDR_WORK"),
    Config(Corridor, {"recursion"}, Ucpop, "LMCUTR"),
    Config(Corridor, {"recursion", "minimality", "disjunctive"}, Delayed, "OC"),
    Config(Detour, {"minimality"}, Lcfr, "ADD"),
    Config(Detour, {"minimality", "recursion", "cutset"}, DsepFifo, "OC")>>

-----------------------------------------------------------------------------
(* What the properties compare with: operator sequences and states.         *)

Solutions == [c \in DOMAIN Configs |->
  {w \in UNION {[1 .. n -> Operators(Configs[c].task)] : n \in 0 .. MaxSteps} : Executes(Configs[c].task, w)}]

Shortest == [c \in DOMAIN Configs |->
  {w \in Solutions[c] : \A x \in Solutions[c] : Len(w) <= Len(x)}]

Traces == [c \in DOMAIN Configs |-> [w \in Solutions[c] |-> Trace(Configs[c].task, w)]]

Position(w, m, s) == IF s = InitId THEN 0 ELSE IF s = GoalId THEN Len(w) + 1 ELSE m[s]

\* The steps of p can be found in w, at the positions m, doing in w what the
\* links, orderings and commitments of p say.
Embeds(q, w, st, p, m) ==
  LET at(s) == Position(w, m, s)
      fires(s, e) == \A f \in Eff(q, p, s, e).cond : Holds(f, st[at(s)])
  IN  /\ \A s \in PlanSteps(p) : w[m[s]] = p.ops[s]
      /\ \A a, b \in PlanSteps(p) : OrderedBefore(p.ord, a, b) => m[a] < m[b]
      /\ \A l \in ToSet(p.links) :
           /\ at(l.from) < at(l.to)
           /\ l.from # InitId => fires(l.from, l.effect)
           /\ \A k \in at(l.from) + 1 .. at(l.to) : Holds(l.fact, st[k])
      /\ \A oc \in ToSet(p.opens) : Holds(oc.fact, st[at(oc.step)])
      /\ \A x \in p.suppressed : ~ fires(x[1], x[2])
      /\ \A d \in ToSet(p.disjunctions) :
           at(d.promote[1]) < at(d.promote[2]) \/ at(d.demote[1]) < at(d.demote[2])

StandsFor(q, p, w, st) ==
  \E m \in [PlanSteps(p) -> DOMAIN w] : IsInjective(m) /\ Embeds(q, w, st, p, m)

StandsForShortest(p) ==
  \E w \in Shortest[config] : StandsFor(planner, p, w, Traces[config][w])

ReachableStates(T) ==
  LET RECURSIVE grow(_)
      grow(S) == LET next == S \cup {CloseAxioms(T, ApplyOperator(T, s, o)) : <<s, o>> \in
                       {x \in S \X Operators(T) : \A f \in T.ops[x[2]].pre : Holds(f, x[1])}}
                 IN  IF next = S THEN S ELSE grow(next)
  IN  grow({CloseAxioms(T, T.init)})

States == [c \in DOMAIN Configs |-> ReachableStates(Configs[c].task)]

-----------------------------------------------------------------------------
(* Properties.                                                              *)

\* Whatever rules are on and whatever order flaws are chosen in, a plan that
\* stands for a shortest solution has a queued child that stands for one.
NoSolutionLost ==
  ~ Complete(plan) /\ StandsForShortest(plan) =>
    \E x \in Children(planner, plan, C.flaws, C.term) : StandsForShortest(x.plan)

\* A plan without flaws holds no undecided disjunction, and every order of its
\* steps it allows executes and reaches the goals.
CompletePlanExecutes ==
  Complete(plan) =>
    /\ plan.disjunctions = <<>>
    /\ \A at \in {f \in [PlanSteps(plan) -> PlanSteps(plan)] : IsInjective(f)} :
         (\A a, b \in PlanSteps(plan) : OrderedBefore(plan.ord, a, b) => at[a] < at[b]) =>
           Executes(planner.T, [k \in PlanSteps(plan) |-> plan.ops[CHOOSE s \in PlanSteps(plan) : at[s] = k]])

PlanCost(T, w) == FoldLeft(LAMBDA c, o : c + T.ops[o].cost, 0, w)

\* An infinite estimate is a proof that nothing completes the plan, and LM-cut
\* with reuse asks for no more than any completion still costs.
EstimatesPromiseNoMore ==
  LET terms == {"ADD", "ADDR", "RELAX", "RELAXR", "CLADD"}
                 \cup IF HasConditionalEffects(planner.T) THEN {} ELSE {"LMCUT", "LMCUTR"}
      standing == {w \in Solutions[config] : StandsFor(planner, plan, w, Traces[config][w])}
  IN  \A costs \in {{PlanCost(planner.T, w) : w \in standing}} \ {{}} : \A t \in terms :
        \A left \in {Remaining(planner, plan, t)} :
          left < Inf /\ (t = "LMCUTR" => \A c \in costs : plan.cost + left <= c)

\* Facts a table calls exclusive or unreachable never hold (together) in a
\* state the operators reach, and every solution passes through every landmark.
TablesAreTrue ==
  /\ \A s \in States[config] :
       LET facts == {f \in Facts(planner.T) : Holds(f, s)} IN
       /\ facts \cap planner.unreachable = {}
       /\ \A f, g \in facts : {f, g} \notin planner.mutexes
  /\ \A w \in Solutions[config], f \in planner.landmarks :
       \E k \in DOMAIN Traces[config][w] : Holds(f, Traces[config][w][k])

\* What the search is told about the rest of a plan is true of the task.
EstimatesAreTrue == TablesAreTrue /\ EstimatesPromiseNoMore

=============================================================================
