----------------------------- MODULE HtnBounds -----------------------------
(***************************************************************************)
(* Bounds and guidance over task hierarchies (tdg.rs, support.rs,          *)
(* relaxed.rs, modification.rs, unit_cycles.rs and tdg_cache.rs of         *)
(* src/src/htn).  Costs above CostCap read CostCap; Unreachable, above     *)
(* every cost, is the code's None: there is no finite decomposition, or no *)
(* relaxed execution.                                                      *)
(***************************************************************************)
EXTENDS HtnPlan

Unreachable == CostCap + 1
Plus(a, b) == IF Unreachable \in {a, b} THEN Unreachable ELSE IF a + b > CostCap THEN CostCap ELSE a + b
Total(costs) == FoldLeft(Plus, 0, costs)
Least(costs) == IF costs = {} THEN Unreachable ELSE CHOOSE c \in costs : \A d \in costs : c <= d
Greatest(costs) == IF costs = {} THEN 0 ELSE CHOOSE c \in costs : \A d \in costs : d <= c

TasksOf(p) == {t.task : t \in ToSet(p.tasks)}
OfTasks(ts, cost) == [k \in DOMAIN ts |-> cost[ts[k].task]]
OfSubtasks(D, m, cost) == [k \in DOMAIN D.methods[m].subtasks |-> cost[D.methods[m].subtasks[k]]]

-----------------------------------------------------------------------------
(* Tasks are OR nodes and methods AND nodes.  Dijkstra's traversal settles  *)
(* the cheapest task whose cost is known, until no more is known.           *)

Known(D, methods, seed, step, settled, t) ==
  IF Primitive(D, t) THEN seed[t]
  ELSE Least({Plus(step, Total(OfSubtasks(D, m, settled))) : m \in {n \in methods : D.methods[n].task = t}})

RECURSIVE Settle(_, _, _, _, _)
Settle(D, methods, seed, step, settled) ==
  LET From(known, least) ==
        IF least = Unreachable THEN settled
        ELSE Settle(D, methods, seed, step,
                    [t \in DOMAIN settled |-> IF known[t] = least THEN least ELSE settled[t]])
      With(known) == From(known, Least({known[t] : t \in DOMAIN known}))
  IN  With([t \in DOMAIN settled |-> IF settled[t] # Unreachable THEN Unreachable
                                     ELSE Known(D, methods, seed, step, settled, t)])

MinimumCosts(D, tasks, methods, seed, step) ==
  Settle(D, methods, seed, step, [t \in tasks |-> Unreachable])

\* Tdg: what a task and a method cost at least, and the facts a complete
\* decomposition of a task may add.
RECURSIVE Effects(_, _, _)
Effects(D, methods, adds) ==
  LET next == [t \in DOMAIN adds |->
        adds[t] \cup UNION {UNION {adds[u] : u \in ToSet(D.methods[m].subtasks)} :
                              m \in {n \in methods : D.methods[n].task = t}}]
  IN  IF next = adds THEN adds ELSE Effects(D, methods, next)

Tdg(D) ==
  LET With(task, method, productive) ==
        [task |-> task, method |-> method, productive |-> productive,
         mayAdd |-> Effects(D, productive,
                      [t \in 1 .. D.tasks |-> IF Primitive(D, t) THEN D.actions[t].add ELSE {}])]
      Methods(task, method) ==
        With(task, method, {m \in DOMAIN D.methods : method[m] # Unreachable})
      Tasks(task) == Methods(task, [m \in DOMAIN D.methods |-> Total(OfSubtasks(D, m, task))])
  IN  Tasks(MinimumCosts(D, 1 .. D.tasks, DOMAIN D.methods,
                         [t \in DOMAIN D.actions |-> D.actions[t].cost], 0))

StructuralCost(D, G, p) == Total(OfTasks(Compounds(D, p), G.task))

ReplacementCost(D, G, p, parent, m) ==
  Plus(Plus(p.cost, G.method[m]), Total(OfTasks(Remove(Compounds(D, p), parent), G.task)))

-----------------------------------------------------------------------------
(* Recompute: only what the active tasks can still become, and of that only *)
(* actions some delete-relaxed execution reaches.                           *)

RECURSIVE Descendants(_, _, _)
Descendants(D, G, ts) ==
  LET next == ts \cup UNION {ToSet(D.methods[m].subtasks) : m \in {n \in G.productive : D.methods[n].task \in ts}}
  IN  IF next = ts THEN ts ELSE Descendants(D, G, next)

Executable(D, actions, facts) == {a \in actions : D.actions[a].pre \subseteq facts}

RECURSIVE ReachedFacts(_, _, _)
ReachedFacts(D, actions, facts) ==
  LET next == facts \cup UNION {D.actions[a].add : a \in Executable(D, actions, facts)}
  IN  IF next = facts THEN facts ELSE ReachedFacts(D, actions, next)

RecomputedCost(D, G, p) ==
  LET tasks == Descendants(D, G, TasksOf(p))
      actions == tasks \cap DOMAIN D.actions
      facts == ReachedFacts(D, actions, D.init)
      runs == Executable(D, actions, facts)
      seed == [a \in DOMAIN D.actions |-> IF a \in runs THEN D.actions[a].cost ELSE Unreachable]
      cost == MinimumCosts(D, tasks, {m \in G.productive : D.methods[m].task \in tasks}, seed, 0)
  IN  IF D.goal \subseteq facts /\ TasksOf(p) \cap DOMAIN D.actions \subseteq runs
      THEN Total(OfTasks(Compounds(D, p), cost)) ELSE Unreachable

-----------------------------------------------------------------------------
(* RelaxedBound: h_max over the same closure.  An action already in the     *)
(* plan is free.                                                            *)

Price(D, committed, a) == IF a \in committed THEN 0 ELSE D.actions[a].cost

RECURSIVE HMax(_, _, _, _)
HMax(D, committed, actions, cost) ==
  LET through(a) == Plus(Greatest({cost[f] : f \in D.actions[a].pre}), Price(D, committed, a))
      next == [f \in DOMAIN cost |->
                 Least({cost[f]} \cup {through(a) : a \in {b \in actions : f \in D.actions[b].add}})]
  IN  IF next = cost THEN cost ELSE HMax(D, committed, actions, next)

FactsOf(D) == D.init \cup D.goal \cup UNION {a.pre \cup a.add \cup a.del : a \in ToSet(D.actions)}

RelaxedCost(D, G, active) ==
  LET committed == active \cap DOMAIN D.actions
      required == D.goal \cup UNION {D.actions[a].pre : a \in committed}
      actions == Descendants(D, G, active) \cap DOMAIN D.actions
      cost == HMax(D, committed, actions, [f \in FactsOf(D) |-> IF f \in D.init THEN 0 ELSE Unreachable])
  IN  IF required \subseteq D.init THEN 0 ELSE Greatest({cost[f] : f \in required})

-----------------------------------------------------------------------------
(* SupportBound: some active compound must still bring in an achiever of an *)
(* open condition nothing else supports.                                    *)

\* The siblings of position k cost at least this much.
Siblings(D, G, m, k) ==
  Total([i \in DOMAIN D.methods[m].subtasks |-> IF i = k THEN 0 ELSE G.task[D.methods[m].subtasks[i]]])

\* c_p: the least cost of a decomposition that holds an achiever of f.
RECURSIVE AchieverCosts(_, _, _, _)
AchieverCosts(D, G, f, cost) ==
  LET below(u) == IF Primitive(D, u)
                  THEN IF f \in D.actions[u].add THEN D.actions[u].cost ELSE Unreachable
                  ELSE cost[u]
      marked(m) == {Plus(below(D.methods[m].subtasks[k]), Siblings(D, G, m, k)) : k \in DOMAIN D.methods[m].subtasks}
      next == [t \in DOMAIN cost |-> Least(UNION {marked(m) : m \in {n \in G.productive : D.methods[n].task = t}})]
  IN  IF next = cost THEN cost ELSE AchieverCosts(D, G, f, next)

CostsOf(D, G, f) == AchieverCosts(D, G, f, [t \in (Len(D.actions) + 1) .. D.tasks |-> Unreachable])

\* What supporting `open` costs above the structural sum.  focus restricts
\* the candidates of the condition it was set for, and of no other.
ConditionCost(D, G, p, open) ==
  LET focused == IF p.focus = NoFocus THEN FALSE ELSE p.focus.open = open
      may == {t \in ToSet(p.tasks) : /\ focused => t \in ToSet(p.focus.candidates)
                                     /\ t.id # open.consumer /\ ~ Before(p, open.consumer, t.id)}
      paid == {t \in may : Primitive(D, t.task) /\ open.fact \in D.actions[t.task].add}
      future == {t \in may : ~ Primitive(D, t.task) /\ MayAdd(G, t.task, open.fact)}
      cost == CostsOf(D, G, open.fact)
  IN  IF (~ focused /\ open.fact \in D.init) \/ paid # {} THEN 0
      ELSE Least({cost[t.task] - G.task[t.task] : t \in {u \in future : cost[u.task] # Unreachable}})

\* One action may support several conditions.
Together(increments) == Greatest(ToSet(increments))

SupportCost(D, G, p) ==
  LET structural == StructuralCost(D, G, p)
      increments == [k \in DOMAIN p.open |-> ConditionCost(D, G, p, p.open[k])]
  IN  IF structural >= CostCap THEN structural
      ELSE IF Unreachable \in ToSet(increments) THEN Unreachable
      ELSE Plus(structural, Together(increments))

-----------------------------------------------------------------------------
(* ModificationTdg: refinements still to make, not costs.                   *)

Efforts(D) ==
  LET With(task) ==
        [task |-> task, children |-> [m \in DOMAIN D.methods |-> Total(OfSubtasks(D, m, task))]]
  IN  With(MinimumCosts(D, 1 .. D.tasks, DOMAIN D.methods,
                        [t \in DOMAIN D.actions |-> Cardinality(D.actions[t].pre)], 1))

RemainingEffort(D, E, p) == Plus(Len(p.open), Total(OfTasks(Compounds(D, p), E.task)))

\* Mutant of AfterRefinement: a link leaves the estimate as it is.
AfterRefinement_LinksFree(D, E, q, r, effort) ==
  IF effort >= CostCap THEN RemainingEffort(D, E, q)
  ELSE IF r.kind = "decompose" THEN Plus(effort - E.task[r.parent.task], E.children[r.method]) ELSE effort

\* The estimate of q, from that of the plan r refines; rebuilt when that one
\* is saturated.
AfterRefinement(D, E, q, r, effort) ==
  IF effort >= CostCap THEN RemainingEffort(D, E, q)
  ELSE CASE r.kind = "support" -> effort - 1
         [] r.kind = "order" -> effort
         [] r.kind = "decompose" -> Plus(effort - E.task[r.parent.task], E.children[r.method])

-----------------------------------------------------------------------------
(* UnitCyclePruner.                                                         *)

UnitMethods(D) == {m \in DOMAIN D.methods :
  Len(D.methods[m].subtasks) = 1 /\ ~ Primitive(D, D.methods[m].subtasks[1])}

RECURSIVE UnitDescendants(_, _)
UnitDescendants(D, ts) ==
  LET next == ts \cup {D.methods[m].subtasks[1] : m \in {n \in UnitMethods(D) : D.methods[n].task \in ts}}
  IN  IF next = ts THEN ts ELSE UnitDescendants(D, next)

SameComponent(D, t, u) == u \in UnitDescendants(D, {t}) /\ t \in UnitDescendants(D, {u})

CyclicMethods(D) == {m \in UnitMethods(D) : SameComponent(D, D.methods[m].task, D.methods[m].subtasks[1])}

\* The target stands above id, with nothing but unit methods of its component
\* between them.
RECURSIVE RoundTrip(_, _, _, _)
RoundTrip(D, history, id, target) ==
  LET above == SelectSeq(history, LAMBDA d : id \in {c.id : c \in ToSet(d.children)}) IN
  /\ above # <<>> /\ Len(above[1].children) = 1 /\ SameComponent(D, above[1].parent.task, target)
  /\ \/ above[1].parent.task = target
     \/ RoundTrip(D, history, above[1].parent.id, target)

UnitPrunes(D, p, parent, m) ==
  /\ m \in CyclicMethods(D)
  /\ LET target == D.methods[m].subtasks[1] IN
     target = parent.task \/ RoundTrip(D, p.history, parent.id, target)

-----------------------------------------------------------------------------
(* BoundCache: bounds by the multiset of active tasks, a bounded number of  *)
(* them, the oldest dropped first.                                          *)

EmptyCache == [fifo |-> <<>>, values |-> [k \in {} |-> 0]]

\* Mutant of CacheKey: repeated tasks count once.
CacheKey_Set(p) == SetToSortSeq(TasksOf(p), <)

CacheKey(p) == SortSeq([k \in DOMAIN p.tasks |-> p.tasks[k].task], <)

TaskIds(keys) == FoldLeft(LAMBDA sum, k : sum + Len(k), 0, keys)

RECURSIVE Evicted(_, _, _, _)
Evicted(fifo, room, maxEntries, maxTaskIds) ==
  IF Len(fifo) >= maxEntries \/ TaskIds(fifo) + room > maxTaskIds
  THEN Evicted(Tail(fifo), room, maxEntries, maxTaskIds) ELSE fifo

Inserted(cache, key, cost, maxEntries, maxTaskIds) ==
  IF maxEntries = 0 \/ Len(key) > maxTaskIds \/ key \in DOMAIN cache.values THEN cache
  ELSE LET fifo == Append(Evicted(cache.fifo, Len(key), maxEntries, maxTaskIds), key)
       IN  [fifo |-> fifo, values |-> [k \in ToSet(fifo) |-> IF k = key THEN cost ELSE cache.values[k]]]

=============================================================================
