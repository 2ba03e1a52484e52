----------------------------- MODULE HtnSearch -----------------------------
(***************************************************************************)
(* The queue over hierarchical refinements (src/src/htn/search.rs) and the *)
(* independent check of what it answers (validate.rs).  One step takes one *)
(* node off the queue: it is evaluated and perhaps queued again, or it is  *)
(* answered, or its children are queued.                                   *)
(*                                                                         *)
(* A configuration is a record                                             *)
(*   problem                                                               *)
(*   strategy  "BreadthFirst", "AStar" or "Greedy"                         *)
(*   flaws     "DecompositionFirst", "Interleaved" or "Systematic"         *)
(*   tdg       "Static", "Recompute", "Lazy" or "LazyCached"               *)
(*   tie       "Fifo", "LargerG" or "Modification"                         *)
(*   options   which of {"unit", "support", "relaxed", "deadline"} are on  *)
(*   nodeLimit, maxDepth  numbers, or NoLimit                              *)
(* Statistics are left out.  The caches of the support and relaxed bounds  *)
(* answer functions of their keys and are left out too.                    *)
(***************************************************************************)
EXTENDS HtnBounds

CONSTANTS Configs, CacheEntries, CacheTaskIds, NoLimit

ASSUME CacheAssumption == CacheEntries \in Nat /\ CacheTaskIds \in Nat

VARIABLES config,     \* an index of Configs
          index,      \* the problem and the tables built before the search
          queue,      \* nodes [plan, h, pending, secondary, serial]
          generated,
          cut,        \* what was cut off: a subset of {"depth", "cost"}
          cache,      \* the bound cache
          outcome
vars == <<config, index, queue, generated, cut, cache, outcome>>

-----------------------------------------------------------------------------
(* Certificates [steps, decompositions].                                    *)

DecompositionsOf(cert, t) == SelectSeq(cert.decompositions, LAMBDA d : d.parent = t)

\* Everything below the pending occurrences, or {} when the tree is broken:
\* an occurrence met twice, a leaf that is no step, a decomposition that is
\* not its method's.
RECURSIVE TreeOf(_, _, _, _)
TreeOf(D, cert, pending, seen) ==
  IF pending = <<>> THEN seen
  ELSE LET t == pending[1]
           ds == DecompositionsOf(cert, t)
           sound == IF Primitive(D, t.task) THEN t \in ToSet(cert.steps)
                    ELSE /\ Len(ds) = 1
                         /\ D.methods[ds[1].method].task = t.task
                         /\ [k \in DOMAIN ds[1].children |-> ds[1].children[k].task]
                              = D.methods[ds[1].method].subtasks
       IN  IF ~ sound \/ \E s \in seen : s.id = t.id THEN {}
           ELSE TreeOf(D, cert, (IF Primitive(D, t.task) THEN <<>> ELSE ds[1].children) \o Tail(pending),
                       seen \cup {t})

\* The positions at which the steps below t are executed.
RECURSIVE Positions(_, _, _)
Positions(D, cert, t) ==
  IF Primitive(D, t.task) THEN {k \in DOMAIN cert.steps : cert.steps[k] = t}
  ELSE UNION {Positions(D, cert, s) : s \in ToSet(DecompositionsOf(cert, t)[1].children)}

RECURSIVE After(_, _)
After(edges, ks) ==
  LET next == ks \cup {e[2] : e \in {x \in edges : x[1] \in ks}} IN IF next = ks THEN ks ELSE After(edges, next)

\* A child precedes all that follows it in its method, through empty ones too.
KeepsOrderings(D, cert, d) ==
  LET edges == D.methods[d.method].orderings
      at(k) == Positions(D, cert, d.children[k])
  IN  \A a \in DOMAIN d.children :
        \A b \in After(edges, {e[2] : e \in {x \in edges : x[1] = a}}) :
          \A x \in at(a), y \in at(b) : x < y

State(D, steps, k) ==
  FoldLeft(LAMBDA s, t : (s \ D.actions[t.task].del) \cup D.actions[t.task].add, D.init, SubSeq(steps, 1, k))

Valid(D, cert) ==
  LET tree == TreeOf(D, cert, <<[id |-> 1, task |-> D.root]>>, {}) IN
  /\ Cardinality({t.id : t \in ToSet(cert.steps)}) = Len(cert.steps)
  /\ Cardinality(tree) = Len(cert.steps) + Len(cert.decompositions)
  /\ \A d \in ToSet(cert.decompositions) : KeepsOrderings(D, cert, d)
  /\ \A k \in DOMAIN cert.steps : D.actions[cert.steps[k].task].pre \subseteq State(D, cert.steps, k - 1)
  /\ D.goal \subseteq State(D, cert.steps, Len(cert.steps))

CertificateCost(D, cert) == FoldLeft(LAMBDA sum, t : sum + D.actions[t.task].cost, 0, cert.steps)

-----------------------------------------------------------------------------
(* What is built before the search.                                         *)

NeedsIndex(C) ==
  \/ C.flaws # "DecompositionFirst" \/ C.strategy # "BreadthFirst" \/ C.tdg # "Static"
  \/ C.options \cap {"support", "relaxed"} # {}

Index(c) ==
  LET Over(problem) ==
        [D |-> problem, G |-> IF NeedsIndex(c) THEN Tdg(problem) ELSE NoIndex, E |-> Efforts(problem)]
  IN  Over(Normalized(c.problem))

C == Configs[config]
D == index.D
G == index.G
Modification == index.E

Tie == IF C.strategy = "AStar" THEN C.tie ELSE "Fifo"
Cached == C.tdg = "LazyCached"

-----------------------------------------------------------------------------
(* Bounds of a plan.                                                        *)

Both(a, b) == IF Unreachable \in {a, b} THEN Unreachable ELSE Greatest({a, b})

FreshBound(p) ==
  IF "relaxed" \in C.options THEN Both(RelaxedCost(D, G, TasksOf(p)), RecomputedCost(D, G, p))
  ELSE RecomputedCost(D, G, p)

\* Evaluator::bound and the cache it leaves.
Bound(known, p) ==
  LET With(key, bound) ==
        [bound |-> bound,
         cache |-> IF Cached THEN Inserted(known, key, bound, CacheEntries, CacheTaskIds) ELSE known]
      At(key) == With(key, IF Cached /\ key \in DOMAIN known.values THEN known.values[key] ELSE FreshBound(p))
  IN  At(CacheKey(p))

Saturating(a, b) == IF a >= b THEN a - b ELSE 0

SupportPart(p) == IF "support" \in C.options THEN SupportCost(D, G, p) ELSE 0

InitialBound(p) ==
  LET relaxed == IF "relaxed" \in C.options /\ C.tdg = "Static" THEN RelaxedCost(D, G, TasksOf(p)) ELSE 0
      With(first) == [first EXCEPT !.bound = Both(@, Both(SupportPart(p), relaxed))]
  IN  With(IF C.tdg # "Static" THEN Bound(EmptyCache, p)
           ELSE [bound |-> IF G = NoIndex THEN 0 ELSE StructuralCost(D, G, p), cache |-> EmptyCache])

\* The parent's bound on the total cost, less what moved into the plan's cost.
Carried(h, spent) == Saturating(h, spent)

\* The bound a child is queued with, and what is left to evaluate when it is
\* popped.  `panics` is the expectation of a single method.
ChildBound(known, n, r, q) ==
  LET spent == q.cost - n.plan.cost
      single == Len(MethodsOf(D, r.parent.task)) = 1
      relaxed == IF "relaxed" \in C.options /\ r.kind = "decompose" THEN {"relaxed"} ELSE {}
      structural == IF G = NoIndex THEN 0 ELSE StructuralCost(D, G, q)
      Answer(h, pending) == [bound |-> h, pending |-> pending, cache |-> known, panics |-> FALSE]
      Eager(b) == [Answer(b.bound, {}) EXCEPT !.cache = b.cache]
      First ==
        IF r.kind # "decompose" THEN Answer(n.h, {})
        ELSE IF C.tdg = "Static" THEN Answer(structural, relaxed)
        ELSE IF single THEN [Answer(Saturating(n.h, spent), relaxed) EXCEPT !.panics = n.h < spent]
        ELSE IF C.tdg \in {"Lazy", "LazyCached"}
        THEN Answer(Greatest({structural, Carried(n.h, spent)}), relaxed \cup {"tdg"})
        ELSE Eager(Bound(known, q))
      carried == IF "relaxed" \in C.options THEN Carried(n.h, spent) ELSE 0
  IN  [First EXCEPT !.bound = Both(Both(@, carried), SupportPart(q))]

-----------------------------------------------------------------------------
(* The queue.                                                               *)

\* An action-cost priority, secondary guidance, then the order of arrival.
Priority(n) ==
  CASE C.strategy = "BreadthFirst" -> <<0, 0, n.serial>>
    [] C.strategy = "AStar" -> <<n.plan.cost + n.h, n.secondary, n.serial>>
    [] C.strategy = "Greedy" -> <<n.h, n.secondary, n.serial>>

Precedes(x, y) ==
  \E k \in 1 .. 3 : x[k] < y[k] /\ \A i \in 1 .. k - 1 : x[i] = y[i]

Popped == CHOOSE n \in queue : \A m \in queue \ {n} : Precedes(Priority(n), Priority(m))

Secondary(p, fallback) ==
  CASE Tie = "Fifo" -> 0
    [] Tie = "LargerG" -> CostCap - 1 - p.cost
    [] Tie = "Modification" -> fallback

Running == [kind |-> "Running"]
Stopped(reason) == [kind |-> "Stopped", reason |-> reason]
Failure(reason) == [kind |-> "Error", reason |-> reason]

CostOptimal == C.strategy = "AStar" /\ "depth" \notin cut

Answered(p) ==
  LET With(cert) ==
        IF ~ Valid(D, cert) THEN Failure("invalid")
        ELSE IF CertificateCost(D, cert) # p.cost THEN Failure("cost")
        ELSE [kind |-> "Solved", plan |-> p, cost |-> p.cost, optimal |-> CostOptimal]
  IN  With([steps |-> Linearization(p), decompositions |-> p.history])

-----------------------------------------------------------------------------
Init ==
  /\ config \in {c \in DOMAIN Configs : Accepted(Configs[c].problem)}
  /\ index = Index(C)
  /\ queue = {} /\ generated = 0 /\ cut = {} /\ cache = EmptyCache
  /\ outcome = [kind |-> "Starting"]

RootNode(p, bound) ==
  [plan |-> p, h |-> bound, pending |-> {}, serial |-> 0,
   secondary |-> Secondary(p, RemainingEffort(D, Modification, p))]

Start ==
  /\ outcome.kind = "Starting"
  /\ UNCHANGED <<config, index, cut>>
  /\ \E p \in {InitialPlan(D)} : \E first \in {InitialBound(p)} :
       IF C.nodeLimit = 0
       THEN outcome' = Stopped("NodeLimit") /\ UNCHANGED <<queue, generated, cache>>
       ELSE /\ generated' = 1 /\ cache' = first.cache
            /\ outcome' = IF first.bound = Unreachable THEN [kind |-> "NoSolution"]
                          ELSE IF p.cost + first.bound >= CostCap THEN Failure("overflow") ELSE Running
            /\ queue' = IF outcome' = Running THEN {RootNode(p, first.bound)} ELSE {}

\* What a popped node's deferred evaluation comes to.
Evaluation(n) ==
  CASE "tdg" \in n.pending -> Bound(cache, n.plan)
    [] n.pending = {"relaxed"} -> [bound |-> RelaxedCost(D, G, TasksOf(n.plan)), cache |-> cache]
    [] n.pending = {} -> [bound |-> n.h, cache |-> cache]

\* A raised bound competes again before it is expanded or answered.
Reevaluate ==
  /\ outcome = Running /\ queue # {}
  /\ \E n \in {Popped} : n.pending # {} /\ \E now \in {Evaluation(n)} :
       /\ \/ now.bound = Unreachable /\ queue' = queue \ {n} /\ cut' = cut
          \/ /\ now.bound # Unreachable /\ n.plan.cost + now.bound >= CostCap
             /\ queue' = queue \ {n} /\ cut' = cut \cup {"cost"}
          \/ /\ n.plan.cost + now.bound < CostCap /\ now.bound > n.h /\ C.strategy # "BreadthFirst"
             /\ queue' = (queue \ {n}) \cup {[n EXCEPT !.h = now.bound, !.pending = {}]} /\ cut' = cut
       /\ cache' = now.cache
  /\ UNCHANGED <<config, index, generated, outcome>>

\* One refinement of n.  s holds what the loop has changed so far.
WithChild(n, s, r) ==
  LET serial == s.generated + 1
      Node(q, b) ==
        [plan |-> q, h |-> b.bound, pending |-> b.pending, serial |-> serial,
         secondary |-> Secondary(q, AfterRefinement(D, Modification, q, r, n.secondary))]
      Bounded(q, b) ==
        IF b.panics THEN [s EXCEPT !.outcome = Failure("panic")]
        ELSE IF b.bound = Unreachable THEN [s EXCEPT !.cache = b.cache]
        ELSE IF q.cost + b.bound >= CostCap THEN [s EXCEPT !.cache = b.cache, !.cut = @ \cup {"cost"}]
        ELSE [s EXCEPT !.cache = b.cache, !.generated = serial, !.queue = @ \cup {Node(q, b)}]
      Refined(q) ==
        IF q = Overflow THEN [s EXCEPT !.outcome = Failure("overflow")]
        ELSE IF q = NoPlan THEN s
        ELSE IF C.maxDepth # NoLimit /\ q.depth > C.maxDepth THEN [s EXCEPT !.cut = @ \cup {"depth"}]
        ELSE IF s.generated = C.nodeLimit THEN [s EXCEPT !.outcome = Stopped("NodeLimit")]
        ELSE Bounded(q, ChildBound(s.cache, n, r, q))
      Replaced(cost) ==
        IF r.kind = "decompose" /\ cost = Unreachable THEN s
        ELSE IF r.kind = "decompose" /\ cost >= CostCap THEN [s EXCEPT !.cut = @ \cup {"cost"}]
        ELSE Refined(Apply(D, n.plan, r))
  IN
  IF s.outcome # Running THEN s
  ELSE IF r.kind = "decompose" /\ "unit" \in C.options /\ UnitPrunes(D, n.plan, r.parent, r.method) THEN s
  ELSE Replaced(IF G = NoIndex \/ r.kind # "decompose" THEN 0
                ELSE ReplacementCost(D, G, n.plan, r.parent, r.method))

\* A complete plan is answered; otherwise its refinements are queued.
Answer(n, left) ==
  /\ outcome' = Answered(n.plan)
  /\ queue' = queue \ {n} /\ cache' = left /\ UNCHANGED <<generated, cut>>

Branch(n, h, left) ==
  LET start == [queue |-> queue \ {n}, generated |-> generated, cut |-> cut, cache |-> left,
                outcome |-> Running]
      evaluated == [n EXCEPT !.h = h, !.pending = {}]
  IN
  \E done \in {FoldLeft(LAMBDA s, r : WithChild(evaluated, s, r), start, Refinements(D, n.plan, C.flaws, G))} :
    /\ queue' = done.queue /\ generated' = done.generated /\ cut' = done.cut
    /\ cache' = done.cache /\ outcome' = done.outcome

Expand ==
  /\ outcome = Running /\ queue # {}
  /\ \E n \in {Popped} : \E now \in {Evaluation(n)} :
       /\ now.bound # Unreachable /\ n.plan.cost + now.bound < CostCap
       /\ now.bound <= n.h \/ C.strategy = "BreadthFirst"
       /\ IF Complete(D, n.plan, C.flaws) THEN Answer(n, now.cache)
          ELSE Branch(n, Greatest({n.h, now.bound}), now.cache)
  /\ UNCHANGED <<config, index>>

Exhausted ==
  IF "depth" \in cut THEN Stopped("DepthLimit")
  ELSE IF "cost" \in cut THEN Failure("overflow") ELSE [kind |-> "NoSolution"]

Exhaust ==
  /\ outcome = Running /\ queue = {}
  /\ outcome' = Exhausted
  /\ UNCHANGED <<config, index, queue, generated, cut, cache>>

DeadlinePasses ==
  /\ "deadline" \in C.options /\ outcome.kind \in {"Starting", "Running"}
  /\ outcome' = Stopped("Deadline")
  /\ UNCHANGED <<config, index, queue, generated, cut, cache>>

Next == Start \/ Reevaluate \/ Expand \/ Exhaust \/ DeadlinePasses

Spec == Init /\ [][Next]_vars

=============================================================================
