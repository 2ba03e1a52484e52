------------------------------- MODULE MCHtn -------------------------------
(***************************************************************************)
(* Small hierarchical problems for HtnSearch, and what is checked of every *)
(* moment of their searches.  A witness of a problem is a decomposition    *)
(* tree of the root and an order of its primitive leaves that is executable*)
(* and keeps the methods' orderings; trees are enumerated down to a depth. *)
(***************************************************************************)
EXTENDS HtnSearch

Act(cost, pre, add, del) == [cost |-> cost, pre |-> pre, add |-> add, del |-> del]
Method(task, subtasks, orderings) == [task |-> task, subtasks |-> subtasks, orderings |-> orderings]

\* Two errands need the same key and one of them gives it up; it is fetched
\* in either of two ways, or not at all when the other errand has left it.
Errands ==
  [actions |-> <<Act(2, {}, {"key"}, {}), Act(1, {}, {"key", "noise"}, {"key"}),
                 Act(1, {"key"}, {"a"}, {"key"}), Act(1, {"key"}, {"b"}, {})>>,
   tasks |-> 7, init |-> {}, goal |-> {"a", "b"}, root |-> 5,
   methods |-> <<Method(5, <<7, 3, 6>>, {<<1, 2>>}), Method(6, <<7, 4>>, {<<1, 2>>}),
                 Method(7, <<1>>, {}), Method(7, <<2>>, {}), Method(7, <<>>, {})>>]

\* The same compound twice; "p" holds at the start, is deleted and made again.
Twice ==
  [actions |-> <<Act(1, {"p"}, {"q"}, {"p"}), Act(3, {}, {"p"}, {}), Act(0, {"q"}, {"r"}, {"q"})>>,
   tasks |-> 6, init |-> {"p"}, goal |-> {"r"}, root |-> 4,
   methods |-> <<Method(4, <<5, 5, 6>>, {<<1, 3>>, <<2, 3>>}), Method(5, <<1, 3>>, {}),
                 Method(5, <<2>>, {}), Method(6, <<>>, {}), Method(6, <<1>>, {})>>]

\* An empty method between two ordered children; the only method of the root
\* costs something; one way of making "x" cannot be executed.
Bridge ==
  [actions |-> <<Act(2, {}, {"x"}, {}), Act(1, {"never"}, {"x"}, {}), Act(1, {"x"}, {"y"}, {}),
                 Act(1, {}, {}, {"x"})>>,
   tasks |-> 8, init |-> {}, goal |-> {"y"}, root |-> 5,
   methods |-> <<Method(5, <<6, 7, 8, 4>>, {<<1, 2>>, <<2, 3>>}), Method(6, <<1>>, {}), Method(6, <<2>>, {}),
                 Method(7, <<>>, {}), Method(8, <<3>>, {})>>]

\* Unary round trips (5 to 6 and back), below a branching method as well.
Circles ==
  [actions |-> <<Act(1, {}, {"x"}, {}), Act(2, {"x"}, {"y"}, {})>>,
   tasks |-> 6, init |-> {}, goal |-> {"x"}, root |-> 5,
   methods |-> <<Method(5, <<6>>, {}), Method(6, <<5>>, {}), Method(6, <<1>>, {}), Method(3, <<4>>, {}),
                 Method(5, <<3, 4>>, {}), Method(4, <<1>>, {}), Method(3, <<>>, {})>>]

\* Task 3 never ends.  The dear way is the only one, or is beyond the cap.
Dear(c) ==
  [actions |-> <<Act(c, {}, {"x"}, {}), Act(1, {"x"}, {"y"}, {})>>,
   tasks |-> 5, init |-> {}, goal |-> {"y"}, root |-> 4,
   methods |-> <<Method(3, <<3, 2>>, {}), Method(4, <<3>>, {}), Method(4, <<1, 1, 5>>, {}), Method(5, <<2>>, {}),
                 Method(5, <<2, 2>>, {})>>]

\* The cheap way takes more refinements than the dear one.
Shortcut ==
  [actions |-> <<Act(5, {}, {"x"}, {}), Act(1, {}, {"x"}, {})>>,
   tasks |-> 6, init |-> {}, goal |-> {"x"}, root |-> 3,
   methods |-> <<Method(3, <<1>>, {}), Method(3, <<4>>, {}), Method(4, <<5>>, {}), Method(5, <<2>>, {}),
                 Method(5, <<6>>, {}), Method(6, <<2, 2>>, {<<1, 2>>})>>]

\* One compound three times, each to be made in one of two ways.
Thrice ==
  [actions |-> <<Act(1, {}, {"x"}, {}), Act(3, {}, {"y"}, {})>>,
   tasks |-> 4, init |-> {}, goal |-> {"x"}, root |-> 3,
   methods |-> <<Method(3, <<4, 4, 4>>, {<<1, 2>>}), Method(4, <<1>>, {}), Method(4, <<2>>, {})>>]

Hopeless == [Bridge EXCEPT !.goal = {"y", "never"}]

\* A method whose orderings are cyclic is refused.
Refused == [Bridge EXCEPT !.methods[1].orderings = {<<1, 2>>, <<2, 1>>}]

Config(problem, strategy, flaws, tdg, tie, options) ==
  [problem |-> problem, strategy |-> strategy, flaws |-> flaws, tdg |-> tdg, tie |-> tie, options |-> options,
   nodeLimit |-> NoLimit, maxDepth |-> NoLimit]

MCConfigs ==
  <<Config(Errands, "AStar", "Systematic", "Static", "Fifo", {}),
    Config(Errands, "AStar", "Systematic", "LazyCached", "Modification", {"support", "relaxed"}),
    Config(Errands, "AStar", "Interleaved", "Lazy", "LargerG", {"support"}),
    Config(Errands, "BreadthFirst", "DecompositionFirst", "Static", "Fifo", {"deadline"}),
    Config(Errands, "Greedy", "Systematic", "Recompute", "Fifo", {"relaxed"}),
    Config(Twice, "AStar", "Systematic", "LazyCached", "Fifo", {}),
    Config(Twice, "AStar", "Systematic", "Static", "Modification", {"support", "relaxed"}),
    Config(Twice, "BreadthFirst", "Systematic", "Lazy", "Fifo", {}),
    Config(Twice, "AStar", "Interleaved", "Recompute", "Fifo", {"deadline"}),
    Config(Thrice, "AStar", "Interleaved", "LazyCached", "Modification", {"relaxed"}),
    Config(Thrice, "Greedy", "DecompositionFirst", "LazyCached", "Fifo", {}),
    Config(Bridge, "AStar", "Systematic", "Recompute", "LargerG", {"relaxed"}),
    Config(Bridge, "AStar", "DecompositionFirst", "LazyCached", "Fifo", {}),
    Config(Bridge, "BreadthFirst", "DecompositionFirst", "Static", "Fifo", {}),
    Config(Hopeless, "AStar", "Systematic", "Static", "Fifo", {"relaxed"}),
    Config(Hopeless, "Greedy", "Interleaved", "Lazy", "Fifo", {}),
    Config(Refused, "AStar", "Systematic", "Static", "Fifo", {}),
    Config(Dear(4), "AStar", "Systematic", "Static", "Fifo", {}),
    Config(Dear(12), "AStar", "Systematic", "Lazy", "Fifo", {"support"}),
    Config(Dear(12), "BreadthFirst", "DecompositionFirst", "Static", "Fifo", {}),
    Config(Circles, "AStar", "Systematic", "Static", "Fifo", {"unit"}),
    Config(Circles, "BreadthFirst", "DecompositionFirst", "Static", "Fifo", {"unit"}),
    Config(Circles, "AStar", "Systematic", "LazyCached", "Modification", {"unit", "support"}),
    [Config(Circles, "AStar", "Systematic", "Static", "Fifo", {}) EXCEPT !.maxDepth = 4],
    [Config(Shortcut, "AStar", "Systematic", "Static", "Fifo", {}) EXCEPT !.maxDepth = 3],
    [Config(Shortcut, "AStar", "Interleaved", "Lazy", "Fifo", {"relaxed"}) EXCEPT !.maxDepth = 1],
    [Config(Errands, "AStar", "Systematic", "Static", "Fifo", {}) EXCEPT !.maxDepth = 6],
    [Config(Errands, "BreadthFirst", "Systematic", "Static", "Fifo", {}) EXCEPT !.nodeLimit = 9],
    [Config(Twice, "AStar", "Systematic", "Static", "Fifo", {}) EXCEPT !.nodeLimit = 0]>>

-----------------------------------------------------------------------------
(* Witnesses.                                                               *)

TreeDepth == 4

\* A tree is a function from paths, sequences of positions, to [task, method];
\* method 0 marks a leaf.
Placed(k, tree) == [path \in {<<k>> \o s : s \in DOMAIN tree} |-> tree[Tail(path)]]

RECURSIVE Trees(_, _, _)
Trees(P, t, depth) ==
  IF Primitive(P, t) THEN {(<<>> :> [task |-> t, method |-> 0])}
  ELSE IF depth = 0 THEN {}
  ELSE UNION {LET below == P.methods[m].subtasks
                  extend(ts, k) == {x @@ Placed(k, y) : x \in ts, y \in Trees(P, below[k], depth - 1)}
              IN  FoldLeft(extend, {(<<>> :> [task |-> t, method |-> m])}, [k \in DOMAIN below |-> k])
                : m \in ToSet(MethodsOf(P, t))}

Leaves(tree) == {path \in DOMAIN tree : tree[path].method = 0}
Below(path, s) == IsPrefix(path, s)

\* Leaf s of the tree must precede leaf u.
Precedence(P, tree) ==
  UNION {UNION {{x \in Leaves(tree) \X Leaves(tree) : Below(Append(path, e[1]), x[1]) /\ Below(Append(path, e[2]), x[2])}
                : e \in UNION {{<<a, b>> : b \in After(edges, {e[2] : e \in {x \in edges : x[1] = a}})}
                                 : a \in DOMAIN P.methods[tree[path].method].subtasks}}
         : <<path, edges>> \in {<<s, P.methods[tree[s].method].orderings>> : s \in DOMAIN tree \ Leaves(tree)}}

\* The executable orders of the leaves that keep the precedences.
RECURSIVE Runs(_, _, _, _, _)
Runs(P, tree, before, left, state) ==
  IF left = {} THEN IF P.goal \subseteq state THEN {<<>>} ELSE {}
  ELSE UNION {LET a == P.actions[tree[s].task] IN
              {<<s>> \o run : run \in Runs(P, tree, before, left \ {s}, (state \ a.del) \cup a.add)}
                : s \in {l \in left : /\ P.actions[tree[l].task].pre \subseteq state
                                      /\ ~ \E u \in left : <<u, l>> \in before}}

RunCost(P, tree, run) == FoldLeft(LAMBDA sum, s : sum + P.actions[tree[s].task].cost, 0, run)

Witnesses(P) ==
  UNION {{[tree |-> tree, run |-> run, cost |-> RunCost(P, tree, run)]
            : run \in Runs(P, tree, Precedence(P, tree), Leaves(tree), P.init)}
         : tree \in Trees(P, P.root, TreeDepth)}

AllWitnesses == [c \in DOMAIN Configs |->
  IF Accepted(Configs[c].problem) THEN Witnesses(Normalized(Configs[c].problem)) ELSE {}]

\* Those whose cost can be represented.
WitnessesOf == [c \in DOMAIN Configs |-> {w \in AllWitnesses[c] : w.cost < CostCap}]

\* The place of each occurrence of p in the tree of its root.
Paths(p) ==
  FoldLeft(LAMBDA at, d : at @@ [id \in {c.id : c \in ToSet(d.children)} |->
                                   Append(at[d.parent.id], id - d.children[1].id + 1)],
           (1 :> <<>>), Reverse(p.history))

\* When an occurrence, the initial state or the goal stands in the run.
At(w, at, id) ==
  IF id = InitId THEN 0 ELSE IF id = GoalId THEN Len(w.run) + 1
  ELSE CHOOSE k \in DOMAIN w.run : w.run[k] = at[id]

Adds(P, w, k, f) == f \in P.actions[w.tree[w.run[k]].task].add
Deletes(P, w, k, f) == f \in P.actions[w.tree[w.run[k]].task].del

\* The last achiever of f before position k, 0 for the initial state.
LastAchiever(P, w, k, f) == Greatest({i \in 1 .. k - 1 : Adds(P, w, i, f)})

\* The plan p keeps the witness w.
Keeps(p, w) ==
  LET Following(at) ==
        LET Positions0(id) == {k \in DOMAIN w.run : Below(at[id], w.run[k])} IN
        /\ \A d \in ToSet(p.history) : at[d.parent.id] \in DOMAIN w.tree /\ w.tree[at[d.parent.id]].method = d.method
        /\ \A t \in ToSet(p.tasks) : at[t.id] \in DOMAIN w.tree /\ w.tree[at[t.id]].task = t.task
        /\ \A s, t \in {a.id : a \in ToSet(p.tasks)} : OrderedBefore(p.ord, s, t) =>
             \A x \in Positions0(s), y \in Positions0(t) : x < y
        /\ \A l \in ToSet(p.links) :
             \A from \in {At(w, at, l.producer)}, to \in {At(w, at, l.consumer)} :
               /\ from < to
               /\ ~ \E k \in from + 1 .. to - 1 :
                    \/ Deletes(D, w, k, l.fact)
                    \/ C.flaws = "Systematic" /\ Adds(D, w, k, l.fact)
        /\ p.focus # NoFocus =>
             \E k \in {LastAchiever(D, w, At(w, at, p.focus.open.consumer), p.focus.open.fact)} \ {0} :
               \E t \in ToSet(p.focus.candidates) : Below(at[t.id], w.run[k])
  IN  Following(Paths(p))

TasksIn(w) == [k \in DOMAIN w.run |-> w.tree[w.run[k]].task]

-----------------------------------------------------------------------------
Searching == outcome.kind = "Running"

\* While a search runs, some queued plan keeps every witness, and systematic
\* flaw selection keeps it in exactly one (the partition refine.rs argues
\* for).  With unary round trips pruned, some witness with the same steps is
\* kept; below a depth limit, witnesses may be cut off.
WitnessesKept ==
  Searching =>
    \A witnesses \in {WitnessesOf[config]} :
      \A kept \in {[w \in witnesses |-> Cardinality({n \in queue : Keeps(n.plan, w)})]} :
        IF "unit" \in C.options
        THEN \A w \in witnesses : \E v \in witnesses : TasksIn(v) = TasksIn(w) /\ kept[v] # 0
        ELSE \A w \in witnesses :
               /\ kept[w] # 0 \/ "depth" \in cut
               /\ C.flaws = "Systematic" => kept[w] <= 1

\* No bound a node waits with exceeds what completing its plan costs
\* (structural, recomputed, carried over, support and h_max together).
BoundsAdmissible ==
  \A n \in queue : \A w \in WitnessesOf[config] :
    Keeps(n.plan, w) => n.plan.cost + n.h <= w.cost

\* A solution is one of the problem's, and none is cheaper when it is called
\* optimal; NoSolution is answered of problems that have none; no answer
\* fails the search's own checks.
AnswersAreTrue ==
  CASE outcome.kind = "Solved" ->
         /\ \E w \in WitnessesOf[config] : Keeps(outcome.plan, w) /\ w.cost = outcome.cost
         /\ outcome.optimal => \A w \in WitnessesOf[config] : outcome.cost <= w.cost
    [] outcome.kind = "NoSolution" ->
         AllWitnesses[config] = {}
    [] outcome.kind = "Error" -> outcome.reason = "overflow"
    [] OTHER -> TRUE

\* What the bound cache holds is what a fresh evaluation of any queued plan
\* with that key gives, and it stays within its size through evictions.
CacheIsTrue ==
  /\ \A n \in queue : CacheKey(n.plan) \in DOMAIN cache.values =>
       cache.values[CacheKey(n.plan)] = FreshBound(n.plan)
  /\ Len(cache.fifo) <= CacheEntries /\ TaskIds(cache.fifo) <= CacheTaskIds
  /\ DOMAIN cache.values = ToSet(cache.fifo)

\* A node waits with a bound that is one, and with the one it would be given
\* again.
BoundsAreTrue == BoundsAdmissible /\ CacheIsTrue

\* The effort kept up refinement by refinement is that of the plan.
EffortIsExact ==
  Tie = "Modification" =>
    \A n \in queue : n.secondary = RemainingEffort(D, Modification, n.plan)

=============================================================================
