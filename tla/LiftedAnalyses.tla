--------------------------- MODULE LiftedAnalyses ---------------------------
(***************************************************************************)
(* What the lifted analyses say about a task, beside every execution of    *)
(* the task up to MaxSteps actions.  The tables are computed once, before  *)
(* the search (src/src/bin/potoroo.rs builds them next to the planning     *)
(* graph); the search relies on them in every plan it refines, so they     *)
(* must be true of every state the task can reach.                         *)
(***************************************************************************)
EXTENDS LiftedDomains, Landmarks

CONSTANT MaxSteps   \* actions executed

VARIABLES
  graph,      \* planning_graph.rs: the fixpoint, its relations in some order
  limits,     \* param_domains.rs: one domain per parameter
  joint,      \* planning_graph.rs: one relation per schema
  groups,     \* lifted_mutex.rs: the mutex groups
  landmarks,  \* landmarks.rs: fact and action landmarks with their orderings
  state,      \* the atoms true now
  path        \* the actions executed, each with the state it was applied in

tables == <<task, graph, limits, joint, groups, landmarks>>
vars == <<tables, state, path>>

Init ==
  /\ task \in LiftedTasks
  /\ graph \in Indexed(Graph)
  /\ limits = ParameterDomains
  /\ joint = JointParameterDomains(graph)
  /\ groups = MutexGroups
  /\ landmarks = Extract(groups)
  /\ state = task.init
  /\ path = <<>>

Execute(a) ==
  /\ Len(path) < MaxSteps
  /\ Applicable(a, state)
  /\ state' = Successor(a, state)
  /\ path' = Append(path, [action |-> a, before |-> state])
  /\ UNCHANGED tables

Next == \E a \in GroundActions : Execute(a)

Spec == Init /\ [][Next]_vars

-----------------------------------------------------------------------------
(* Vocabulary of the properties.                                            *)

AllObjects == UNION {Range(Objects(t)) : t \in DOMAIN task.objects}
Siblings(o) == UNION {Range(Objects(t)) : t \in {t \in DOMAIN task.objects : o \in Range(Objects(t))}}

\* Every atom some state of the path, or the goal, is about.
Mentioned == state \cup task.init \cup UNION {path[i].before : i \in DOMAIN path}

\* An open condition with its positions in "open" still unbound.
Names == <<"?0", "?1", "?2", "?3">>
Opened(a, open) == [i \in DOMAIN a |-> IF i \in open THEN Names[i] ELSE a[i]]
Unbound(a, open) ==
  [v \in {Names[i] : i \in open} |-> Siblings(a[CHOOSE i \in open : Names[i] = v])]

Reached == True(Expanded(task.goal, Nothing, [v \in {} |-> v]), state)

InitiallyHeld(p) == \E a \in task.init : MatchesGround(p, a)
AddedBy(a) == {Instance(e, a.s) : e \in Certain(a.schema, FALSE)}
TakenFrom(cut, a) ==
  \E alt \in cut : MatchesStep(alt, a)

(***************************************************************************)
(* The planning graph never sees too little: an atom that became true, or  *)
(* false, within n actions has a finite value with a layer of at most n    *)
(* more than the initial one; a condition that asks for it with positions  *)
(* still unbound is no dearer, in whichever order the relation is scanned; *)
(* and it costs nothing where the executed actions may be reused           *)
(* (planning_graph.rs, lookups through the bindings of a plan).  Nothing   *)
(* is promised of the layer of an unbound condition: the scan ends at the  *)
(* first free atom, and that may be one of a late layer.                   *)
(***************************************************************************)
GraphCoversStates ==
  \A a \in Mentioned :
    LET Literal(b) == IF a \in state THEN IsAtom(b) ELSE IsNot(b)
        instance == FormulaValue(graph, Literal(a), Unbound(a, {}))
        Seen(open) ==
          LET bound == Unbound(a, open)
              literal == Literal(Opened(a, open))
          IN  /\ FormulaValue(graph, literal, bound).cost <= instance.cost
              /\ ~IsInfinite(FormulaValue(graph, literal, bound))
              /\ IsZero(ReuseValue(graph, literal, bound, {path[i].action : i \in DOMAIN path}))
    IN  /\ instance.layer <= Len(path) + 1
        /\ \A open \in SUBSET (2 .. Len(a)) : Seen(open)

(***************************************************************************)
(* No parameter value that an execution uses is pruned: the independent    *)
(* domains admit the arguments of every applied action, and the relation   *)
(* of its schema, when the budget kept it, contains their tuple; and two   *)
(* parameters that denoted one object are not said to be unable to agree   *)
(* (param_domains.rs; planning_graph.rs, the joint relations).             *)
(***************************************************************************)
ArgumentsKept ==
  \A i \in DOMAIN path :
    LET a == path[i].action
    IN  /\ PermitsArguments(limits, a)
        /\ joint[a.schema] # {Unlimited} => a.s \in joint[a.schema]
        /\ \A b \in {path[j].action : j \in 1 .. i} :
              \A p \in Parameters(a.schema), q \in Parameters(b.schema) :
                 a.s[p] = b.s[q] => PositionsCanAgree(limits, a.schema, p, b.schema, q)

(***************************************************************************)
(* No reached state holds two atoms the mutex groups declare exclusive,    *)
(* and no two of its atoms share a group instance (lifted_mutex.rs).       *)
(***************************************************************************)
MutexesHold ==
  /\ ~Inconsistent(groups, state)
  /\ \A a, b \in state : a = b \/ GroupKeys(groups, a) \cap GroupKeys(groups, b) = {}

(***************************************************************************)
(* A landmark that an action makes true for the first time had an instance *)
(* of every landmark ordered before it true until then, and the path up to *)
(* there crossed every cut taken for it (landmarks.rs, fam_cut.rs).        *)
(***************************************************************************)
LandmarksAreNecessary ==
  LET last == path[Len(path)]
  IN  path # <<>> =>
        \A p \in landmarks.facts :
          /\ ~InitiallyHeld(p)
          /\ \E a \in AddedBy(last.action) : MatchesGround(p, a)
          => /\ \A o \in landmarks.orderings :
                   o[2] = p => \E a \in last.before : MatchesGround(o[1], a)
             /\ \A cut \in Range(Cuts(groups, p)) :
                   \E i \in DOMAIN path : TakenFrom(cut, path[i].action)

\* What is needed: the goal, what was needed before a needed landmark that
\* does not start true, and what all actions of a needed cut require.
RECURSIVE Needed(_)
Needed(facts) ==
  LET before == {o[1] : o \in {o \in landmarks.orderings : o[2] \in facts /\ ~InitiallyHeld(o[2])}}
      shared == UNION {UNION {SharedPreconditions(c) : c \in Range(Cuts(groups, p))} : p \in facts}
  IN  The({IF more = facts THEN facts ELSE Needed(more) : more \in {facts \cup before \cup shared}})

BackchainsSoundly ==
  /\ \A p \in landmarks.facts \ Needed(GoalLandmarks) : InitiallyHeld(p)
  /\ \A p \in landmarks.facts, k \in Schemas : p[1] \notin Uncertain(k)

(***************************************************************************)
(* Where backchaining applies, nothing is outstanding once the goal is     *)
(* reached, so the count never sends a search away from a solution         *)
(* (landmarks.rs, count and outstanding).                                  *)
(***************************************************************************)
NothingOutstandingAtGoal ==
  Reached /\ BackchainsSoundly =>
    Count(landmarks, {path[i].action : i \in DOMAIN path}, TRUE) = 0

(* A landmark is necessary, and one that was achieved is not asked for.     *)
LandmarksAreTrue == LandmarksAreNecessary /\ NothingOutstandingAtGoal

(***************************************************************************)
(* Every relaxed plan extracted for the goal is no dearer than the         *)
(* additive estimate, and without free actions it reaches the goal from    *)
(* what costs nothing and what the committed steps add, when deletes and   *)
(* guards are ignored (planning_graph.rs, RELAX and RELAXR).  Two actions  *)
(* that cost nothing may be chosen as each other's cheapest achiever, and  *)
(* such a plan reaches nothing.                                            *)
(***************************************************************************)
RECURSIVE Closure(_, _)
Closure(atoms, chosen) ==
  The({IF more = atoms THEN atoms ELSE Closure(more, chosen) :
         more \in {atoms \cup UNION {Adds(a) : a \in {a \in chosen : PreAtoms(a) \subseteq atoms}}}})

RelaxedPlanReaches ==
  LET Literals == {c \in Clauses(task.goal) : c.kind = "atom"}
      goals == UNION {GoalAtoms(graph, c, Nothing) : c \in Literals}
      reused == UNION {Adds(path[i].action) : i \in DOMAIN path}
  IN  \A chosen \in Extracted(graph, goals, {}, {}, reused, ReachableActions(graph)) :
        /\ (\A a \in chosen : Schema(a.schema).cost > 0) =>
              goals \subseteq Closure(reused \cup {a \in DOMAIN graph.pos : IsZero(graph.pos[a])}, chosen)
        /\ RelaxedPlanSize(chosen) <= FoldSet(LAMBDA a, c : AddSat(c, GroundAtomValue(graph, a).cost), 0, goals)
=============================================================================
