----------------------------- MODULE FdrPlanner -----------------------------
(***************************************************************************)
(* The planner of src/src/fdr_pocl.rs with its tables, its tests of a      *)
(* child and its estimates: what the constants of FdrPocl stand for.       *)
(***************************************************************************)
EXTENDS FdrPocl, FdrPruning, FdrEstimates, FdrMutexes, FdrAxioms

\* Achievers of a fact; with supporter checks, only those whose requirements
\* can hold together.
Achievers(T, prune, mutex, f) ==
  {a \in UNION {{o} \X DOMAIN T.ops[o].effs : o \in Operators(T)} :
     /\ Assignment(T.ops[a[1]].effs[a[2]]) = f
     /\ prune \cap {"supporters", "h2"} # {} =>
          ~ Inconsistent(mutex, BaseFacts(T, Requirements(T, a[1], a[2])))}

\* How often the reachability table may be swept: the work limit is that of
\* the build, and "limited" marks a task for which it is spent after one sweep.
Sweeps(prune) == IF "limited" \in prune THEN 1 ELSE 1000

\* with_action_cost and with_pruning_params
BuiltTables(T, prune) ==
  LET derived == {f \in Facts(T) : IsDerived(T, f[1])}
      Mutex(reach) == [mutexes |-> MutexPairs(T, reach), unreachable |-> Unreachable(T, reach)]
      With(mutex, supports, sources) ==
        [T |-> T, prune |-> prune, supports |-> supports, base |-> BaseValues(T, supports),
         sources |-> sources, mutexes |-> mutex.mutexes, unreachable |-> mutex.unreachable,
         achievers |-> [f \in Facts(T) \ derived |-> Achievers(T, prune, mutex, f)],
         extraRequirements |-> T.axioms # <<>> \/ HasConditionalEffects(T),
         graph |-> FactGraph(T), lmcut |-> LmCutActions(T, supports),
         landmarks |-> FactLandmarks(T, sources)]
      From(mutex, supports) ==
        With(mutex, supports,
             {[op |-> s.op, pre |-> s.pre, cost |-> s.cost, fact |-> s.fact] :
                s \in ToSet(Sources(T, supports))})
      At(reach) == From(Mutex(reach), [f \in derived |-> DerivedSupports(T, f)])
  IN  At(IF "h2" \in prune THEN H2(T, Sweeps(prune)) ELSE AllPairs(T))

\* The tests every child passes before it is stored.
PassesTests(P, p, term) == ~ Discarded(P, p) /\ Rank(P, p, term) < Inf

=============================================================================
