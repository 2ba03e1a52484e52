---------------------------- MODULE PlanningTask ----------------------------
(***************************************************************************)
(* A ground planning task and what it means to execute actions: literals,  *)
(* conditions, effects with the link conditions strengthen_effects gives   *)
(* them (src/src/effect.rs, src/src/formula.rs), and the replay semantics  *)
(* of src/src/validate.rs.                                                 *)
(*                                                                         *)
(* A condition is kept in a normal form: a conjunction is a set of         *)
(* disjunctions, a disjunction a set of conjunctions of literals (cubes).  *)
(* {} is the true conjunction, {} inside one is the false disjunction.     *)
(***************************************************************************)
EXTENDS Integers, Sequences, FiniteSets, SequencesExt

CONSTANTS
  Atoms,        \* ground atoms
  Problems      \* the tasks: [acts, pre, effects, init, goal]

VARIABLE problem   \* the task in hand, fixed at the start

Actions   == problem.acts      \* ground actions
Pre       == problem.pre       \* action -> conjunction of disjunctions
Effects   == problem.effects   \* action -> set of [cond |-> cube, lit |-> literal]
InitAtoms == problem.init      \* the closed-world initial state
Goal      == problem.goal      \* conjunction of disjunctions

Literals == [atom : Atoms, pos : BOOLEAN]
Cubes == SUBSET Literals
Neg(l) == [l EXCEPT !.pos = ~ @]
Lit(a) == [atom |-> a, pos |-> TRUE]

ASSUME AtomsAssumption == IsFiniteSet(Atoms)

ASSUME TaskAssumption ==
  \A p \in Problems :
    /\ p.pre \in [p.acts -> SUBSET ((SUBSET Cubes) \ {{}})]
    /\ p.effects \in [p.acts -> SUBSET [cond : Cubes, lit : Literals]]
    /\ p.init \subseteq Atoms
    /\ p.goal \in SUBSET ((SUBSET Cubes) \ {{}})

(***************************************************************************)
(* strengthen_effects.  A delete counts only when no simultaneous add of   *)
(* the same atom fires; an effect that restates a literal of its own       *)
(* precondition never counts, and one that restates a literal of one       *)
(* disjunct counts only when that disjunct did not hold.                   *)
(* The answer is a conjunction of clauses, a clause a set of literals.     *)
(***************************************************************************)
NegatedCube(c) == {Neg(l) : l \in c}

AddSeparators(effects, e) ==
  IF e.lit.pos THEN {}
  ELSE {NegatedCube(f.cond) : f \in {g \in effects : g.lit = Neg(e.lit)}}

PreconditionSeparators(pre, e) ==
  UNION {IF \E c \in d : d = {c} /\ e.lit \in c
         THEN {{}}
         ELSE {NegatedCube(c) : c \in {k \in d : Cardinality(d) > 1 /\ e.lit \in k}}
         : d \in pre}

\* Everything that has to hold before the step for the effect to count: its
\* own condition and its link condition.
Guard(pre, effects, e) ==
  {{l} : l \in e.cond} \cup AddSeparators(effects, e) \cup PreconditionSeparators(pre, e)

\* A clause as a disjunction of one-literal cubes.
AsDisjunction(clause) == {{l} : l \in clause}

\* Mutant of Confrontation: the guard itself becomes the goal.
Confrontation_Same(guard) == guard

\* The negation of a guard, a disjunction of cubes.
Confrontation(guard) == {NegatedCube(clause) : clause \in guard}

-----------------------------------------------------------------------------
(* Execution, as is_executable_solution replays it.                         *)

Holds(l, state) == (l.atom \in state) = l.pos
HoldsDisjunction(d, state) == \E c \in d : \A l \in c : Holds(l, state)
HoldsAll(conj, state) == \A d \in conj : HoldsDisjunction(d, state)

\* All conditions read the state before the step; adds win over deletes.
Fired(a, state) == {e.lit : e \in {f \in Effects[a] : \A l \in f.cond : Holds(l, state)}}

Execute(a, state) ==
  (state \ {l.atom : l \in {k \in Fired(a, state) : ~ k.pos}})
     \cup {l.atom : l \in {k \in Fired(a, state) : k.pos}}

\* The states before, between and after the actions of a sequence.
States(acts) ==
  LET st[k \in 1 .. Len(acts) + 1] ==
        IF k = 1 THEN InitAtoms ELSE Execute(acts[k - 1], st[k - 1])
  IN  st

IsSolution(acts) ==
  LET st == States(acts) IN
  /\ \A k \in 1 .. Len(acts) : HoldsAll(Pre[acts[k]], st[k])
  /\ HoldsAll(Goal, st[Len(acts) + 1])

SolutionsUpTo(n) == {acts \in BoundedSeq(Actions, n) : IsSolution(acts)}

=============================================================================
