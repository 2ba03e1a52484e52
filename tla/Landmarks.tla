----------------------------- MODULE Landmarks -----------------------------
(***************************************************************************)
(* Lifted landmarks (src/src/landmarks.rs): atoms some instance of which   *)
(* every plan makes true, found by going back from the goal through what   *)
(* all achievers require; and, from the transition graphs of the mutex     *)
(* groups (src/src/fam_cut.rs), sets of actions every plan takes one of.   *)
(*                                                                         *)
(* A partial atom is an atom with Free where no object is pinned; a        *)
(* landmark's index is the landmark itself.  The budgets (512 landmarks,   *)
(* 64 rounds, 256 nodes, 16 cuts) are out of reach of the tasks.           *)
(***************************************************************************)
EXTENDS LiftedMutexes

CONSTANT Free   \* a position no object is pinned at

Pinned(k, a) == [i \in DOMAIN a |-> IF a[i] \in DOMAIN Schema(k).types THEN Free ELSE a[i]]

\* matches_ground; could_match is the same once a step's terms are objects.
MatchesGround(landmark, a) ==
  Len(landmark) = Len(a) /\ \A i \in DOMAIN a : landmark[i] \in {Free, a[i]}

-----------------------------------------------------------------------------
(* Going back.                                                              *)

\* A substitution as a function; <<>> when the terms clash with the objects.
BindTerm(k, s, term, object) ==
  CASE s = <<>> \/ object = Free -> s
    [] term \notin DOMAIN Schema(k).types -> IF term = object THEN s ELSE <<>>
    [] term \in DOMAIN s[1] -> IF s[1][term] = object THEN s ELSE <<>>
    [] OTHER -> <<Bind(s[1], term, object)>>

BindAtom(k, s, a, objects) ==
  IF Len(a) # Len(objects) \/ a[1] # objects[1] THEN <<>>
  ELSE FoldLeft(LAMBDA acc, i : BindTerm(k, acc, a[i], objects[i]), s,
                [i \in 1 .. Len(a) - 1 |-> i + 1])

\* The requirements of every way a schema has to add the subgoal.
MatchingAdds(subgoal) ==
  UNION {{[schema |-> k, s |-> BindAtom(k, <<Nothing>>, a, subgoal)] :
            a \in {a \in Certain(k, FALSE) : BindAtom(k, <<Nothing>>, a, subgoal) # <<>>}} :
           k \in Schemas}

Requirements(k, s) == {Pinned(k, Instance(a, s)) : a \in Entailed(Schema(k).pre)}

\* intersect: the predicates all lists mention, pinned where all agree.
Agreed(atoms) ==
  LET one == CHOOSE a \in atoms : TRUE
  IN  [i \in DOMAIN one |-> IF \A a \in atoms : a[i] = one[i] THEN one[i] ELSE Free]

\* Mutant of Intersect: a predicate that one achiever requires is a landmark.
Intersect_Any(lists) ==
  LET some == {p \in DOMAIN task.preds : \E l \in lists : \E a \in l : a[1] = p}
  IN  {Agreed({a \in UNION lists : a[1] = p}) : p \in some}

Intersect(lists) ==
  LET shared == {p \in DOMAIN task.preds : \A l \in lists : \E a \in l : a[1] = p}
  IN  IF lists = {} THEN {} ELSE {Agreed({a \in UNION lists : a[1] = p}) : p \in shared}

NecessarySubgoals(subgoal) ==
  Intersect({Requirements(add.schema, add.s[1]) : add \in MatchingAdds(subgoal)})

-----------------------------------------------------------------------------
(* Cuts.  An instance is a mutex group with its parameters pinned.  The     *)
(* code takes the first group that fits, fewest parts first.                *)

\* The objects an instance wants at the arguments of one of its parts.
Wanted(params, part) ==
  [i \in DOMAIN part |->
     CASE i = 1 -> part[1]
       [] part[i] = Counted -> Free
       [] part[i][1] = "const" -> part[i][2]
       [] OTHER -> params[part[i][2]]]

\* A free position matches no parameter and no constant.
Fits(part, landmark) ==
  /\ Matches(part, landmark)
  /\ \A i \in 2 .. Len(part) : part[i] # Counted => landmark[i] # Free

Instancing(groups, landmark) ==
  {inst \in UNION {{[parts |-> group.parts, arity |-> group.arity, params |-> Match(part, landmark, Nothing)[1]] :
                      part \in {part \in group.parts : Fits(part, landmark)}} : group \in groups} :
     DOMAIN inst.params = 1 .. inst.arity}

InstanceOf(groups, landmark) ==
  LET fitting == Instancing(groups, landmark)
  IN  CHOOSE inst \in fitting :
        \A other \in fitting : Cardinality(inst.parts) <= Cardinality(other.parts)

Covers(inst, p) == \E part \in inst.parts : part[1] = p

Holds(inst, a) ==
  \E part \in inst.parts : part[1] = a[1] /\ MatchesGround(Wanted(inst.params, part), a)

InitialValues(inst) == {a \in task.init : Holds(inst, a)}

GroupAtoms(inst, k, neg) == {a \in Certain(k, neg) : Covers(inst, a[1])}

\* transitions: a schema that may move the instance in no certain way.
Abandoned(inst) ==
  \E k \in Schemas : \/ \E p \in Uncertain(k) : Covers(inst, p)
                     \/ GroupAtoms(inst, k, FALSE) # {} /\ GroupAtoms(inst, k, TRUE) = {}

\* bind: the extensions of s that make the atom a value of the instance.
Valued(inst, k, a, s) ==
  {t \in {BindAtom(k, <<s>>, a, Wanted(inst.params, part)) : part \in inst.parts} : t # <<>>}

Alternative(k, s) ==
  [schema |-> k,
   args |-> [i \in DOMAIN Schema(k).params |->
               IF Schema(k).params[i] \in DOMAIN s THEN s[Schema(k).params[i]] ELSE Free]]

\* The edges out of a value: a delete that denotes it, paired with every add.
EdgesFrom(inst, from) ==
  LET Leaving(k) == UNION {UNION {{t \in {BindAtom(k, s, d, from)} : t # <<>>} :
                                    s \in Valued(inst, k, d, Nothing)} :
                             d \in GroupAtoms(inst, k, TRUE)}
      Into(k, a, s) == {<<from, Pinned(k, Instance(a, t[1])), Alternative(k, t[1])>> :
                          t \in Valued(inst, k, a, s)}
  IN  UNION {UNION {UNION {Into(k, a, s[1]) : a \in GroupAtoms(inst, k, FALSE)} : s \in Leaving(k)} :
               k \in Schemas}

\* build: everything the instance can become.
RECURSIVE Edges(_, _, _)
Edges(inst, frontier, edges) ==
  IF frontier = {} THEN edges
  ELSE LET explored == frontier \cup {e[1] : e \in edges}
       IN  The({Edges(inst, {e[2] : e \in new} \ explored, edges \cup new) :
                  new \in {UNION {EdgesFrom(inst, v) : v \in frontier}}})

Unifiable(l, r) ==
  Len(l) = Len(r) /\ \A i \in DOMAIN l : l[i] = r[i] \/ Free \in {l[i], r[i]}

RECURSIVE ReachableValues(_, _, _)
ReachableValues(edges, seen, blocked) ==
  The({IF more = {} THEN seen ELSE ReachableValues(edges, seen \cup more, blocked) :
         more \in {{e[2] : e \in {e \in edges : e[1] \in seen}} \ (seen \cup blocked)}})

\* cut: the cuts between the initial value and the target, the target's first.
RECURSIVE Cut(_, _, _)
Cut(edges, initial, blocked) ==
  IF initial \in blocked THEN <<>>
  ELSE LET Crossing(reach) == {e \in edges : e[1] \in reach /\ e[2] \in blocked}
       IN  The({IF crossing = {} THEN <<>>
                ELSE <<{e[3] : e \in crossing}>> \o Cut(edges, initial, blocked \cup {e[1] : e \in crossing}) :
                  crossing \in {Crossing(ReachableValues(edges, {initial}, blocked))}})

Cuts(groups, landmark) ==
  IF Instancing(groups, landmark) = {} THEN <<>>
  ELSE LET inst == InstanceOf(groups, landmark)
       IN  IF Abandoned(inst) \/ InitialValues(inst) = {} THEN <<>>
           ELSE LET Nodes(initial, edges) == {initial} \cup {e[2] : e \in edges}
                    From(initial) ==
                      The({Cut(edges, initial, {v \in Nodes(initial, edges) : Unifiable(v, landmark)}) :
                             edges \in {Edges(inst, {initial}, {})}})
                IN  From(CHOOSE a \in InitialValues(inst) : TRUE)

\* shared_preconditions: what all alternatives of a cut require.
SharedPreconditions(cut) ==
  Intersect({Requirements(alt.schema,
               [p \in {Schema(alt.schema).params[i] : i \in {i \in DOMAIN alt.args : alt.args[i] # Free}} |->
                  alt.args[CHOOSE i \in DOMAIN alt.args : Schema(alt.schema).params[i] = p]]) :
               alt \in cut})

-----------------------------------------------------------------------------
(* Extraction: both ways in turn until nothing is new.                      *)

Consecutive(cuts) == {<<cuts[i + 1], cuts[i]>> : i \in 1 .. Len(cuts) - 1}

RECURSIVE ExtractWith(_, _, _)
ExtractWith(lm, frontier, groups) ==
  IF frontier = {} THEN lm
  ELSE LET subgoals == UNION {{<<q, p>> : q \in NecessarySubgoals(p)} : p \in frontier}
           cuts == {Cuts(groups, p) : p \in frontier}
           new == {o[1] : o \in subgoals}
                    \cup UNION {UNION {SharedPreconditions(c[i]) : i \in DOMAIN c} : c \in cuts}
       IN  The({ExtractWith(next, next.facts \ lm.facts, groups) :
                  next \in {[facts |-> lm.facts \cup new,
                             orderings |-> lm.orderings \cup subgoals,
                             actions |-> lm.actions \cup UNION {Range(c) : c \in cuts},
                             actionOrderings |-> lm.actionOrderings \cup UNION {Consecutive(c) : c \in cuts}]}})

GoalLandmarks ==
  {[i \in DOMAIN a |-> IF a[i] \in UNION {Range(Objects(t)) : t \in DOMAIN task.objects} \cup DOMAIN task.preds
                       THEN a[i] ELSE Free] : a \in Entailed(task.goal)}

\* extract_with_mutexes; without groups, extract.
Extract(groups) ==
  ExtractWith([facts |-> GoalLandmarks, orderings |-> {}, actions |-> {}, actionOrderings |-> {}],
              GoalLandmarks, groups)

-----------------------------------------------------------------------------
(* Counting.  A step is a schema with what its parameters are bound to,     *)
(* Free where they are not; atoms are those of the initial step.            *)

CouldMatch(landmark, a) ==
  Len(landmark) = Len(a) /\ \A i \in DOMAIN a : landmark[i] \in {Free, a[i]} \/ a[i] = Free

Achieved(landmark, steps) ==
  \/ \E a \in task.init : MatchesGround(landmark, a)
  \/ \E step \in steps : \E a \in Certain(step.schema, FALSE) :
        CouldMatch(landmark, Pinned(step.schema, Instance(a, step.s)))

MatchesStep(alt, step) ==
  /\ alt.schema = step.schema
  /\ \A i \in DOMAIN alt.args :
        LET bound == step.s[Schema(step.schema).params[i]]
        IN  Free \in {alt.args[i], bound} \/ alt.args[i] = bound

AchievedAction(cut, steps) == \E step \in steps, alt \in cut : MatchesStep(alt, step)

\* propagate: what is ordered after something open is open.
RECURSIVE Propagate(_, _)
Propagate(orderings, open) ==
  The({IF more = {} THEN open ELSE Propagate(orderings, open \cup more) :
         more \in {{o[2] : o \in {o \in orderings : o[1] \in open}} \ open}})

Count(lm, steps, ordered) ==
  LET facts == {p \in lm.facts : ~Achieved(p, steps)}
      actions == {c \in lm.actions : ~AchievedAction(c, steps)}
  IN  IF ordered
      THEN Cardinality(Propagate(lm.orderings, facts)) + Cardinality(Propagate(lm.actionOrderings, actions))
      ELSE Cardinality(facts) + Cardinality(actions)
=============================================================================
