---------------------------- MODULE LiftedTask ----------------------------
(***************************************************************************)
(* A lifted planning task: action schemas over typed variables, as the     *)
(* parser leaves them (src/src/action.rs, effect.rs, formula.rs), their    *)
(* instantiation (src/src/instantiate.rs), and the execution of ground     *)
(* actions that the analyses of the other modules are measured by          *)
(* (src/src/validate.rs).                                                  *)
(*                                                                         *)
(* A term is an object or a variable, both names; an atom is a predicate   *)
(* followed by its terms; a substitution maps variables to objects.  A     *)
(* formula is a record whose "kind" says which other fields it has.        *)
(***************************************************************************)
EXTENDS Integers, Sequences, FiniteSets, SequencesExt

CONSTANT LiftedTasks   \* [preds, objects, schemas, init, goal]

VARIABLE task   \* the task in hand, fixed at the start

Objects(type) == task.objects[type]    \* the sequence of its objects
Schemas == DOMAIN task.schemas
Schema(k) == task.schemas[k]           \* [name, params, types, pre, effects, cost]

Truth == [kind |-> "true"]
Falsity == [kind |-> "false"]
IsAtom(a) == [kind |-> "atom", atom |-> a]
IsNot(a) == [kind |-> "not", atom |-> a]

(***************************************************************************)
(* conjoin_all and disjoin_all: nested lists are flattened, a part that    *)
(* decides the whole replaces it, a part without influence is dropped.     *)
(***************************************************************************)
Combined(fs, kind, neutral, deciding) ==
  LET parts == FlattenSeq([i \in DOMAIN fs |->
                 CASE fs[i] = neutral -> <<>>
                   [] fs[i].kind = kind -> fs[i].parts
                   [] OTHER -> <<fs[i]>>])
  IN  CASE \E i \in DOMAIN fs : fs[i] = deciding -> deciding
        [] Len(parts) = 0 -> neutral
        [] Len(parts) = 1 -> parts[1]
        [] OTHER -> [kind |-> kind, parts |-> parts]

Conjoin(fs) == Combined(fs, "and", Truth, Falsity)
Disjoin(fs) == Combined(fs, "or", Falsity, Truth)

Resolve(t, s) == IF t \in DOMAIN s THEN s[t] ELSE t
Instance(a, s) == [i \in DOMAIN a |-> Resolve(a[i], s)]

Bind(s, v, o) == [w \in DOMAIN s \cup {v} |-> IF w = v THEN o ELSE s[w]]

(***************************************************************************)
(* instantiate_formula_expanded.  A quantifier becomes the disjunction or  *)
(* the conjunction of its body over the objects of its variables' types;   *)
(* one that would exceed the budget is relaxed away.                       *)
(***************************************************************************)
ExpansionBudget == 4096

RECURSIVE Instances(_, _)
Instances(vars, types) ==
  IF vars = <<>> THEN 1
  ELSE Len(Objects(types[Head(vars)])) * Instances(Tail(vars), types)

RECURSIVE Expanded(_, _, _)
Expanded(f, s, types) ==
  CASE f.kind \in {"true", "false"} -> f
    [] f.kind \in {"atom", "not"} -> [f EXCEPT !.atom = Instance(@, s)]
    [] f.kind \in {"eq", "neq"} -> [f EXCEPT !.terms = Instance(@, s)]
    [] f.kind = "and" -> Conjoin([i \in DOMAIN f.parts |-> Expanded(f.parts[i], s, types)])
    [] f.kind = "or" -> Disjoin([i \in DOMAIN f.parts |-> Expanded(f.parts[i], s, types)])
    [] OTHER ->
         IF Instances(f.params, types) > ExpansionBudget THEN Truth
         ELSE IF f.params = <<>> THEN Expanded(f.body, s, types)
         ELSE LET v == Head(f.params)
                  parts == [i \in DOMAIN Objects(types[v]) |->
                              Expanded([f EXCEPT !.params = Tail(@)],
                                       Bind(s, v, Objects(types[v])[i]), types)]
              IN  IF f.kind = "exists" THEN Disjoin(parts) ELSE Conjoin(parts)

\* precondition_consistent: the (in)equalities that every state must satisfy.
RECURSIVE Consistent(_, _)
Consistent(f, s) ==
  CASE f.kind = "and" -> \A i \in DOMAIN f.parts : Consistent(f.parts[i], s)
    [] f.kind = "eq" -> Resolve(f.terms[1], s) = Resolve(f.terms[2], s)
    [] f.kind = "neq" -> Resolve(f.terms[1], s) # Resolve(f.terms[2], s)
    [] OTHER -> TRUE

\* collect_join_atoms: the positive conjuncts.
RECURSIVE JoinAtoms(_)
JoinAtoms(f) ==
  CASE f.kind = "atom" -> {f.atom}
    [] f.kind = "and" -> UNION {JoinAtoms(f.parts[i]) : i \in DOMAIN f.parts}
    [] OTHER -> {}

\* collect_entailed_atoms: those, and the ones in the body of an existential.
RECURSIVE Entailed(_)
Entailed(f) ==
  CASE f.kind = "atom" -> {f.atom}
    [] f.kind = "and" -> UNION {Entailed(f.parts[i]) : i \in DOMAIN f.parts}
    [] f.kind = "exists" -> Entailed(f.body)
    [] OTHER -> {}

\* The typed substitutions of a list of variables, on top of one for the rest.
RECURSIVE Substitutions(_, _, _)
Substitutions(vars, types, s) ==
  IF vars = <<>> THEN {s}
  ELSE UNION {Substitutions(Tail(vars), types, Bind(s, Head(vars), o)) :
                o \in Range(Objects(types[Head(vars)]))}

Nothing == [v \in {} |-> v]

\* The one element of a set: {F(v) : v \in {e}} evaluates e once.
The(set) == CHOOSE x \in set : TRUE

(***************************************************************************)
(* Execution.  A ground action is a schema with a substitution of its      *)
(* parameters.  Deletes come before adds; an effect counts when its guard  *)
(* holds before the action.                                                *)
(***************************************************************************)
RECURSIVE True(_, _)
True(f, state) ==
  CASE f.kind = "true" -> TRUE
    [] f.kind = "false" -> FALSE
    [] f.kind = "atom" -> f.atom \in state
    [] f.kind = "not" -> f.atom \notin state
    [] f.kind = "eq" -> f.terms[1] = f.terms[2]
    [] f.kind = "neq" -> f.terms[1] # f.terms[2]
    [] f.kind = "and" -> \A i \in DOMAIN f.parts : True(f.parts[i], state)
    [] OTHER -> \E i \in DOMAIN f.parts : True(f.parts[i], state)

GroundActions ==
  UNION {{[schema |-> k, s |-> s] : s \in Substitutions(Schema(k).params, Schema(k).types, Nothing)} :
           k \in Schemas}

Applicable(a, state) ==
  LET sch == Schema(a.schema) IN True(Expanded(sch.pre, a.s, sch.types), state)

\* The literals of the effects that fire, quantified ones once per substitution.
FiredEffects(a, state, negated) ==
  LET sch == Schema(a.schema)
  IN  UNION {{Instance(e.atom, s) :
                s \in {s \in Substitutions(e.params, sch.types, a.s) :
                         True(Expanded(e.cond, s, sch.types), state)}} :
               e \in {sch.effects[i] : i \in {i \in DOMAIN sch.effects : sch.effects[i].neg = negated}}}

Successor(a, state) ==
  (state \ FiredEffects(a, state, TRUE)) \cup FiredEffects(a, state, FALSE)
===========================================================================
