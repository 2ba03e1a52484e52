--------------------------- MODULE LiftedDomains ---------------------------
(***************************************************************************)
(* What may stand at the parameters of a schema: one domain per parameter, *)
(* propagated through preconditions and effects                            *)
(* (src/src/param_domains.rs), and the complete relation of the tuples     *)
(* that are relaxed-reachable, computed whole or as the product of         *)
(* independent groups of parameters (src/src/planning_graph.rs).           *)
(***************************************************************************)
EXTENDS PlanningGraph

CONSTANTS
  CellBudget,   \* cells all relations together may hold: 2^21 in the code
  Unlimited     \* marks a domain no constraint is known for: ArgDomain::Any

-----------------------------------------------------------------------------
(* Independent domains.  A domain is a set; Unlimited in it stands for Any. *)

Permits(d, o) == Unlimited \in d \/ o \in d
UnionWith(d, e) == IF Unlimited \in d \cup e THEN {Unlimited} ELSE d \cup e
IntersectWith(d, e) ==
  IF Unlimited \in e THEN d ELSE IF Unlimited \in d THEN e ELSE d \cap e

Parameters(k) == Range(Schema(k).params)
Occurrences(k) == Entailed(Schema(k).pre)

\* What a schema's parameters are limited to: the occurrences they all share.
Intersected(individual, k, p) ==
  FoldSet(LAMBDA a, d : IntersectWith(d, individual[k][a][p]), {Unlimited},
          {a \in Occurrences(k) : p \in Range(a)})

\* A quantified variable, or anything else that is no parameter, stays open.
Position(inter, k, t) ==
  CASE t \in Parameters(k) -> inter[k][t]
    [] t \in DOMAIN Schema(k).types -> {Unlimited}
    [] OTHER -> {t}

Viable(inter, k) == \A p \in Parameters(k) : inter[k][p] # {}

\* Mutant of Productions: conditional effects thought to produce nothing.
Productions_Certain(inter) ==
  {[i \in DOMAIN a |-> {a[i]}] : a \in task.init}
    \cup UNION {{[i \in DOMAIN e.atom |-> Position(inter, k, e.atom[i])] :
                   e \in {e \in Range(Schema(k).effects) : ~e.neg /\ e.cond = Truth}} :
                 k \in {k \in Schemas : Viable(inter, k)}}

Productions(inter) ==
  {[i \in DOMAIN a |-> IF i = 1 THEN {a[1]} ELSE {a[i]}] : a \in task.init}
    \cup UNION {{[i \in DOMAIN e.atom |-> Position(inter, k, e.atom[i])] :
                   e \in {e \in Range(Schema(k).effects) : ~e.neg}} :
                 k \in {k \in Schemas : Viable(inter, k)}}

Matching(k, a, production) ==
  /\ Len(production) = Len(a) /\ production[1] = {a[1]}
  /\ \A i \in 2 .. Len(a) :
        IF a[i] \in DOMAIN Schema(k).types THEN production[i] # {} ELSE Permits(production[i], a[i])

Grown(individual, productions) ==
  [k \in Schemas |-> [a \in Occurrences(k) |-> [p \in Parameters(k) |->
     FoldSet(LAMBDA d, e : UnionWith(e, d), individual[k][a][p],
             UNION {{production[i] : i \in {i \in DOMAIN a : a[i] = p}} :
                      production \in {q \in productions : Matching(k, a, q)}})]]]

\* Every parameter starts out unlimited, every occurrence empty.
RECURSIVE Saturated(_, _)
Saturated(individual, inter) ==
  LET Limits(next) == [k \in Schemas |-> [p \in Parameters(k) |-> Intersected(next, k, p)]]
  IN  The({The({IF next = individual THEN limits ELSE Saturated(next, limits) : limits \in {Limits(next)}}) :
             next \in {Grown(individual, Productions(inter))}})

ParameterDomains ==
  Saturated([k \in Schemas |-> [a \in Occurrences(k) |-> [p \in Parameters(k) |-> {}]]],
            [k \in Schemas |-> [p \in Parameters(k) |-> {Unlimited}]])

PermitsArguments(limits, a) ==
  \A p \in Parameters(a.schema) : Permits(limits[a.schema][p], a.s[p])

PositionsCanAgree(limits, k, p, l, q) ==
  \/ Unlimited \in limits[k][p] \cup limits[l][q]
  \/ limits[k][p] \cap limits[l][q] # {}

-----------------------------------------------------------------------------
(* Joint relations.                                                         *)

\* The conjuncts; a simple conjunction has literals only.
RECURSIVE Clauses(_)
Clauses(f) ==
  IF f.kind = "and" THEN UNION {Clauses(f.parts[i]) : i \in DOMAIN f.parts} ELSE {f}

Simple(f) == \A c \in Clauses(f) : c.kind \notin {"or", "exists", "forall"}

ClauseTerms(c) ==
  CASE c.kind \in {"atom", "not"} -> Range(c.atom)
    [] c.kind \in {"eq", "neq"} -> Range(c.terms)
    [] OTHER -> {}

\* Parameters that a clause mentions together stay together.
RECURSIVE Together(_, _)
Together(group, clauses) ==
  LET more == group \cup UNION {ClauseTerms(c) : c \in {c \in clauses : ClauseTerms(c) \cap group # {}}}
  IN  IF more = group THEN group ELSE Together(more, clauses)

\* parameter_components, as sets of parameters; {} when there are not two.
Components(k) ==
  LET clauses == Clauses(Schema(k).pre)
      groups == {Together({p}, clauses) \cap Parameters(k) : p \in Parameters(k)}
  IN  IF Len(Schema(k).params) \in 2 .. 8 /\ Simple(Schema(k).pre) /\ Cardinality(groups) > 1
      THEN groups ELSE {}

\* A clause without parameters is evaluated in the first group.
GroupClauses(k, group) ==
  LET first == Head(Schema(k).params) \in group
  IN  {c \in Clauses(Schema(k).pre) :
         LET own == ClauseTerms(c) \cap Parameters(k)
         IN  IF own = {} THEN first ELSE own \subseteq group}

GroupTuples(g, k, group) ==
  LET sch == Schema(k)
      params == SelectSeq(sch.params, LAMBDA p : p \in group)
      pre == Conjoin(SetToSeq(GroupClauses(k, group)))
  IN  Reachable(g, [sch EXCEPT !.params = params, !.pre = pre])

RECURSIVE Product(_)
Product(factors) ==
  IF factors = {} THEN {Nothing}
  ELSE LET f == CHOOSE f \in factors : TRUE
       IN  {[p \in DOMAIN s \cup DOMAIN t |-> IF p \in DOMAIN s THEN s[p] ELSE t[p]] :
              s \in f, t \in Product(factors \ {f})}

Tuples(g, k) ==
  IF Components(k) = {} THEN Reachable(g, Schema(k))
  ELSE Product({GroupTuples(g, k, group) : group \in Components(k)})

\* Schemas take from the budget in order; what does not fit is left out whole.
RECURSIVE Relations(_, _, _)
Relations(g, k, cells) ==
  IF k > Len(task.schemas) THEN <<>>
  ELSE LET arity == IF Schema(k).params = <<>> THEN 1 ELSE Len(Schema(k).params)
           Fits(rows) == cells > 0 /\ Cardinality(rows) * arity <= cells
       IN  The({IF Fits(rows) THEN <<rows>> \o Relations(g, k + 1, cells - Cardinality(rows) * arity)
                ELSE <<{Unlimited}>> \o Relations(g, k + 1, cells) : rows \in {Tuples(g, k)}})

JointParameterDomains(g) == Relations(g, 1, CellBudget)
===========================================================================
