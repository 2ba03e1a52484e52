----------------------------- MODULE FdrAxioms -----------------------------
(***************************************************************************)
(* How a finite-domain task executes (the replay at the end of             *)
(* src/src/fdr_pocl.rs), axioms and all, and what a derived fact rests on  *)
(* (src/src/fdr.rs).                                                       *)
(***************************************************************************)
EXTENDS FdrTask

-----------------------------------------------------------------------------
(* Execution.                                                               *)

ApplyRule(s, r) ==
  IF s[r.var] = r.pre /\ \A f \in ToSet(r.cond) : Holds(f, s)
  THEN [s EXCEPT ![r.var] = r.post]
  ELSE s

RECURSIVE AxiomFixpoint(_, _)
AxiomFixpoint(T, s) ==
  LET t == FoldLeft(ApplyRule, s, T.axioms) IN IF t = s THEN s ELSE AxiomFixpoint(T, t)

\* close_axioms: derived variables start over from their default values.
CloseAxioms(T, s) ==
  AxiomFixpoint(T, [v \in Variables(T) |-> IF IsDerived(T, v) THEN DefaultValue(T, v) ELSE s[v]])

\* Every condition reads the state before the operator.
ApplyOperator(T, s, o) ==
  FoldLeft(LAMBDA t, e : IF \A f \in e.cond : Holds(f, s)
                         THEN [t EXCEPT ![e.var] = e.post] ELSE t,
           s, T.ops[o].effs)

\* The closed states before, between and after the operators of w.
Trace(T, w) ==
  FoldLeft(LAMBDA st, o : Append(st, CloseAxioms(T, ApplyOperator(T, st[Len(st)], o))),
           <<CloseAxioms(T, T.init)>>, w)

Executes(T, w) ==
  LET st == Trace(T, w) IN
  /\ \A k \in DOMAIN w : \A f \in T.ops[w[k]].pre : Holds(f, st[k])
  /\ \A f \in ToSet(T.goals) : Holds(f, st[Len(w) + 1])

-----------------------------------------------------------------------------
(* Derived facts as disjunctions of conjunctions of base facts.             *)

Consistent(fs) == \A f, g \in fs : f[1] = g[1] => f = g

AndDnf(left, right) == {c \in {l \cup r : l \in left, r \in right} : Consistent(c)}

OtherValues(T, f) ==
  LET vs == SetToSortSeq(Values(T, f[1]) \ {f[2]}, <) IN [k \in DOMAIN vs |-> <<f[1], vs[k]>>]

\* The facts one of which makes rule r false, in the order they are visited.
RuleDenials(T, r) == FlattenSeq([k \in DOMAIN r.cond |-> OtherValues(T, r.cond[k])])

\* The rules that decide fact f: for a default value every rule that sets the
\* variable to something else, otherwise the rules that set f.
DecidingRules(T, f) ==
  SelectSeq(T.axioms, LAMBDA r :
    r.var = f[1] /\ IF f[2] = DefaultValue(T, f[1]) THEN r.post # f[2] ELSE r.post = f[2])

(***************************************************************************)
(* support_fact.  `active` holds the facts in progress; a rule that leads   *)
(* back to one of them contributes nothing.  What was found is remembered   *)
(* for the rest of the call, whatever `active` was at the time.             *)
(***************************************************************************)
RECURSIVE SupportFact(_, _, _, _)
SupportFact(T, f, memo, active) ==
  IF f \in DOMAIN memo THEN [dnf |-> memo[f], memo |-> memo]
  ELSE IF ~ IsDerived(T, f[1]) THEN [dnf |-> {{f}}, memo |-> memo]
  ELSE IF f \in active THEN [dnf |-> {}, memo |-> memo]
  ELSE
    LET negative == f[2] = DefaultValue(T, f[1])
        visit(g, m) == SupportFact(T, g, m, active \cup {f})
        anyOf(b, g) == LET s == visit(g, b.memo) IN [dnf |-> b.dnf \cup s.dnf, memo |-> s.memo]
        allOf(b, g) == LET s == visit(g, b.memo) IN [dnf |-> AndDnf(b.dnf, s.dnf), memo |-> s.memo]
        denied(a, r) ==
          LET b == FoldLeft(anyOf, [dnf |-> {}, memo |-> a.memo], RuleDenials(T, r))
          IN  [dnf |-> AndDnf(a.dnf, b.dnf), memo |-> b.memo]
        applied(a, r) ==
          LET b == FoldLeft(allOf, [dnf |-> {{}}, memo |-> a.memo], r.cond)
          IN  [dnf |-> a.dnf \cup b.dnf, memo |-> b.memo]
        result ==
          IF negative
          THEN FoldLeft(denied, [dnf |-> {{}}, memo |-> memo], DecidingRules(T, f))
          ELSE FoldLeft(applied, [dnf |-> {}, memo |-> memo], DecidingRules(T, f))
    IN  [dnf |-> result.dnf,
         memo |-> [g \in DOMAIN result.memo \cup {f} |->
                     IF g = f THEN result.dnf ELSE result.memo[g]]]

DerivedSupports(T, f) == SupportFact(T, f, [g \in {} |-> {}], {}).dnf

=============================================================================
