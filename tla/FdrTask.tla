------------------------------ MODULE FdrTask ------------------------------
(***************************************************************************)
(* Grounded finite-domain tasks (src/src/fdr.rs).  A task is a record      *)
(*                                                                         *)
(*   size    values of each variable: variable v has 0 .. size[v] - 1      *)
(*   groups  declared mutex groups, sets of facts                          *)
(*   init    a value for each variable                                     *)
(*   goals   a sequence of facts                                           *)
(*   ops     operators [pre, effs, cost, args]; pre is what                *)
(*           Operator::preconditions returns, prevail facts and the old    *)
(*           values of effects together, and an effect is [cond, var, post]*)
(*   axioms  rules [cond, var, pre, post], in the translator's order       *)
(*   classes sequences of interchangeable objects, in declaration order    *)
(*                                                                         *)
(* A fact is <<variable, value>>.  Conditions of effects are sets.         *)
(***************************************************************************)
EXTENDS Integers, Sequences, FiniteSets, SequencesExt

Variables(T) == DOMAIN T.size
Values(T, v) == 0 .. T.size[v] - 1
Facts(T) == UNION {{v} \X Values(T, v) : v \in Variables(T)}
Operators(T) == DOMAIN T.ops

Assignment(e) == <<e.var, e.post>>
Holds(f, s) == s[f[1]] = f[2]

IsDerived(T, v) == \E k \in DOMAIN T.axioms : T.axioms[k].var = v
DefaultValue(T, v) == T.size[v] - 1

BaseFacts(T, fs) == {f \in fs : ~ IsDerived(T, f[1])}

HasConditionalEffects(T) == \E o \in Operators(T) : \E e \in ToSet(T.ops[o].effs) : e.cond # {}

\* A set as a sequence: in an order, or in any.
SortedBy(S, Before(_, _)) ==
  [k \in 1 .. Cardinality(S) |-> CHOOSE x \in S : Cardinality({y \in S : Before(y, x)}) = k - 1]

\* The elements of a sequence that are in a set, in order.
Among(s, S) ==
  LET kept[k \in 0 .. Len(s)] ==
        IF k = 0 THEN <<>> ELSE IF s[k] \in S THEN Append(kept[k - 1], s[k]) ELSE kept[k - 1]
  IN  kept[Len(s)]

=============================================================================
