---------------------------- MODULE MCJointDomains ----------------------------
(* Small tasks for JointDomains: two steps with two parameters each, three  *)
(* objects of two types, and pairs of relations: products, which are kept   *)
(* in factors, and others.                                                  *)
EXTENDS JointDomains

CONSTANTS x, y, z, w, a, b, o, any, sub, p, q

MCStepVars == {x, y, z, w}
MCObjects == {a, b, o}
MCStepOf == (x :> 1 @@ y :> 1 @@ z :> 2 @@ w :> 2)
MCTypes == {any, sub}
MCSub == {<<any, any>>, <<sub, sub>>, <<sub, any>>}
MCVarType == (x :> any @@ y :> sub @@ z :> any @@ w :> sub)
MCObjType == (a :> any @@ b :> sub @@ o :> sub)
\* Two bindings on the first branch and one on the second.
MCBranchBindings == <<2, 1>>

MCTermsOf == <<<<x, y>>, <<z, w>>>>

Grid == {a, b} \X {b, o}
Swap == {<<b, o>>, <<o, b>>}
Steps3 == {<<a, b>>, <<b, b>>, <<b, o>>, <<o, o>>}
Fan == {<<a, b>>, <<a, o>>, <<o, b>>}

MCTables == {(p :> s @@ q :> t) : <<s, t>> \in
  {<<Grid, Swap>>, <<Steps3, Fan>>, <<Steps3, None>>}}

Eq(v, t) == <<[var |-> v, term |-> t, eq |-> TRUE]>>
Neq(v, t) == <<[var |-> v, term |-> t, eq |-> FALSE]>>

MCBatches ==
  {Eq(x, a), Eq(y, b), Eq(x, y), Eq(x, z), Eq(y, w), Neq(x, y), Neq(x, z), Neq(y, w), Neq(y, b)}
   \cup {Eq(x, z) \o Neq(y, w)}
=============================================================================
