----------------------------- MODULE MCBindings -----------------------------
(* Small collections for Bindings: three variables of two steps, of two     *)
(* types one below the other, and two objects.  The caps on the table are   *)
(* small enough to be reached.                                              *)
EXTENDS Bindings

CONSTANTS x, y, z, a, b, any, sub

MCStepVars == {x, y, z}
MCObjects == {a, b}
MCStepOf == (x :> 1 @@ y :> 1 @@ z :> 0)
MCTypes == {any, sub}
MCSub == {<<any, any>>, <<sub, sub>>, <<sub, any>>}
MCVarType == (x :> any @@ y :> any @@ z :> sub)
MCObjType == (a :> any @@ b :> sub)

B(v, t, e) == [var |-> v, term |-> t, eq |-> e]
Singles == {B(v, t, e) : v \in MCStepVars, t \in MCStepVars \cup MCObjects, e \in BOOLEAN}
Proper == {c \in Singles : c.var # c.term}

ASSUME NestedAssumption == TypesNested

\* One binding, or two at once, the first an equality of x, as unification
\* adds them.
MCBatches ==
  {<<c>> : c \in Proper} \cup {<<c, d>> : c \in {e \in Proper : e.eq /\ e.var = x}, d \in Proper}

MCPatterns == {<<y, x>>, <<y, y>>, <<z, a>>}
MCRows == MCObjects \X MCObjects
MCColumns == {<<p, q>> : p, q \in {MCObjects, {b}}}
=============================================================================
