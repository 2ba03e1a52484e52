----------------------------- MODULE FdrMutexes -----------------------------
(***************************************************************************)
(* Facts that never hold together: the h^2 reachability table of           *)
(* src/src/h2.rs and the mutex index of src/src/cutset.rs.                 *)
(*                                                                         *)
(* The table is the set of reachable pairs, {f, g} or {f} for a fact on    *)
(* its own (bit rows over fact indices in the code).                       *)
(***************************************************************************)
EXTENDS FdrTask

AllPairs(T) == {{f, g} : f, g \in Facts(T)}

\* Pairs of a declared group, derived facts left out.
Forbidden(T) ==
  UNION {{{f, g} : f, g \in BaseFacts(T, G)} : G \in T.groups} \ {{f} : f \in Facts(T)}

InitialPairs(T) ==
  LET fs == BaseFacts(T, {<<v, T.init[v]>> : v \in Variables(T)}) IN {{f, g} : f, g \in fs}

\* Nothing is known about a derived fact: the axioms may set it at any time.
UnknownPairs(T) == {{f, g} : f \in Facts(T) \ BaseFacts(T, Facts(T)), g \in Facts(T)}

\* The assignments operator o makes whenever it is applied.
Guaranteed(T, o) ==
  {Assignment(e) : e \in {d \in ToSet(T.ops[o].effs) : d.cond = {} /\ ~ IsDerived(T, d.var)}}

Rules(T, o) ==
  {[required |-> BaseFacts(T, T.ops[o].pre \cup e.cond), post |-> Assignment(e)] :
     e \in {d \in ToSet(T.ops[o].effs) : ~ IsDerived(T, d.var)}}

PossibleTogether(reach, fs) == \A f, g \in fs : {f, g} \in reach

Overwritten(T, o, f) == \E w \in Guaranteed(T, o) : w[1] = f[1] /\ w[2] # f[2]

\* What one operator adds: each assignment, two assignments made at once, and
\* an assignment beside a fact that stays.
ReachedBy(T, o, reach) ==
  LET live == {r \in Rules(T, o) : PossibleTogether(reach, r.required)}
      joint == {{p[1].post, p[2].post} : p \in
                  {q \in live \X live : /\ q[1].post[1] # q[2].post[1]
                                        /\ PossibleTogether(reach, q[1].required \cup q[2].required)}}
      kept == UNION {{{a.post, f} : f \in
                {g \in Facts(T) : /\ g[1] # a.post[1] /\ {g} \in reach
                                  /\ ~ Overwritten(T, o, g)
                                  /\ PossibleTogether(reach, a.required \cup {g})}} : a \in live}
  IN  {{a.post} : a \in live} \cup ((joint \cup kept) \ Forbidden(T))

\* The sweeps over the operators, as many as the work limit, the deadline and
\* memory allow: how far the relation came, and whether it changed no more.
RECURSIVE Swept(_, _, _)
Swept(T, reach, sweeps) ==
  LET next == reach \cup UNION {ReachedBy(T, o, reach) : o \in Operators(T)}
  IN  IF next = reach THEN [pairs |-> reach, complete |-> TRUE]
      ELSE IF sweeps = 0 THEN [pairs |-> reach, complete |-> FALSE]
      ELSE Swept(T, next, sweeps - 1)

Contradicted(T) == InitialPairs(T) \cap Forbidden(T) # {}

\* Mutant of H2: what was reached so far is published.
H2_Partial(T, sweeps) ==
  IF Contradicted(T) THEN AllPairs(T) ELSE Swept(T, UnknownPairs(T) \cup InitialPairs(T), sweeps).pairs

\* compute.  A group the initial state contradicts, or a budget that ends before
\* the fixpoint, leaves no table at all: every pair then counts as reachable.
H2(T, sweeps) ==
  LET Published(swept) == IF swept.complete THEN swept.pairs ELSE AllPairs(T)
  IN  IF Contradicted(T) THEN AllPairs(T)
      ELSE Published(Swept(T, UnknownPairs(T) \cup InitialPairs(T), sweeps))

-----------------------------------------------------------------------------
\* FactMutexes::mutex as a set of pairs: two values of one variable, a pair
\* the table never reached, or two facts of one declared group.
MutexPairs(T, reach) ==
  {m \in AllPairs(T) :
     /\ Cardinality(m) = 2
     /\ \/ Cardinality({f[1] : f \in m}) = 1
        \/ m \notin reach
        \/ \E G \in T.groups : m \subseteq G}

Unreachable(T, reach) == {f \in Facts(T) : {f} \notin reach}

=============================================================================
