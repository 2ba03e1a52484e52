----------------------------- MODULE FdrPruning -----------------------------
(***************************************************************************)
(* Rules that discard a finite-domain partial plan before it is queued:    *)
(* cutsets (src/src/cutset.rs), recursion and minimality                   *)
(* (src/src/fdr_pruning.rs) and threats nothing can resolve                *)
(* (src/src/fdr_pocl.rs).                                                  *)
(***************************************************************************)
EXTENDS FdrPlan

NecessarilyBefore(p, a, b) == a # b /\ ~ PossiblyAfter(p.ord, a, b)

-----------------------------------------------------------------------------
(* Cutsets.                                                                 *)

\* Facts protected across step s: links that necessarily span it.
SpanningFacts(p, s) ==
  {l.fact : l \in {k \in ToSet(p.links) : /\ s \notin {k.from, k.to}
                                          /\ NecessarilyBefore(p, k.from, s)
                                          /\ NecessarilyBefore(p, s, k.to)}}

\* commitments_inconsistent: two requirements of one step exclude each other.
CommitmentsInconsistent(P, p) ==
  \E s \in PlanSteps(p) \cup {GoalId} :
    \E f, g \in BaseFacts(P.T, Commitments(p, s)) : IsMutex(P, f, g)

\* Mutant of HasInconsistentCutset: possibly spanning links count.
HasInconsistentCutset_Possibly(P, p) ==
  \E s \in PlanSteps(p) :
    LET spanning == BaseFacts(P.T,
          {l.fact : l \in {k \in ToSet(p.links) : s \notin {k.from, k.to} /\ CanBeInside(p, s, k)}})
        before == BaseFacts(P.T, Op(P, p, s).pre)
    IN  spanning # {} /\ Inconsistent(P, spanning \cup before)

HasInconsistentCutset(P, p) ==
  \/ P.extraRequirements /\ CommitmentsInconsistent(P, p)
  \/ \E s \in PlanSteps(p) :
       LET spanning == BaseFacts(P.T, SpanningFacts(p, s))
           before == BaseFacts(P.T, Op(P, p, s).pre)
           after == {Assignment(e) : e \in {d \in ToSet(Op(P, p, s).effs) :
                                              d.cond = {} /\ ~ IsDerived(P.T, d.var)}}
       IN  /\ spanning # {}
           /\ Inconsistent(P, spanning \cup before) \/ Inconsistent(P, spanning \cup after)

-----------------------------------------------------------------------------
(* The operator graph: a fact points to the operators that assign it and an *)
(* operator, <<0, o>>, to the facts it may require.                         *)

OpNode(o) == <<0, o>>

Edges(T, n) ==
  IF n[1] = 0
  THEN T.ops[n[2]].pre \cup UNION {e.cond : e \in ToSet(T.ops[n[2]].effs)}
  ELSE {OpNode(o) : o \in {q \in Operators(T) : \E e \in ToSet(T.ops[q].effs) : Assignment(e) = n}}

RECURSIVE Closure(_, _)
Closure(T, ns) ==
  LET next == ns \cup UNION {Edges(T, n) : n \in ns} IN IF next = ns THEN ns ELSE Closure(T, next)

Nodes(T) == Facts(T) \cup {OpNode(o) : o \in Operators(T)}

\* FactGraph::build as the nodes each node reaches.
FactGraph(T) == [n \in Nodes(T) |-> Closure(T, {n})]

Component(P, n) == {m \in P.graph[n] : n \in P.graph[m]}
MayRecurse(P, f) == Component(P, f) # {f}
RelevantOperators(P, f) == {n \in P.graph[f] : n[1] = 0}

-----------------------------------------------------------------------------
(* Reachability along causal links.                                         *)

RECURSIVE Follow(_, _)
Follow(links, ss) ==
  LET next == ss \cup {l.to : l \in {k \in links : k.from \in ss}}
  IN  IF next = ss THEN ss ELSE Follow(links, next)

RECURSIVE FollowBack(_, _)
FollowBack(links, ss) ==
  LET next == ss \cup {l.from : l \in {k \in links : k.to \in ss}}
  IN  IF next = ss THEN ss ELSE FollowBack(links, next)

GoalReachableAvoiding(p, s, f) ==
  GoalId \in Follow({l \in ToSet(p.links) : l.fact # f}, {s})

-----------------------------------------------------------------------------
(* Recursion.                                                               *)

RootLinks(p, oc) ==
  LET links == ToSet(p.links)
      here == Follow(links, {oc.step}) \cap FollowBack(links, {GoalId})
  IN  {l \in links : l.fact = oc.fact /\ l.from \in here}

Region(p, oc, roots) ==
  LET links == ToSet(p.links) IN
  Follow(links, {oc.step}) \cap FollowBack(links, {l.from : l \in roots})

\* recursion_of: every way from the condition to the goal crosses a link with
\* the same fact, and those links start at unordered steps.
IsRecursion(p, oc, roots) ==
  /\ ~ GoalReachableAvoiding(p, oc.step, oc.fact)
  /\ roots # {}
  /\ \A l, m \in roots : ~ NecessarilyBefore(p, l.from, m.from)

LinksOutOfRegion(p, region, roots) ==
  \E l \in ToSet(p.links) : /\ l.from \in region
                            /\ l.to \notin region \cup {r.to : r \in roots}

\* A step outside the loop that may undo the fact before the loop is over.
HasLoopThreat(P, p, f, region, roots) ==
  \E s \in PlanSteps(p) \ region :
    /\ \E e \in ToSet(Op(P, p, s).effs) : Clobbers(e, f)
    /\ \E l \in roots : PossiblyBefore(p.ord, s, l.to)

\* suspension_of
Suspended(P, p, oc) ==
  LET Loop(roots, region) == /\ IsRecursion(p, oc, roots)
                             /\ ~ LinksOutOfRegion(p, region, roots)
                             /\ ~ HasLoopThreat(P, p, oc.fact, region, roots)
  IN  /\ MayRecurse(P, oc.fact)
      /\ \E roots \in {RootLinks(p, oc)} : Loop(roots, Region(p, oc, roots))

\* Every way from step s to the goal crosses a root link.
IsLoopPredecessor(p, s, roots) ==
  LET ends == {<<r.from, r.to>> : r \in roots} IN
  GoalId \notin Follow({l \in ToSet(p.links) : <<l.from, l.to>> \notin ends}, {s})

TheoremFour(P, p, f, roots) ==
  LET relevant == UNION {RelevantOperators(P, oc.fact) : oc \in {x \in ToSet(p.opens) : x.fact # f}} IN
  /\ relevant \cap Component(P, f) = {}
  /\ \A n \in relevant, l \in roots :
       ~ \E e \in ToSet(P.T.ops[n[2]].effs) : Clobbers(e, l.fact)
  /\ \A t \in ToSet(p.threats) : ~ \E r \in roots :
       r.from = p.links[t.link].from /\ r.to = p.links[t.link].to

RecursionMayApply(P, p) ==
  \E oc \in ToSet(p.opens) : MayRecurse(P, oc.fact) /\ \E l \in ToSet(p.links) : l.fact = oc.fact

\* Decided on the newest condition that is suspended.
RecursionPrunable(P, p) ==
  LET At(anchor, suspended, roots) ==
        \/ /\ p.threats = <<>>
           /\ \A oc \in ToSet(p.opens) \ suspended : IsLoopPredecessor(p, oc.step, roots)
        \/ TheoremFour(P, p, anchor.fact, roots)
  IN  \E ocs \in {SelectSeq(Reverse(p.opens), LAMBDA oc : Suspended(P, p, oc))} \ {<<>>} :
        At(Head(ocs), ToSet(ocs), RootLinks(p, Head(ocs)))

-----------------------------------------------------------------------------
(* Minimality.                                                              *)

NecessaryCutset(p, s) ==
  SelectSeq(p.links, LAMBDA l : /\ s \notin {l.from, l.to}
                                /\ NecessarilyBefore(p, l.from, s)
                                /\ NecessarilyBefore(p, s, l.to))

PossibleCutset(p, s) ==
  SelectSeq(p.links, LAMBDA l : l.to = s \/ (l.from # s /\ CanBeInside(p, s, l)))

\* What has to hold after the first anchor covers what the second one needs:
\* the steps between them achieve nothing.
MinimalityPrunable(p) ==
  \E second \in PlanSteps(p) \cup {GoalId}, first \in PlanSteps(p) :
    LET inner == PossibleCutset(p, second)
        outer == NecessaryCutset(p, first)
    IN  /\ \A oc \in ToSet(p.opens) : oc.step = second \/ NecessarilyBefore(p, oc.step, second)
        /\ inner # <<>>
        /\ NecessarilyBefore(p, first, second)
        /\ \E s \in PlanSteps(p) : NecessarilyBefore(p, first, s) /\ NecessarilyBefore(p, s, second)
        /\ Len(outer) >= Len(inner)
        /\ \A l \in ToSet(inner) : \E m \in ToSet(outer) : m.fact = l.fact

MinimalityMayApply(p) == Len(p.ops) >= 3 /\ p.links # <<>>

-----------------------------------------------------------------------------
(* Threats nothing can resolve, and the whole filter.                       *)

HasUnresolvableThreat(P, p) ==
  \E t \in ToSet(p.threats) : ThreatOrderings(p, t) = 0 /\ Confrontations(P, p, t) = {}

StructurallyPruned(P, p) ==
  \/ "minimality" \in P.prune /\ MinimalityMayApply(p) /\ MinimalityPrunable(p)
  \/ "recursion" \in P.prune /\ RecursionMayApply(P, p) /\ RecursionPrunable(P, p)

\* The tests every child passes before it is ranked and queued.
Discarded(P, p) ==
  \/ P.prune \cap {"cutset", "h2"} # {} /\ HasInconsistentCutset(P, p)
  \/ HasUnresolvableThreat(P, p)
  \/ StructurallyPruned(P, p)

=============================================================================
