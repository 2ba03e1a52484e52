------------------------------ MODULE HtnPlan ------------------------------
(***************************************************************************)
(* Hierarchical problems and their partial plans (model.rs, plan.rs and    *)
(* refine.rs of src/src/htn).  A problem D is a record                     *)
(*                                                                         *)
(*   actions  [cost, pre, add, del] of the primitive tasks, which come     *)
(*            first: task t is primitive iff t \in DOMAIN D.actions        *)
(*   tasks    how many tasks there are, primitive and compound             *)
(*   methods  [task, subtasks, orderings]; orderings are pairs of          *)
(*            positions in subtasks                                        *)
(*   init, goal   sets of facts                                            *)
(*   root     the task to accomplish                                       *)
(*                                                                         *)
(* A plan p is a record                                                    *)
(*   tasks    the active occurrences [id, task], newest first              *)
(*   ord      the ordering collection; rows of retired occurrences stay    *)
(*   links    [producer, consumer, fact], newest first                     *)
(*   open     [consumer, fact], newest first                               *)
(*   history  decompositions [parent, method, children], newest first      *)
(*   focus    the open condition a chosen subtree must support and the     *)
(*            occurrences that may lead to its supporter, or NoFocus       *)
(*   nextId, cost, depth                                                   *)
(***************************************************************************)
EXTENDS Orderings

CONSTANTS CostCap,   \* one above the largest cost that can be represented
          NoFocus,   \* no subtree is being searched for a supporter
          NoPlan,    \* a refinement that contradicts the orderings
          Overflow   \* an error: ids or costs that cannot be represented

ASSUME CostCapAssumption == CostCap \in Nat \ {0}

-----------------------------------------------------------------------------
(* Problem::new.                                                            *)

Primitive(D, t) == t \in DOMAIN D.actions
MethodsOf(D, t) == SelectSeq([m \in DOMAIN D.methods |-> m], LAMBDA m : D.methods[m].task = t)

\* check_orderings: positions leave one at a time, each with none before it.
RECURSIVE Sortable(_, _)
Sortable(left, edges) ==
  LET ready == {i \in left : \A e \in edges : e[2] = i => e[1] \notin left} IN
  left = {} \/ (ready # {} /\ Sortable(left \ ready, edges))

MethodAccepted(D, m) ==
  LET positions == DOMAIN m.subtasks IN
  /\ m.task \in Len(D.actions) + 1 .. D.tasks
  /\ ToSet(m.subtasks) \subseteq 1 .. D.tasks
  /\ \A e \in m.orderings : e[1] \in positions /\ e[2] \in positions /\ e[1] # e[2]
  /\ Sortable(positions, m.orderings)

Accepted(D) ==
  /\ D.root \in 1 .. D.tasks /\ Len(D.actions) <= D.tasks
  /\ \A a \in ToSet(D.actions) : a.cost < CostCap
  /\ \A m \in ToSet(D.methods) : MethodAccepted(D, m)

\* Adds win over deletes, as in the flat executor.
Normalized(D) ==
  [D EXCEPT !.actions = [a \in DOMAIN @ |-> [@[a] EXCEPT !.del = @ \ D.actions[a].add]]]

-----------------------------------------------------------------------------
(* Plan.                                                                    *)

Before(p, a, b) == a # b /\ ~ PossiblyBefore(p.ord, b, a)

Reserved(ord, id) == RefineWithStep(ord, InitId, id, id)

Opened(open, consumer, facts) ==
  FoldSet(LAMBDA f, os : <<[consumer |-> consumer, fact |-> f]>> \o os, open, facts)

InitialPlan(D) ==
  LET primitive == Primitive(D, D.root) IN
  [tasks |-> <<[id |-> 1, task |-> D.root]>>, ord |-> Reserved(NewOrderings, 1),
   links |-> <<>>, history |-> <<>>, focus |-> NoFocus, nextId |-> 2, depth |-> 0,
   open |-> Opened(Opened(<<>>, GoalId, D.goal), 1, IF primitive THEN D.actions[D.root].pre ELSE {}),
   cost |-> IF primitive THEN D.actions[D.root].cost ELSE 0]

Compounds(D, p) == SelectSeq(p.tasks, LAMBDA t : ~ Primitive(D, t.task))

\* The orderings <<a, b>> added one at a time; NoPlan if one contradicts the rest.
RefineAll(ord, pairs) ==
  FoldLeft(LAMBDA o, e : IF o = NoPlan \/ ~ Refinable(o, e[1], e[2]) THEN NoPlan ELSE Refine(o, e[1], e[2]),
           ord, pairs)

\* Mutant of Inherited: only what stands directly before the parent is kept.
Inherited_FromBefore(p, parent, child) ==
  LET before(t) == IF Before(p, t.id, parent.id) THEN <<<<t.id, child.id>>>> ELSE <<>>
  IN  FlattenSeq([k \in DOMAIN p.tasks |-> IF p.tasks[k] = parent THEN <<>> ELSE before(p.tasks[k])])

\* What a child of a method inherits: its parent's place among the other
\* active occurrences, paths through retired ones included.
Inherited(p, parent, child) ==
  LET place(t) == IF Before(p, t.id, parent.id) THEN <<<<t.id, child.id>>>>
                  ELSE IF Before(p, parent.id, t.id) THEN <<<<child.id, t.id>>>> ELSE <<>>
  IN  FlattenSeq([k \in DOMAIN p.tasks |-> IF p.tasks[k] = parent THEN <<>> ELSE place(p.tasks[k])])

Decompose(D, p, parent, m) ==
  LET method == D.methods[m]
      next == p.nextId + Len(method.subtasks)
      Children == [i \in DOMAIN method.subtasks |-> [id |-> p.nextId + i - 1, task |-> method.subtasks[i]]]
      Inner(children) ==
        SetToSortSeq({<<children[e[1]].id, children[e[2]].id>> : e \in method.orderings},
                     LAMBDA x, y : x[1] < y[1] \/ (x[1] = y[1] /\ x[2] < y[2]))
      Orders(children) ==
        FlattenSeq([i \in DOMAIN children |-> Inherited(p, parent, children[i])]) \o Inner(children)
      With(children, primitive, cost, ord) ==
        IF next >= GoalId \/ cost >= CostCap THEN Overflow
        ELSE IF ord = NoPlan THEN NoPlan
        ELSE [p EXCEPT !.nextId = next, !.depth = @ + 1, !.cost = cost, !.ord = ord,
               !.tasks = Reverse(children) \o Remove(@, parent),
               !.open = FoldLeft(LAMBDA os, c : Opened(os, c.id, D.actions[c.task].pre), @, primitive),
               !.history = <<[parent |-> parent, method |-> m, children |-> children]>> \o @]
      Of(children, primitive) ==
        With(children, primitive, FoldLeft(LAMBDA sum, c : sum + D.actions[c.task].cost, p.cost, primitive),
             RefineAll(IF children = <<>> THEN p.ord ELSE Reserved(p.ord, next - 1), Orders(children)))
      Split(children) == Of(children, SelectSeq(children, LAMBDA c : Primitive(D, c.task)))
  IN  Split(Children)

Support(p, open, producer) ==
  IF ~ Refinable(p.ord, producer, open.consumer) THEN NoPlan
  ELSE [p EXCEPT !.ord = Refine(@, producer, open.consumer), !.depth = @ + 1, !.open = Remove(@, open),
         !.focus = NoFocus,
         !.links = <<[producer |-> producer, consumer |-> open.consumer, fact |-> open.fact]>> \o @]

Order(p, a, b) ==
  IF ~ Refinable(p.ord, a, b) THEN NoPlan ELSE [p EXCEPT !.ord = Refine(@, a, b), !.depth = @ + 1]

\* The threats in the order `threat` looks for one.  With lastAchiever, an
\* add inside a link threatens it as a delete does.
Threatens(D, p, lastAchiever, t, l) ==
  /\ Primitive(D, t.task) /\ t.id \notin {l.producer, l.consumer}
  /\ \/ l.fact \in D.actions[t.task].del
     \/ lastAchiever /\ l.fact \in D.actions[t.task].add
  /\ PossiblyBefore(p.ord, l.producer, t.id) /\ PossiblyBefore(p.ord, t.id, l.consumer)

Threats(D, p, lastAchiever) ==
  FlattenSeq([k \in DOMAIN p.links |->
    LET by == SelectSeq(p.tasks, LAMBDA t : Threatens(D, p, lastAchiever, t, p.links[k]))
    IN  [i \in DOMAIN by |-> [step |-> by[i].id, link |-> p.links[k]]]])

\* Oldest first among those nothing remaining is ordered before.
RECURSIVE LinearizationOf(_, _)
LinearizationOf(p, left) ==
  IF left = {} THEN <<>>
  ELSE LET free == {t \in left : ~ \E q \in left : Before(p, q.id, t.id)}
           next == CHOOSE t \in free : \A u \in free : t.id <= u.id
       IN  <<next>> \o LinearizationOf(p, left \ {next})
Linearization(p) == LinearizationOf(p, ToSet(p.tasks))

-----------------------------------------------------------------------------
(* Refinements: which flaw is taken, and the children it has.  G is the     *)
(* structural index (module HtnBounds), or NoIndex when the search built    *)
(* none.                                                                    *)

CONSTANT NoIndex

MayAdd(G, t, f) == G # NoIndex /\ f \in G.mayAdd[t]
MethodMayAdd(D, G, m, f) ==
  /\ G # NoIndex /\ G.method[m] <= CostCap
  /\ \E t \in ToSet(D.methods[m].subtasks) : MayAdd(G, t, f)

DecomposeBy(parent, m, forSupport, focus) ==
  [kind |-> "decompose", parent |-> parent, method |-> m, forSupport |-> forSupport, focus |-> focus]
SupportBy(open, producer) == [kind |-> "support", open |-> open, producer |-> producer]
OrderBy(a, b) == [kind |-> "order", first |-> a, second |-> b]

Decompositions(D, parent) ==
  LET ms == MethodsOf(D, parent.task) IN [k \in DOMAIN ms |-> DecomposeBy(parent, ms[k], FALSE, NoFocus)]

\* Mutant of FocusOf: the selected condition is not kept in focus.
FocusOf_Never(systematic, open) == NoFocus

FocusOf(systematic, open) == IF systematic THEN open ELSE NoFocus

\* From the initial state, from an active primitive, and from below an active
\* compound that some method may still lead to an achiever.
SupportChoices(D, p, open, G, systematic) ==
  LET eligible(t) == p.focus # NoFocus => t \in ToSet(p.focus.candidates)
      initial == IF p.focus = NoFocus /\ open.fact \in D.init THEN <<SupportBy(open, InitId)>> ELSE <<>>
      existing == SelectSeq(p.tasks, LAMBDA t :
        /\ eligible(t) /\ t.id # open.consumer /\ ~ Before(p, open.consumer, t.id)
        /\ Primitive(D, t.task) /\ open.fact \in D.actions[t.task].add)
      future == SelectSeq(p.tasks, LAMBDA t :
        /\ eligible(t) /\ ~ Primitive(D, t.task)
        /\ ~ Before(p, open.consumer, t.id) /\ MayAdd(G, t.task, open.fact))
      below(t) == LET ms == SelectSeq(MethodsOf(D, t.task), LAMBDA m : MethodMayAdd(D, G, m, open.fact))
                  IN  [k \in DOMAIN ms |-> DecomposeBy(t, ms[k], TRUE, FocusOf(systematic, open))]
  IN  initial \o [k \in DOMAIN existing |-> SupportBy(open, existing[k].id)]
        \o FlattenSeq([k \in DOMAIN future |-> below(future[k])])

\* The first of the open conditions with fewest refinements.
FewestChoices(D, p, G, systematic) ==
  LET First(count) ==
        p.open[CHOOSE i \in DOMAIN p.open :
                 \A j \in DOMAIN p.open : count[i] < count[j] \/ (count[i] = count[j] /\ i <= j)]
  IN  First([k \in DOMAIN p.open |-> Len(SupportChoices(D, p, p.open[k], G, systematic))])

Refinements(D, p, flaws, G) ==
  LET systematic == flaws = "Systematic"
      Selected == IF p.focus # NoFocus THEN p.focus.open
                  ELSE IF flaws = "DecompositionFirst" THEN p.open[1] ELSE FewestChoices(D, p, G, systematic)
      Of(compounds, threats) ==
        IF compounds # <<>> /\ (flaws = "DecompositionFirst" \/ (threats = <<>> /\ p.focus = NoFocus /\ p.open = <<>>))
        THEN Decompositions(D, compounds[1])
        ELSE IF threats # <<>>
        THEN <<OrderBy(threats[1].step, threats[1].link.producer),
               OrderBy(threats[1].link.consumer, threats[1].step)>>
        ELSE IF p.focus # NoFocus \/ p.open # <<>> THEN SupportChoices(D, p, Selected, G, systematic) ELSE <<>>
  IN  Of(Compounds(D, p), Threats(D, p, systematic))

Apply(D, p, r) ==
  CASE r.kind = "support" -> Support(p, r.open, r.producer)
    [] r.kind = "order" -> Order(p, r.first, r.second)
    [] r.kind = "decompose" ->
         LET Focused(q) ==
               IF q \in {NoPlan, Overflow} \/ r.focus = NoFocus THEN q
               ELSE [q EXCEPT !.focus = [open |-> r.focus, candidates |-> q.history[1].children]]
         IN  Focused(Decompose(D, p, r.parent, r.method))

\* The loop's test of a popped plan.
Complete(D, p, flaws) ==
  /\ Compounds(D, p) = <<>> /\ p.open = <<>> /\ p.focus = NoFocus
  /\ Threats(D, p, flaws = "Systematic") = <<>>

=============================================================================
