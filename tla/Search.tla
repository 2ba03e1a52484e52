------------------------------- MODULE Search -------------------------------
(***************************************************************************)
(* The best-first search loop over partial plans (src/src/search.rs,       *)
(* plan_impl and pop_next, with the open-list bound and the stops of       *)
(* src/src/memory.rs), over an abstract refinement space.                  *)
(*                                                                         *)
(* A space gives, for each flaw order, the children of each plan in the    *)
(* order the code generates them and all its descendants; for each plan    *)
(* its real ranks, Infinite for a dead end; and for each complete plan     *)
(* what instantiation and replay make of it: the plan itself, a dearer one *)
(* (a schema cost is a lower bound), or Fails.  Only the leading rank term *)
(* is modelled, ties are free.  Flaw orders are numbered from 1.           *)
(***************************************************************************)
EXTENDS Naturals, Sequences, FiniteSets, FiniteSetsExt, SequencesExt

CONSTANTS
  Tasks,         \* the calls of plan_impl: [alg, space, limits, maxQueued,
                 \* canTimeOut, memoryBound, memoryStop], below
  FirstSwitch,   \* next_switch at first, 1000 in the code
  MaxSwitch,     \* where next_switch saturates, usize::MAX in the code
  BoostGain,     \* what an improvement adds to the boost, 10 in the code
  Slack,         \* SLACK, 10 in the code
  Infinite       \* a number above every rank

NoPlan == 0
Fails == 0
Root == 1

Complete(space, n) == n \in DOMAIN space.inst

\* The complete plans under flaw order o that stand for an executable plan.
SpaceSolutions(space, o) ==
  {n \in space.below[o][Root] : Complete(space, n) /\ space.inst[n] # Fails}

OrdersOf(space) == 1 .. Len(space.children)
Plans(space) == 1 .. Len(space.f)

ChildrenIn(space, o, n) == {space.children[o][n][i] : i \in DOMAIN space.children[o][n]}

\* The plans that refinement or instantiation makes of plan n under order o.
MadeOf(space, o, n) ==
  ChildrenIn(space, o, n)
    \cup IF Complete(space, n) THEN {space.inst[n]} \ {n, Fails} ELSE {}

\* Plans are numbered as they are made; every plan but the first is made of one
\* plan; a complete plan has no flaw to refine; an instance is its own instance.
IsSpace(space) ==
  /\ {Len(space.f), Len(space.children)} \subseteq Nat \ {0}
  /\ {space.f, space.h} \subseteq [Plans(space) -> 0 .. Infinite]
  /\ space.steps \in [Plans(space) -> Nat] /\ \A n \in Plans(space) : space.steps[n] < Infinite
  /\ \A n \in DOMAIN space.inst :
       LET i == space.inst[n] IN
       /\ n \in Plans(space)
       /\ i # Fails => i \in DOMAIN space.inst /\ space.inst[i] = i
  /\ \A o \in OrdersOf(space) :
       /\ space.children[o] \in [Plans(space) -> Seq(Plans(space))]
       /\ \A n \in Plans(space) :
            /\ space.below[o][n] = {n} \cup UNION {space.below[o][c] : c \in ChildrenIn(space, o, n)}
            /\ Complete(space, n) => space.children[o][n] = <<>>
            /\ \A c \in MadeOf(space, o, n) : n < c
            /\ \A m \in Plans(space) \ {n} : MadeOf(space, o, n) \cap MadeOf(space, o, m) = {}

\* An infinite rank is a proof: no plan above a solution has one, nor has the
\* solution as it is executed; and every flaw order reaches some solution if
\* one does.  Finite ranks may be anything, as those of ADD are.
Safe(space) ==
  /\ \A o \in OrdersOf(space) : \A n \in Plans(space) :
       \A g \in space.below[o][n] \cap SpaceSolutions(space, o) :
         space.f[n] < Infinite /\ space.f[space.inst[g]] < Infinite
  /\ \A n \in Plans(space) : space.f[n] = Infinite <=> space.h[n] = Infinite
  /\ \A o, p \in OrdersOf(space) :
       SpaceSolutions(space, o) # {} => SpaceSolutions(space, p) # {}

\* No f exceeds the cost of a solution below, and every flaw order reaches
\* solutions as cheap as the others do.
Admissible(space) ==
  /\ \A o \in OrdersOf(space) : \A n \in Plans(space) :
       \A g \in space.below[o][n] \cap SpaceSolutions(space, o) :
         space.f[n] <= space.f[g] /\ space.f[g] <= space.f[space.inst[g]]
  /\ \A o, p \in OrdersOf(space) : \A g \in SpaceSolutions(space, o) :
       \E g2 \in SpaceSolutions(space, p) : space.f[space.inst[g2]] <= space.f[space.inst[g]]

\* search_limits has a number per flaw order; maxQueued is --max-queued, or
\* Infinite; the last three say whether a deadline, --mem-mb and
\* --stage-mem-mb are set.
ASSUME SearchAssumption ==
  /\ \A t \in Tasks :
       /\ t.alg \in {"A", "Bfs", "Ida", "Gbfs", "LazyGbfs", "LazyGbfsDual", "Alt"}
       /\ IsSpace(t.space) /\ Safe(t.space)
       /\ t.limits \in [OrdersOf(t.space) -> Nat]
       /\ {t.canTimeOut, t.memoryBound, t.memoryStop} \subseteq BOOLEAN
  /\ Slack \in Nat \ {0} /\ Infinite \in Nat \ {0}

VARIABLES
  task,   \* the call, fixed at the start
  late,   \* whether the deadline has passed
  s       \* the locals of plan_impl, below

vars == <<task, late, s>>

sp == task.space
NOrders == Len(sp.children)
Orders == 1 .. NOrders
Solutions(o) == SpaceSolutions(sp, o)
IsIda  == task.alg = "Ida"
IsDual == task.alg = "LazyGbfsDual"
IsAlt  == task.alg = "Alt"
IsLazy == task.alg \in {"LazyGbfs", "LazyGbfsDual"}
IsGbfs == task.alg \in {"Gbfs", "LazyGbfs", "LazyGbfsDual"}

Entry(n, rank, lazy) == [plan |-> n, rank |-> rank, lazy |-> lazy]

\* queue_rank, queue_rank_gbfs and Rank::bfs.
QueueRank(n) ==
  IF task.alg = "Bfs" THEN sp.steps[n] ELSE IF IsGbfs THEN sp.h[n] ELSE sp.f[n]

InitialLocals ==
  [phase |-> "inner", current |-> Root, rank0 |-> 0, child |-> 0,
   ids |-> [n \in 1 .. Len(sp.f) |-> 0],
   queues |-> [o \in Orders |-> {}], secondary |-> [o \in Orders |-> {}],
   expanded |-> {},
   bestH |-> Infinite, boost |-> 0, expandCount |-> 0,
   generated |-> [o \in Orders |-> IF o = 1 THEN 1 ELSE 0],
   numGenerated |-> 1,
   dropped |-> 0, capacity |-> Infinite, stopped |-> FALSE,
   order |-> 1, ordersLeft |-> NOrders, nextSwitch |-> FirstSwitch,
   limitReached |-> FALSE,
   fLimit |-> IF IsIda THEN sp.f[Root] ELSE Infinite,
   nextFLimit |-> Infinite]

Init ==
  /\ task \in Tasks
  /\ late = FALSE
  /\ s = InitialLocals

\* What stop_expired! may answer: the clock is always read, the resident set
\* at times, and it may say anything.
StopAnswers ==
  IF task.canTimeOut /\ late THEN {TRUE} ELSE IF task.memoryStop THEN BOOLEAN ELSE {FALSE}

-----------------------------------------------------------------------------
(* The open-list bound.                                                     *)

Total(qs) == Cardinality(UNION {{o} \X qs[o] : o \in DOMAIN qs})

\* trim_target: the possible [keep, capacity], keep Infinite for no trim.
TrimTargets(queued, capacity) ==
  LET base      == IF capacity < queued THEN capacity ELSE queued
      tightened == Max({base - base \div Slack, 1})
      cap       == Min({capacity, task.maxQueued})
      keep      == IF cap # Infinite /\ queued > cap + cap \div Slack THEN cap ELSE Infinite
  IN  {[keep |-> keep, capacity |-> capacity]}
        \cup (IF task.memoryBound THEN {[keep |-> tightened, capacity |-> tightened]} ELSE {})

\* prune_heap keeps the best entries of a queue.
Prunings(q, keep) ==
  IF Cardinality(q) <= keep THEN {q}
  ELSE {k \in kSubset(keep, q) : \A e \in k, d \in q \ k : e.rank <= d.rank}

\* trim_all: each queue keeps its share, at least one entry.
Trimmings(qs, keep) ==
  IF Total(qs) <= keep THEN {qs}
  ELSE LET share(o) == Max({(Cardinality(qs[o]) * keep) \div Total(qs), 1})
           pruned   == [o \in Orders |-> Prunings(qs[o], share(o))]
       IN  {t \in [Orders -> UNION {pruned[o] : o \in Orders}] :
              \A o \in Orders : t[o] \in pruned[o]}

\* The locals with the queues trimmed.
Bounded(r, capacity, queues, secondary) ==
  [r EXCEPT !.capacity = capacity, !.queues = queues, !.secondary = secondary,
            !.dropped = @ + Total(r.queues) - Total(queues)]

-----------------------------------------------------------------------------
(* Pushing and popping.                                                     *)

\* Both queues of the current order get the plan when there are two; the
\* second queue of LGBFS-D is first in, first out, by plan id.
Pushed(r, n, id, rank, lazy) ==
  [r EXCEPT
     !.ids[n] = id,
     !.queues[r.order] = @ \cup {Entry(n, rank, lazy)},
     !.secondary[r.order] =
        IF IsDual THEN @ \cup {Entry(n, id, lazy)}
        ELSE IF IsAlt THEN @ \cup {Entry(n, sp.h[n], lazy)} ELSE @,
     !.numGenerated = @ + 1]

\* One generated child; a lazy search queues it under its parent's rank.
Child(r, n) ==
  LET rank == IF IsLazy THEN r.rank0 ELSE QueueRank(n) IN
  IF rank = Infinite \/ r.generated[r.order] >= task.limits[r.order] THEN r
  ELSE IF IsIda /\ rank > r.fLimit THEN [r EXCEPT !.nextFLimit = Min({@, rank})]
  ELSE [Pushed(r, n, r.numGenerated, rank, IsLazy) EXCEPT !.generated[r.order] = @ + 1]

\* A call of pop_next; ALT chooses its queue here, once per call.  The count
\* matters only modulo 2 and 3.
EnterPop(r) ==
  [r EXCEPT !.phase = "pop", !.current = NoPlan, !.rank0 = 0,
            !.expandCount = IF IsAlt THEN (@ + 1) % 6 ELSE @]

Count(r) == IF IsDual /\ r.boost = 0 THEN (r.expandCount + 1) % 6 ELSE r.expandCount

UsesSecondary(r) ==
  \/ IsAlt /\ r.expandCount % 2 = 0
  \/ IsDual /\ r.boost = 0 /\ Count(r) % 3 = 0

\* The queue the next entry comes from.
PopSource(r) ==
  IF UsesSecondary(r)
  THEN IF r.secondary[r.order] # {} THEN "secondary" ELSE "queues"
  ELSE IF IsAlt /\ r.queues[r.order] = {} THEN "secondary" ELSE "queues"

BestOf(q) == {e \in q : \A d \in q : e.rank <= d.rank}

Marked(r, n) == IF IsDual \/ IsAlt THEN [r EXCEPT !.expanded = @ \cup {<<r.order, n>>}] ELSE r

-----------------------------------------------------------------------------
(* The loops, one action per pass.                                          *)

\* Mutant of AtQueuedCost: the schema cost is taken for the cost.
AtQueuedCost_Any(n, i) == i # Fails

\* Instance i of plan n costs what n was queued with.
AtQueuedCost(n, i) == i = n

\* A complete plan ends the search when it can be instantiated and executed
\* at the cost it was queued with, else the dearer plan is queued.  The
\* instantiation itself gives up at the deadline.
InstantiateComplete ==
  LET n == s.current
      i == IF task.canTimeOut /\ late THEN Fails ELSE sp.inst[n]
      r == Marked(s, n)
      requeued ==
        IF i = Fails \/ QueueRank(i) = Infinite THEN r
        ELSE IF IsIda /\ QueueRank(i) > r.fLimit
             THEN [r EXCEPT !.nextFLimit = Min({@, QueueRank(i)})]
             ELSE Pushed(r, i, r.ids[n], QueueRank(i), FALSE)
  IN
  /\ s.phase = "inner" /\ Complete(sp, n)
  /\ IF AtQueuedCost(n, i)
     THEN s' = [r EXCEPT !.current = i, !.phase = "outer"]
     ELSE \E stop \in StopAnswers :
            s' = IF stop
                 THEN [requeued EXCEPT !.stopped = TRUE, !.current = NoPlan, !.phase = "outer"]
                 ELSE EnterPop(requeued)
  /\ UNCHANGED <<task, late>>

\* Boost of the dual-queue mode.
Boosted(r) ==
  IF ~ IsDual THEN r
  ELSE LET gain == IF r.rank0 < r.bestH THEN BoostGain ELSE 0
       IN  [r EXCEPT !.bestH = Min({@, r.rank0}),
                     !.boost = IF @ + gain > 0 THEN @ + gain - 1 ELSE 0]

\* Mutants of GiveUpOrder: the queues of every order go, and the order stays
\* counted among those left.
GiveUpOrder_ClearsAll(r) ==
  [r EXCEPT !.limitReached = TRUE,
            !.ordersLeft = IF @ > 0 THEN @ - 1 ELSE 0,
            !.queues = [o \in Orders |-> {}], !.secondary = [o \in Orders |-> {}]]

GiveUpOrder_NoCount(r) ==
  [r EXCEPT !.limitReached = TRUE,
            !.queues[r.order] = {}, !.secondary[r.order] = {}]

\* The limit of the current order is reached: its queues are given up.
GiveUpOrder(r) ==
  [r EXCEPT !.limitReached = TRUE,
            !.ordersLeft = IF @ > 0 THEN @ - 1 ELSE 0,
            !.queues[r.order] = {}, !.secondary[r.order] = {}]

\* After an expansion: another order's turn, the next plan, or the end.
Continue(r) ==
  LET atLimit == r.generated[r.order] >= task.limits[r.order]
      t       == IF atLimit THEN GiveUpOrder(r) ELSE r
  IN  IF t.ordersLeft = 0
      THEN [t EXCEPT !.phase = "outer",
                     !.current = IF t.nextFLimit # Infinite THEN NoPlan ELSE @]
      ELSE [t EXCEPT !.current = NoPlan,
                     !.phase = IF atLimit \/ r.generated[r.order] >= r.nextSwitch
                               THEN "rotate" ELSE "take"]

StopBeforeExpansion ==
  /\ s.phase = "inner" /\ ~ Complete(sp, s.current)
  /\ TRUE \in StopAnswers
  /\ s' = [s EXCEPT !.stopped = TRUE, !.phase = "outer"]
  /\ UNCHANGED <<task, late>>

\* The plan is refined; its children are looked at one by one.
Expand ==
  /\ s.phase = "inner" /\ ~ Complete(sp, s.current)
  /\ FALSE \in StopAnswers
  /\ s' = [Boosted(Marked(s, s.current)) EXCEPT !.phase = "children", !.child = 1]
  /\ UNCHANGED <<task, late>>

Refinements == sp.children[s.order][s.current]

NextChild ==
  /\ s.phase = "children" /\ s.child <= Len(Refinements)
  /\ s' = [Child(s, Refinements[s.child]) EXCEPT !.child = @ + 1]
  /\ UNCHANGED <<task, late>>

\* The queues are trimmed when a bound says so, and the loop goes on.
EndExpansion ==
  /\ s.phase = "children" /\ s.child > Len(Refinements)
  /\ LET r == [s EXCEPT !.child = 0] IN
     \E t \in TrimTargets(Total(r.queues), r.capacity) :
     \E q \in Trimmings(r.queues, t.keep), q2 \in Trimmings(r.secondary, t.keep) :
       s' = Continue(Bounded(r, t.capacity, q, q2))
  /\ UNCHANGED <<task, late>>

\* One pass of the loop that looks for the next order below its limit.
RotateOrder ==
  LET wraps == s.order = NOrders
      next  == IF wraps THEN 1 ELSE s.order + 1
  IN
  /\ s.phase = "rotate"
  /\ s' = [s EXCEPT !.order = next,
                    !.nextSwitch = IF wraps THEN Min({2 * @, MaxSwitch}) ELSE @,
                    !.phase = IF s.generated[next] < task.limits[next] THEN "take" ELSE @]
  /\ UNCHANGED <<task, late>>

\* The first visit to an order starts from the initial plan.
TakeNext ==
  /\ s.phase = "take"
  /\ s' = IF s.generated[s.order] = 0
          THEN [s EXCEPT !.phase = "inner", !.current = Root, !.rank0 = 0,
                         !.generated[s.order] = 1, !.numGenerated = @ + 1]
          ELSE EnterPop(s)
  /\ UNCHANGED <<task, late>>

\* pop_next gives up: the deadline has passed or there is nothing to pop.
PopNothing ==
  /\ s.phase = "pop"
  /\ \/ task.canTimeOut /\ late /\ s' = [s EXCEPT !.phase = "outer"]
     \/ /\ ~ (task.canTimeOut /\ late)
        /\ s[PopSource(s)][s.order] = {}
        /\ s' = [s EXCEPT !.phase = "outer", !.expandCount = Count(s)]
  /\ UNCHANGED <<task, late>>

\* Already expanded from the other queue.
Stale(e) == <<s.order, e.plan>> \in s.expanded

Evaluated_StaysLazy(r, e) ==
  IF QueueRank(e.plan) = Infinite THEN r
  ELSE [r EXCEPT !.queues[r.order] = @ \cup {Entry(e.plan, QueueRank(e.plan), TRUE)}]

\* A lazy entry gets its real rank; a dead end is dropped.
Evaluated(r, e) ==
  IF QueueRank(e.plan) = Infinite THEN r
  ELSE [r EXCEPT !.queues[r.order] = @ \cup {Entry(e.plan, QueueRank(e.plan), FALSE)}]

\* One pass of pop_next: skip a plan expanded from the other queue, evaluate a
\* lazy entry and put it back unless it is a dead end, or answer the plan.
PopEntry ==
  /\ s.phase = "pop" /\ ~ (task.canTimeOut /\ late)
  /\ LET src == PopSource(s) IN
     \E e \in BestOf(s[src][s.order]) :
       LET r == [s EXCEPT ![src][s.order] = @ \ {e}, !.expandCount = Count(s)] IN
       s' = IF Stale(e) THEN r
            ELSE IF ~ e.lazy
                 THEN [r EXCEPT !.phase = "inner", !.current = e.plan, !.rank0 = e.rank]
            ELSE Evaluated(r, e)
  /\ UNCHANGED <<task, late>>

Solved(r) == r.current # NoPlan /\ Complete(sp, r.current)

\* Mutant of EndOrDeepen: a pop_next that gave up at the deadline is taken for
\* an empty queue.
EndOrDeepen_NoStopCheck ==
  /\ s.phase = "outer"
  /\ s' = IF s.stopped \/ Solved(s) \/ s.nextFLimit = Infinite
          THEN [s EXCEPT !.phase = "done"]
          ELSE [s EXCEPT !.phase = "inner", !.current = Root, !.rank0 = 0,
                         !.fLimit = s.nextFLimit, !.nextFLimit = Infinite]
  /\ UNCHANGED <<task, late>>

\* The inner loop has ended: the end, or IDA* starts again with a higher limit.
EndOrDeepen ==
  /\ s.phase = "outer"
  /\ \E stop \in IF s.current = NoPlan /\ ~ s.stopped THEN StopAnswers ELSE {s.stopped} :
       s' = IF stop \/ Solved(s) \/ s.nextFLimit = Infinite
            THEN [s EXCEPT !.phase = "done", !.stopped = stop]
            ELSE [s EXCEPT !.phase = "inner", !.current = Root, !.rank0 = 0,
                           !.fLimit = s.nextFLimit, !.nextFLimit = Infinite]
  /\ UNCHANGED <<task, late>>

Step ==
  \/ InstantiateComplete \/ StopBeforeExpansion \/ Expand \/ NextChild \/ EndExpansion
  \/ RotateOrder \/ TakeNext \/ PopNothing \/ PopEntry \/ EndOrDeepen

\* The clock, at any moment.
DeadlinePasses ==
  /\ task.canTimeOut /\ ~ late /\ s.phase # "done"
  /\ late' = TRUE
  /\ UNCHANGED <<task, s>>

Returned == s.phase = "done" /\ UNCHANGED vars

Next == Step \/ DeadlinePasses \/ Returned

\* The search is one thread that runs until it returns.  Nothing is assumed of
\* the clock.
Fairness == WF_vars(Step)

Spec == Init /\ [][Next]_vars /\ Fairness

Outcome ==
  IF s.phase # "done" THEN "none"
  ELSE IF Solved(s) THEN "Solved"
  ELSE IF s.stopped \/ s.limitReached \/ s.dropped > 0 THEN "LimitReached"
  ELSE "NoSolution"

-----------------------------------------------------------------------------
(* "The search space was exhausted without finding a solution"              *)
(* (src/src/search.rs, Outcome::NoSolution): the answer is given only when  *)
(* there is no plan, whatever was skipped as stale, cut off by an f limit,  *)
(* discarded by a bound, or left in a queue when the deadline passed.       *)
NoSolutionIsProof == Outcome = "NoSolution" => Solutions(1) = {}

\* Plans of order o that are still to be looked at.  LGBFS-D answers from the
\* primary queue alone once that is all it has, and ALT queues a plan in both.
Pending(o) ==
  {e.plan : e \in s.queues[o]}
     \cup (IF o = s.order /\ s.current # NoPlan THEN {s.current} ELSE {})

(* The frontier of a flaw order whose limit is not reached covers every     *)
(* solution of the order: each one is a descendant of a pending plan, or of *)
(* a plan IDA* cut off above its f limit, and it will come back with a      *)
(* limit that lets it in.  (At the deadline a complete plan in hand may be  *)
(* let go, and the answer is that a limit was reached.)                     *)
FrontierCovers ==
  s.dropped = 0 /\ ~ late /\ (IsIda => NOrders = 1) =>
    \A o \in Orders :
      s.generated[o] > 0 /\ s.generated[o] < task.limits[o] =>
        \A g \in Solutions(o) : \E n \in Plans(sp) :
          /\ g \in sp.below[o][n] \/ n = sp.inst[g]
          /\ n \in Pending(o) \/ (s.fLimit < sp.f[n] /\ s.nextFLimit <= sp.f[n] /\ sp.f[n] < Infinite)

(* A* and, with a single flaw order, IDA* answer a plan of least cost under *)
(* an admissible heuristic, even when a complete plan turns out dearer once *)
(* it is instantiated.                                                      *)
SolvedIsCheapest ==
  /\ Outcome = "Solved" /\ s.dropped = 0
  /\ Admissible(sp)
  /\ task.alg = "A" \/ (IsIda /\ NOrders = 1)
  => \A g \in Solutions(1) : sp.f[s.current] <= sp.f[sp.inst[g]]

(* The turn of a flaw order is handed on only while some order is below its *)
(* limit, so the loop that looks for that order ends (src/src/search.rs,    *)
(* the switch of flaw orders).  Orders of limit zero are excepted: they are *)
(* counted as left though no turn of theirs will come.                      *)
HandOverEnds ==
  s.phase = "rotate" /\ (\A o \in Orders : task.limits[o] > 0) =>
    \E o \in Orders : s.generated[o] < task.limits[o]

(* The loop over the flaw orders when every one of them is at its limit.    *)
Stranded == s.phase = "rotate" /\ \A o \in Orders : s.generated[o] >= task.limits[o]

(* The search ends, or hangs in that loop and nowhere else: lazy entries    *)
(* are not evaluated for ever, f limits rise, and the flaw orders do not    *)
(* hand over to each other without end.                                     *)
EndsOrStranded == <>(s.phase = "done" \/ Stranded)

(* "-l, --limit=N  search-node limit (or `unlimited`)"                      *)
(* (src/src/bin/potoroo.rs): the search ends, at its limits if not before.  *)
Terminates == <>(s.phase = "done")

=============================================================================
