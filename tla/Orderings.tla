----------------------------- MODULE Orderings -----------------------------
(***************************************************************************)
(* The temporal ordering collection of a partial-order plan                *)
(* (src/src/orderings.rs, BinaryOrderings), as operators on a value        *)
(*                                                                         *)
(*    o = [high |-> highest real step id,                                  *)
(*         succ |-> for each real step, the steps it is ordered before]    *)
(*                                                                         *)
(* `succ` is the transitive closure: the code keeps it as one bit row per  *)
(* step and a word-wise OR propagates a new constraint.  Here a row is the *)
(* set of its 1 bits (the layout of the rows in blocks is module RowTable).*)
(* The initial step is 0, real steps are 1..o.high, and the goal is        *)
(* GoalId, an id above every real step (usize::MAX in the code); neither   *)
(* of the two ever has a row.                                              *)
(***************************************************************************)
EXTENDS Integers, Sequences, FiniteSets, SequencesExt

CONSTANT MaxSteps      \* bound on the real steps a plan may have

ASSUME MaxStepsAssumption == MaxSteps \in Nat

InitId == 0
GoalId == MaxSteps + 1
RealSteps(o) == 1 .. o.high

NewOrderings == [high |-> 0, succ |-> [k \in {} |-> {}]]

OrderedBefore(o, a, b) ==
  a # b /\ a \in RealSteps(o) /\ b \in o.succ[a]

\* Step a may come before step b.  Both are ids, special or real.
PossiblyBefore(o, a, b) ==
  /\ a # b
  /\ \/ a = InitId \/ b = GoalId
     \/ a # GoalId /\ b # InitId /\ ~ OrderedBefore(o, b, a)

\* Mutant of PossiblyAfter: the row of the wrong step is read.
PossiblyAfter_Swapped(o, a, b) ==
  /\ a # b
  /\ a # InitId /\ b # GoalId
  /\ a = GoalId \/ b = InitId \/ ~ OrderedBefore(o, b, a)

\* Step a may come after step b.
PossiblyAfter(o, a, b) ==
  /\ a # b
  /\ a # InitId /\ b # GoalId
  /\ a = GoalId \/ b = InitId \/ ~ OrderedBefore(o, a, b)

PossiblyNotBefore(o, a, b) == PossiblyAfter(o, a, b)
PossiblyNotAfter(o, a, b)  == PossiblyBefore(o, a, b)

\* Mutant of FillTransitive: the successors of j are not passed on.
FillTransitive_OneStep(o, i, j) ==
  IF i = j \/ OrderedBefore(o, i, j) \/ i > o.high \/ j > o.high
  THEN o
  ELSE [o EXCEPT !.succ =
         [k \in RealSteps(o) |->
           IF k = i \/ OrderedBefore(o, k, i) THEN o.succ[k] \cup {j} ELSE o.succ[k]]]

\* i < j joins the closure: every step at or before i gains every step at or
\* after j.
FillTransitive(o, i, j) ==
  IF i = j \/ OrderedBefore(o, i, j) \/ i > o.high \/ j > o.high
  THEN o
  ELSE [o EXCEPT !.succ =
         [k \in RealSteps(o) |->
           IF k = i \/ OrderedBefore(o, k, i)
           THEN o.succ[k] \cup {j} \cup o.succ[j]
           ELSE o.succ[k]]]

\* The table with rows for every step up to n; the new rows are empty.
Expanded(o, n) ==
  [high |-> n,
   succ |-> [k \in 1 .. n |-> IF k \in RealSteps(o) THEN o.succ[k] ELSE {}]]

\* `refine` answers a collection, or None when a < b is inconsistent.
Refinable(o, a, b) ==
  /\ a # b /\ a # GoalId /\ b # InitId
  /\ \/ a = InitId \/ b = GoalId
     \/ ~ OrderedBefore(o, b, a)

Refine(o, a, b) ==
  IF a = InitId \/ b = GoalId \/ OrderedBefore(o, a, b)
  THEN o
  ELSE FillTransitive(o, a, b)

\* `refine_with_step` never answers None, and never looks for a cycle: its
\* callers have asked PossiblyBefore(o, a, b) first.
RefineWithStep(o, a, b, step) ==
  IF step \in {InitId, GoalId}
  THEN o
  ELSE LET grown == IF step > o.high THEN Expanded(o, step) ELSE o
       IN  IF a # InitId /\ b # GoalId THEN FillTransitive(grown, a, b) ELSE grown

(***************************************************************************)
(* `schedule`: steps in decreasing order of their number of successors     *)
(* (a stable sort), each pushing the start of its successors past its own. *)
(***************************************************************************)
\* The sort key: most successors first, by number when there are as many.
Ahead(o, a, b) ==
  \/ Cardinality(o.succ[a]) > Cardinality(o.succ[b])
  \/ Cardinality(o.succ[a]) = Cardinality(o.succ[b]) /\ a < b

\* Mutant of ScheduleOrder: fewest successors first.
ScheduleOrder_Ascending(o) ==
  CHOOSE w \in SetToSeqs(RealSteps(o)) :
    \A m, n \in 1 .. Len(w) : m < n => Ahead(o, w[n], w[m])

ScheduleOrder(o) ==
  CHOOSE w \in SetToSeqs(RealSteps(o)) :
    \A m, n \in 1 .. Len(w) : m < n => Ahead(o, w[m], w[n])

PushSuccessors(o, dist, k) ==
  [n \in RealSteps(o) |->
     IF OrderedBefore(o, k, n) /\ dist[n] < dist[k] + 1 THEN dist[k] + 1 ELSE dist[n]]

Visit(o, acc, k) ==
  [start    |-> PushSuccessors(o, acc.start, k),
   makespan |-> IF acc.start[k] > acc.makespan THEN acc.start[k] ELSE acc.makespan]

Unscheduled(o) == [start |-> [k \in RealSteps(o) |-> 1], makespan |-> 0]

Schedule(o) ==
  LET order == ScheduleOrder(o)
      after[k \in 0 .. o.high] ==
        IF k = 0 THEN Unscheduled(o) ELSE Visit(o, after[k - 1], order[k])
  IN  after[o.high]

-----------------------------------------------------------------------------
\* What a collection is: one row per real step, irreflexive and closed.
IsOrderings(o) ==
  /\ o.high \in Nat
  /\ o = [high |-> o.high, succ |-> o.succ]
  /\ o.succ \in [RealSteps(o) -> SUBSET RealSteps(o)]

IsStrictOrder(o) ==
  /\ \A k \in RealSteps(o) : k \notin o.succ[k]
  /\ \A i \in RealSteps(o) : \A j \in o.succ[i] : o.succ[j] \subseteq o.succ[i]

=============================================================================
