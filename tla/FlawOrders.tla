----------------------------- MODULE FlawOrders -----------------------------
(***************************************************************************)
(* Flaw-selection orders (src/src/heuristics.rs, FlawSelectionOrder) and   *)
(* the counts of refinements they read (src/src/plan.rs).                  *)
(*                                                                         *)
(* An order is a sequence of criteria, [flaws, max, order]:                *)
(*   flaws  the letters of its flaw types: "n" and "s" for threats that    *)
(*          cannot and can be separated, "o" for open conditions, "l" for  *)
(*          local, "t" for static and "u" for unsafe ones                  *)
(*   max    the most refinements a flaw may have, or NoLimit               *)
(*   order  how to choose among them                                       *)
(* The order R, which draws at random, is left out, and the value that the *)
(* planning graph gives to an open condition is any number.                *)
(***************************************************************************)
EXTENDS PartialPlan

CONSTANTS
  Value(_),     \* the estimate of an open condition
  None,         \* no flaw
  NoLimit,      \* stands for i32::MAX
  Orders        \* the flaw orders in use

ThreatTypes == {"n", "s"}
OpenTypes == {"o", "l", "t", "u"}

\* parse_criteria refuses an order that limits a flaw type in every criterion.
IsComplete(order) ==
  \A types \in {{"n"}, {"s"}, {"o", "l"}} :
    \E c \in DOMAIN order : order[c].flaws \cap types # {} /\ order[c].max = NoLimit

ASSUME OrdersAssumption ==
  /\ NoLimit \in Nat
  /\ \A order \in Orders : IsComplete(order)

-----------------------------------------------------------------------------
(* Counts.  None of them builds a child.                                    *)

One(condition) == IF condition THEN 1 ELSE 0

Separable(p, u) == StillThreatens(p, u) /\ StepGuard(p, u.step, u.effect) # {}
Promotable(p, u) == PossiblyBefore(p.ord, u.link.to, u.step)
Demotable(p, u) == PossiblyBefore(p.ord, u.step, u.link.from)

\* A threat that is gone has one refinement, which drops it.
UnsafeRefinements(p, u) ==
  IF StillThreatens(p, u)
  THEN One(Separable(p, u)) + One(Promotable(p, u)) + One(Demotable(p, u))
  ELSE 1

\* What make_link checks before it builds anything.
Linkable(guard, pre) == {} \notin guard /\ {} \notin pre

NewRefinements(p, oc) ==
  Cardinality({ae \in UNION {{a} \X Effects[a] : a \in Actions} :
    /\ ae[2].lit = TheLiteral(oc.goal)
    /\ Linkable(Guard(Pre[ae[1]], Effects[ae[1]], ae[2]), Pre[ae[1]])})

ReuseRefinements(p, oc) ==
  Cardinality({se \in UNION {{s} \X ActionEffects(p, s) : s \in StepIds(p)} :
    /\ se[2].lit = TheLiteral(oc.goal)
    /\ PossiblyBefore(p.ord, se[1], oc.step)
    /\ Linkable(StepGuard(p, se[1], se[2]), {})})
  + One(ClosedWorld(TheLiteral(oc.goal)))

OpenRefinements(p, oc) ==
  IF IsLiteral(oc.goal) THEN NewRefinements(p, oc) + ReuseRefinements(p, oc)
  ELSE Cardinality(HandleDisjunction(p, oc))

\* No action changes the atom; conditions of the goal are never static.
Static(oc) ==
  /\ oc.step # GoalId /\ IsLiteral(oc.goal)
  /\ \A a \in Actions : \A e \in Effects[a] : e.lit.atom # TheLiteral(oc.goal).atom

\* Selecting the condition could make a threat.
UnsafeOpenCondition(p, oc) ==
  /\ IsLiteral(oc.goal)
  /\ \E s \in StepIds(p) :
       /\ PossiblyNotBefore(p.ord, oc.step, s)
       /\ \E e \in ActionEffects(p, s) : e.lit = Neg(TheLiteral(oc.goal))

-----------------------------------------------------------------------------
(* What a scan sees of a flaw: [flaw, types, count, new, reuse, value].     *)

SeenUnsafe(p, u) ==
  [flaw |-> u, types |-> IF Separable(p, u) THEN {"s"} ELSE {"n"}, count |-> UnsafeRefinements(p, u),
   new |-> FALSE, reuse |-> FALSE, value |-> 0]

SeenOpen(p, oc, local) ==
  [flaw |-> oc,
   types |-> {"o"} \cup (IF local THEN {"l"} ELSE {}) \cup (IF Static(oc) THEN {"t"} ELSE {})
               \cup IF UnsafeOpenCondition(p, oc) THEN {"u"} ELSE {},
   count |-> OpenRefinements(p, oc),
   new |-> IsLiteral(oc.goal) /\ NewRefinements(p, oc) > 0,
   reuse |-> IsLiteral(oc.goal) /\ ReuseRefinements(p, oc) > 0,
   value |-> Value(oc)]

\* Local conditions are those of the step that the first one belongs to.
SeenOpens(p, opens) ==
  [i \in DOMAIN opens |-> SeenOpen(p, opens[i], opens[i].step = opens[1].step)]

SeenUnsafes(p, unsafes) == [i \in DOMAIN unsafes |-> SeenUnsafe(p, unsafes[i])]

Applies(crit, v) == crit.flaws \cap v.types # {} /\ v.count <= crit.max

-----------------------------------------------------------------------------
(* select.  A selection is [flaw, criterion, rank, last]; criteria after    *)
(* last are not looked at any more.                                         *)

RankOf(crit, v) == IF crit.order \in {"LR", "MR"} THEN v.count ELSE v.value

\* Mutant of Preferred: ties go to the flaw seen last.
Preferred_LastTie(crit, v, rank) ==
  CASE crit.order \in {"LIFO", "FIFO"} -> TRUE
    [] crit.order = "NEW" -> v.new
    [] crit.order = "REUSE" -> v.reuse
    [] crit.order \in {"LR", "LC"} -> RankOf(crit, v) <= rank
    [] crit.order \in {"MR", "MC"} -> RankOf(crit, v) >= rank

\* A later flaw replaces an earlier one of the same criterion.
Preferred(crit, v, rank) ==
  CASE crit.order \in {"LIFO", "FIFO"} -> TRUE
    [] crit.order = "NEW" -> v.new
    [] crit.order = "REUSE" -> v.reuse
    [] crit.order \in {"LR", "LC"} -> RankOf(crit, v) < rank
    [] crit.order \in {"MR", "MC"} -> RankOf(crit, v) > rank

\* No flaw of the same criterion can be better.
Unbeatable(crit, v) ==
  CASE crit.order = "LIFO" -> TRUE
    [] crit.order = "NEW" -> v.new
    [] crit.order = "REUSE" -> v.reuse
    [] crit.order \in {"LR", "LC"} -> RankOf(crit, v) = 0
    [] crit.order = "MR" -> v.types \cap ThreatTypes # {} /\ v.count = 3
    [] OTHER -> FALSE

OnlyLocal(crit) == crit.flaws \cap OpenTypes = {"l"}

\* One criterion of the inner loop.  A local criterion that comes last is given
\* up at the first condition of another step.
Consider(order, v, sel, c) ==
  LET crit == order[c]
      foreign == "o" \in v.types /\ "l" \notin v.types
      taken == [flaw |-> v.flaw, criterion |-> c, rank |-> RankOf(crit, v),
                last |-> IF Unbeatable(crit, v) THEN c - 1 ELSE c]
  IN  CASE c > sel.last -> sel
        [] foreign /\ OnlyLocal(crit) ->
             IF c = sel.last THEN [sel EXCEPT !.last = c - 1] ELSE sel
        [] Applies(crit, v) /\ (c < sel.criterion \/ Preferred(crit, v, sel.rank)) -> taken
        [] OTHER -> sel

Scan(order, views, sel) ==
  FoldLeft(LAMBDA outer, v :
             FoldLeft(LAMBDA inner, c : Consider(order, v, inner, c), outer, [c \in DOMAIN order |-> c]),
           sel, views)

LastOf(order, types) == Max({c \in DOMAIN order : order[c].flaws \cap types # {}})

\* select_unsafe, and select_open_cond with what it leaves.
Select(order, unsafes, opens) ==
  LET none == [flaw |-> None, criterion |-> NoLimit, rank |-> 0, last |-> LastOf(order, ThreatTypes)]
      threat == Scan(order, unsafes, none)
      lastOpen == LastOf(order, OpenTypes)
      left == IF unsafes = <<>> THEN lastOpen ELSE Min({lastOpen, threat.last})
  IN  Scan(order, opens, [threat EXCEPT !.last = left]).flaw

-----------------------------------------------------------------------------
(* What an order means.                                                     *)

\* The conditions before the first one of another step.
Leading(opens) ==
  {i \in DOMAIN opens : \A j \in 1 .. i : opens[j].step = opens[1].step}

\* The first of the flaws that has least (or most) of something.
Least(views, m(_)) == SelectSeq(views, LAMBDA v : \A w \in ToSet(views) : m(v) <= m(w))[1]

\* How to choose among flaws, threats first and the newest first of each kind.
Meant(crit, views) ==
  CASE crit.order = "LIFO" -> Head(views)
    [] crit.order = "FIFO" -> Last(views)
    [] crit.order \in {"NEW", "REUSE"} ->
         Least(views, LAMBDA v : One(~ IF crit.order = "NEW" THEN v.new ELSE v.reuse))
    [] crit.order \in {"LR", "LC"} -> Least(views, LAMBDA v : RankOf(crit, v))
    [] crit.order \in {"MR", "MC"} -> Least(views, LAMBDA v : - RankOf(crit, v))

\* The earliest criterion that some flaw meets decides.
MeantBy(order, views) ==
  LET Meeting(c) == SelectSeq(views, LAMBDA v : Applies(order[c], v))
      first == Min({c \in DOMAIN order : Meeting(c) # <<>>})
  IN  Meant(order[first], Meeting(first)).flaw

CountsAreChildren(p) ==
  /\ \A u \in BagToSet(p.unsafes) : UnsafeRefinements(p, u) = Cardinality(HandleUnsafe(p, u))
  /\ \A oc \in BagToSet(p.open) : OpenRefinements(p, oc) = Cardinality(HandleOpenCondition(p, oc))

\* A chain of the elements of a bag, in either direction.
Chains(S) == {SetToSeq(S), Reverse(SetToSeq(S))}

(* The flaw that is refined is the one the order asks for, as documented for *)
(* the criteria: of the earliest criterion that some flaw meets, the newest, *)
(* the oldest, or the one with the least or most refinements or value, and   *)
(* the counts are those of the children that refinement would generate.  In  *)
(* particular every plan with a flaw has one selected, although the scans    *)
(* look at each flaw once, at fewer and fewer criteria.                      *)
SelectionIsMeant ==
  Len(plan.acts) < MaxSteps =>
    /\ CountsAreChildren(plan)
    /\ ~ Complete(plan) =>
         \A us \in Chains(BagToSet(plan.unsafes)), ocs \in Chains(BagToSet(plan.open)) :
         \A threats \in {SeenUnsafes(plan, us)}, opens \in {SeenOpens(plan, ocs)} :
         \A order \in Orders :
           LET near == [i \in DOMAIN opens |->
                          IF i \in Leading(ocs) THEN opens[i]
                          ELSE [opens[i] EXCEPT !.types = @ \ {"l"}]]
           IN  Select(order, threats, opens) = MeantBy(order, threats \o near)
=============================================================================
