------------------------- MODULE PartialPlanProofs -------------------------
(***************************************************************************)
(* Proofs about the refinement of ground plans, for every task and every   *)
(* bound on the steps: the flaws a plan has are on its lists, a plan       *)
(* without flaws executes, and refinement keeps the executions a plan      *)
(* stands for.                                                             *)
(*                                                                         *)
(* What is proved of the three collections is about which elements they    *)
(* hold, not how often: `remove` takes one occurrence out, so at worst an  *)
(* equal one stays behind.                                                 *)
(***************************************************************************)
EXTENDS PartialPlan, OrderingsProofs

\* Nothing else is in a plan.
Fields(p) ==
  [acts |-> p.acts, ord |-> p.ord, links |-> p.links, open |-> p.open,
   unsafes |-> p.unsafes]

(***************************************************************************)
(* The type of a plan, and what goes with it: the orderings have one row   *)
(* per step, links lead from a step to a step, flaws are at steps of the   *)
(* plan, and a threat is an effect of its step, opposite to the link.      *)
(***************************************************************************)
IsPlan(p) ==
  /\ p = Fields(p)
  /\ p.acts \in Seq(Actions) /\ Len(p.acts) <= MaxSteps
  /\ IsOrderings(p.ord) /\ IsStrictOrder(p.ord) /\ p.ord.high = Len(p.acts)
  /\ \A l \in BagToSet(p.links) :
       l \in [from : StepIds(p) \ {GoalId}, to : StepIds(p) \ {InitId}, cond : Literals]
  /\ \A oc \in BagToSet(p.open) :
       oc \in [step : StepIds(p) \ {InitId}, goal : SUBSET Cubes]
  /\ \A u \in BagToSet(p.unsafes) :
       /\ u.link \in BagToSet(p.links) /\ u.step \in StepIds(p)
       /\ u.effect \in ActionEffects(p, u.step) /\ u.effect.lit = Neg(u.link.cond)

\* Child q has what its parent p has, but for flaws that were repaired: an
\* open literal is linked now, another open condition has a disjunct chosen.
Repaired(q, oc) ==
  IF IsLiteral(oc.goal)
  THEN \E k \in BagToSet(q.links) : k.to = oc.step /\ k.cond = TheLiteral(oc.goal)
  ELSE \E c \in oc.goal : \A l \in c :
         [step |-> oc.step, goal |-> LiteralGoal(l)] \in BagToSet(q.open)

Descends(p, q) ==
  /\ IsPlan(p) /\ IsPlan(q)
  /\ Len(p.acts) <= Len(q.acts) /\ \A k \in 1 .. Len(p.acts) : q.acts[k] = p.acts[k]
  /\ Refines(p.ord, q.ord)
  /\ BagToSet(p.links) \subseteq BagToSet(q.links)
  /\ \A oc \in BagToSet(p.open) : oc \in BagToSet(q.open) \/ Repaired(q, oc)

-----------------------------------------------------------------------------
(* Several fields at once.                                                  *)

LEMMA TwoUpdates ==
  ASSUME NEW p, p = Fields(p), NEW L, NEW B
  PROVE  [p EXCEPT !.links = L, !.open = B] =
           [acts |-> p.acts, ord |-> p.ord, links |-> L, open |-> B, unsafes |-> p.unsafes]
<1> DEFINE r == [p EXCEPT !.links = L]
           q == [r EXCEPT !.open = B]
<1>1. r = [acts |-> p.acts, ord |-> p.ord, links |-> L, open |-> p.open, unsafes |-> p.unsafes]
  BY DEF Fields
<1>2. [p EXCEPT !.links = L, !.open = B] = q
  OBVIOUS
<1> HIDE DEF r
<1>3. q = [acts |-> p.acts, ord |-> p.ord, links |-> L, open |-> B, unsafes |-> p.unsafes]
  BY <1>1
<1> QED BY <1>2, <1>3

LEMMA ThreeUpdates ==
  ASSUME NEW p, p = Fields(p), NEW o, NEW L, NEW B
  PROVE  [p EXCEPT !.ord = o, !.links = L, !.open = B] =
           [acts |-> p.acts, ord |-> o, links |-> L, open |-> B, unsafes |-> p.unsafes]
<1> DEFINE r == [p EXCEPT !.ord = o]
           q == [r EXCEPT !.links = L, !.open = B]
<1>1. r = [acts |-> p.acts, ord |-> o, links |-> p.links, open |-> p.open, unsafes |-> p.unsafes]
  BY DEF Fields
<1>2. [p EXCEPT !.ord = o, !.links = L, !.open = B] = q
  OBVIOUS
<1> HIDE DEF r
<1>3. r = Fields(r)
  BY <1>1 DEF Fields
<1>4. q = [acts |-> r.acts, ord |-> r.ord, links |-> L, open |-> B, unsafes |-> r.unsafes]
  BY <1>3, TwoUpdates
<1>5. r.acts = p.acts /\ r.ord = o /\ r.unsafes = p.unsafes
  BY <1>1
<1> QED BY <1>2, <1>4, <1>5

-----------------------------------------------------------------------------
(* Bags, as sets.                                                           *)

LEMMA RemovedFromBag ==
  ASSUME NEW B, NEW x
  PROVE  /\ BagToSet(Chain!BagRemove(B, x)) \subseteq BagToSet(B)
         /\ \A y \in BagToSet(B) : y # x => y \in BagToSet(Chain!BagRemove(B, x))
BY DEF Chain!BagRemove, BagToSet

LEMMA AddedToBag ==
  ASSUME NEW B, NEW x
  PROVE  BagToSet(Chain!BagAdd(B, x)) = BagToSet(B) \cup {x}
BY DEF Chain!BagAdd, BagToSet

LEMMA JoinedBags ==
  ASSUME NEW B, NEW C
  PROVE  BagToSet(B (+) C) = BagToSet(B) \cup BagToSet(C)
BY DEF BagToSet, (+)

LEMMA BagOfSet ==
  ASSUME NEW S
  PROVE  BagToSet(SetToBag(S)) = S
BY DEF BagToSet, SetToBag

LEMMA AddedGoals ==
  ASSUME NEW B, NEW C, NEW s
  PROVE  BagToSet(AddGoal(B, C, s)) = BagToSet(B) \cup UNION {BagToSet(Opened(d, s)) : d \in C}
BY DEF AddGoal, BagToSet, BagUnion, (+)

\* Literals, cubes and disjunctions are finitely many, so a disjunction with
\* one member has it.
LEMMA OneCube ==
  ASSUME NEW d \in SUBSET Cubes
  PROVE  /\ IsFiniteSet(d)
         /\ Cardinality(d) = 1 <=> \E c : d = {c}
<1>1. IsFiniteSet(Cubes)
  <2>1. IsFiniteSet(BOOLEAN)
    <3>1. IsFiniteSet({TRUE})
      BY FS_Singleton
    <3>2. IsFiniteSet({TRUE} \cup {FALSE})
      BY <3>1, FS_AddElement
    <3>3. BOOLEAN = {TRUE} \cup {FALSE}
      OBVIOUS
    <3> QED BY <3>2, <3>3
  <2>2. IsFiniteSet(Atoms \X BOOLEAN)
    BY <2>1, AtomsAssumption, FS_Product
  <2>3. IsFiniteSet(Literals)
    <3> DEFINE f == [x \in Atoms \X BOOLEAN |-> [atom |-> x[1], pos |-> x[2]]]
    <3>1. ASSUME NEW l \in Literals PROVE \E x \in Atoms \X BOOLEAN : f[x] = l
      <4>1. <<l.atom, l.pos>> \in Atoms \X BOOLEAN
        BY <3>1 DEF Literals
      <4>2. l = [atom |-> l.atom, pos |-> l.pos]
        BY <3>1 DEF Literals
      <4>3. f[<<l.atom, l.pos>>] = l
        BY <4>1, <4>2
      <4> QED BY <4>1, <4>3
    <3>2. Literals \subseteq {f[x] : x \in Atoms \X BOOLEAN}
      BY <3>1
    <3>3. f \in [Atoms \X BOOLEAN -> Literals]
      BY DEF Literals
    <3>4. \A l \in Literals : \E x \in Atoms \X BOOLEAN : f[x] = l
      BY <3>1
    <3> HIDE DEF f
    <3>5. f \in Surjection(Atoms \X BOOLEAN, Literals)
      BY <3>3, <3>4 DEF Surjection
    <3> QED BY <2>2, <3>5, FS_Surjection
  <2> QED BY <2>3, FS_SUBSET DEF Cubes
<1>2. IsFiniteSet(d)
  BY <1>1, FS_Subset
<1> QED BY <1>2, FS_Singleton

-----------------------------------------------------------------------------
(* Literals and cubes.                                                      *)

LEMMA LiteralGoals ==
  ASSUME NEW l \in Literals
  PROVE  /\ IsLiteral(LiteralGoal(l)) /\ TheLiteral(LiteralGoal(l)) = l
         /\ LiteralGoal(l) \in SUBSET Cubes
<1>1. \A m \in Literals : LiteralGoal(l) = LiteralGoal(m) => l = m
  BY DEF LiteralGoal
<1> QED BY <1>1 DEF IsLiteral, TheLiteral, LiteralGoal, Cubes

LEMMA TheLiteralOf ==
  ASSUME NEW d, IsLiteral(d)
  PROVE  TheLiteral(d) \in Literals /\ d = LiteralGoal(TheLiteral(d))
BY DEF IsLiteral, TheLiteral

LEMMA NegatedLiteral ==
  ASSUME NEW l \in Literals
  PROVE  /\ Neg(l) \in Literals /\ Neg(l).atom = l.atom /\ Neg(l).pos = ~ l.pos
         /\ Neg(Neg(l)) = l
BY DEF Neg, Literals

LEMMA NegatedCubes ==
  ASSUME NEW c \in SUBSET Literals
  PROVE  NegatedCube(c) \in SUBSET Literals
BY NegatedLiteral DEF NegatedCube

\* What a goal opens at a step.
LEMMA OpenedGoal ==
  ASSUME NEW d \in SUBSET Cubes, NEW s
  PROVE  \/ BagToSet(Opened(d, s)) = {[step |-> s, goal |-> d]}
         \/ \E c : /\ d = {c}
                   /\ BagToSet(Opened(d, s)) = {[step |-> s, goal |-> LiteralGoal(l)] : l \in c}
<1>1. CASE Cardinality(d) = 1
  <2>1. PICK c : d = {c}
    BY <1>1, OneCube
  <2>2. UNION d = c
    BY <2>1
  <2>3. Opened(d, s) = SetToBag({[step |-> s, goal |-> LiteralGoal(l)] : l \in c})
    BY <1>1, <2>2 DEF Opened
  <2> QED BY <2>1, <2>3, BagOfSet
<1>2. CASE Cardinality(d) # 1
  BY <1>2, BagOfSet DEF Opened
<1> QED BY <1>1, <1>2

LEMMA OpenedType ==
  ASSUME NEW C \in SUBSET (SUBSET Cubes), NEW S, NEW s \in S, NEW B,
         \A oc \in BagToSet(B) : oc \in [step : S, goal : SUBSET Cubes]
  PROVE  \A oc \in BagToSet(AddGoal(B, C, s)) : oc \in [step : S, goal : SUBSET Cubes]
<1> SUFFICES ASSUME NEW d \in C, NEW oc \in BagToSet(Opened(d, s))
             PROVE  oc \in [step : S, goal : SUBSET Cubes]
  BY AddedGoals
<1>1. CASE oc = [step |-> s, goal |-> d]
  BY <1>1
<1>2. CASE oc # [step |-> s, goal |-> d]
  <2>1. PICK c : d = {c} /\ BagToSet(Opened(d, s)) =
                              {[step |-> s, goal |-> LiteralGoal(l)] : l \in c}
    BY <1>2, OpenedGoal
  <2>2. PICK l \in c : oc = [step |-> s, goal |-> LiteralGoal(l)]
    BY <2>1
  <2>3. l \in Literals
    BY <2>1 DEF Cubes
  <2> QED BY <2>2, <2>3, LiteralGoals
<1> QED BY <1>1, <1>2

-----------------------------------------------------------------------------
(* The task.                                                                *)

IsEffect(e) == e \in [cond : Cubes, lit : Literals]

LEMMA TaskTypes ==
  ASSUME problem \in Problems
  PROVE  /\ \A a \in Actions : Pre[a] \in SUBSET (SUBSET Cubes)
         /\ \A a \in Actions : \A e \in Effects[a] : IsEffect(e)
         /\ InitAtoms \subseteq Atoms /\ Goal \in SUBSET (SUBSET Cubes)
<1>1. /\ problem.pre \in [problem.acts -> SUBSET ((SUBSET Cubes) \ {{}})]
      /\ problem.effects \in [problem.acts -> SUBSET [cond : Cubes, lit : Literals]]
      /\ problem.init \subseteq Atoms
      /\ problem.goal \in SUBSET ((SUBSET Cubes) \ {{}})
  BY TaskAssumption
<1>2. \A a \in Actions : Pre[a] \in SUBSET (SUBSET Cubes)
  BY <1>1 DEF Actions, Pre
<1>3. \A a \in Actions : \A e \in Effects[a] : IsEffect(e)
  BY <1>1 DEF Actions, Effects, IsEffect
<1> QED BY <1>1, <1>2, <1>3 DEF InitAtoms, Goal

\* The ids of a plan.
LEMMA Ids ==
  ASSUME NEW p, IsPlan(p)
  PROVE  /\ Len(p.acts) \in Nat /\ RealSteps(p.ord) = 1 .. Len(p.acts)
         /\ InitId # GoalId /\ GoalId \notin RealSteps(p.ord) /\ InitId \notin RealSteps(p.ord)
         /\ StepIds(p) = {InitId, GoalId} \cup RealSteps(p.ord)
         /\ StepIds(p) \ {GoalId} = {InitId} \cup RealSteps(p.ord)
         /\ StepIds(p) \ {InitId} = {GoalId} \cup RealSteps(p.ord)
         /\ \A s \in RealSteps(p.ord) : p.acts[s] \in Actions
<1>1. /\ Len(p.acts) \in Nat /\ Len(p.acts) <= MaxSteps /\ p.ord.high = Len(p.acts)
      /\ \A s \in 1 .. Len(p.acts) : p.acts[s] \in Actions
  BY DEF IsPlan
<1>2. RealSteps(p.ord) = 1 .. Len(p.acts)
  BY <1>1 DEF RealSteps
<1>3. InitId # GoalId /\ GoalId \notin RealSteps(p.ord) /\ InitId \notin RealSteps(p.ord)
  BY <1>1, <1>2, MaxStepsAssumption DEF InitId, GoalId
<1>4. StepIds(p) = {InitId, GoalId} \cup RealSteps(p.ord)
  BY <1>2 DEF StepIds
<1>5. StepIds(p) \ {GoalId} = {InitId} \cup RealSteps(p.ord)
  BY <1>3, <1>4
<1>6. StepIds(p) \ {InitId} = {GoalId} \cup RealSteps(p.ord)
  BY <1>3, <1>4
<1> QED BY <1>1, <1>2, <1>3, <1>4, <1>5, <1>6

\* The effects of a step, and where they can be: not at the goal, and those
\* of the initial step are its atoms, without a guard.
LEMMA EffectTypes ==
  ASSUME problem \in Problems, NEW p, IsPlan(p), NEW s \in StepIds(p),
         NEW e \in ActionEffects(p, s)
  PROVE  /\ IsEffect(e) /\ s # GoalId
         /\ ActionPre(p, s) \in SUBSET (SUBSET Cubes)
         /\ \A f \in ActionEffects(p, s) : IsEffect(f)
         /\ s = InitId => StepGuard(p, s, e) = {} /\ e.lit.pos /\ e.lit.atom \in InitAtoms
<1>1. s # GoalId
  BY DEF ActionEffects
<1>2. CASE s = InitId
  <2>1. PICK a \in InitAtoms : e = [cond |-> {}, lit |-> Lit(a)]
    BY <1>1, <1>2 DEF ActionEffects
  <2>2. /\ \A b \in InitAtoms : IsEffect([cond |-> {}, lit |-> Lit(b)])
        /\ Lit(a).pos /\ Lit(a).atom = a
    BY TaskTypes DEF Lit, Literals, IsEffect, Cubes
  <2>5. \A f \in ActionEffects(p, s) : IsEffect(f)
    BY <1>1, <1>2, <2>2 DEF ActionEffects
  <2>3. ActionPre(p, s) = {}
    BY <1>1, <1>2 DEF ActionPre
  <2>4. StepGuard(p, s, e) = {}
    <3>1. e.cond = {} /\ e.lit.pos
      BY <2>1, <2>2
    <3>2. {{l} : l \in e.cond} = {} /\ AddSeparators(ActionEffects(p, s), e) = {}
      BY <3>1 DEF AddSeparators
    <3>3. PreconditionSeparators({}, e) = {}
      BY DEF PreconditionSeparators
    <3> QED BY <2>3, <3>2, <3>3 DEF StepGuard, Guard
  <2> QED BY <1>1, <2>1, <2>2, <2>3, <2>4, <2>5
<1>3. CASE s # InitId
  <2>1. s \in RealSteps(p.ord) /\ p.acts[s] \in Actions
    BY <1>1, <1>3, Ids
  <2>2. ActionEffects(p, s) = Effects[p.acts[s]] /\ ActionPre(p, s) = Pre[p.acts[s]]
    BY <1>1, <1>3 DEF ActionEffects, ActionPre
  <2> QED BY <1>1, <1>3, <2>1, <2>2, TaskTypes
<1> QED BY <1>2, <1>3

LEMMA PreTypes ==
  ASSUME problem \in Problems, NEW p, IsPlan(p), NEW s \in StepIds(p)
  PROVE  ActionPre(p, s) \in SUBSET (SUBSET Cubes) /\ ActionPre(p, InitId) = {}
<1>1. ActionPre(p, InitId) = {}
  BY Ids DEF ActionPre
<1>2. ActionPre(p, GoalId) \in SUBSET (SUBSET Cubes)
  BY TaskTypes DEF ActionPre
<1>3. ASSUME s # InitId, s # GoalId PROVE ActionPre(p, s) \in SUBSET (SUBSET Cubes)
  <2>1. s \in RealSteps(p.ord) /\ p.acts[s] \in Actions
    BY <1>3, Ids
  <2> QED BY <1>3, <2>1, TaskTypes DEF ActionPre
<1> QED BY <1>1, <1>2, <1>3

\* Guards are conjunctions of clauses.
LEMMA GuardTypes ==
  ASSUME NEW pre \in SUBSET (SUBSET Cubes), NEW E, \A f \in E : IsEffect(f),
         NEW e \in E
  PROVE  /\ Guard(pre, E, e) \in SUBSET (SUBSET Literals)
         /\ \A c \in Guard(pre, E, e) : AsDisjunction(c) \in SUBSET Cubes
         /\ Confrontation(Guard(pre, E, e)) \in SUBSET Cubes
<1>1. \A f \in E : f.cond \in SUBSET Literals /\ f.lit \in Literals
  BY DEF IsEffect, Cubes
<1>2. \A l \in e.cond : {l} \in SUBSET Literals
  BY <1>1
<1>3. ASSUME NEW c \in AddSeparators(E, e) PROVE c \in SUBSET Literals
  BY <1>1, NegatedCubes DEF AddSeparators
<1>4. ASSUME NEW c \in PreconditionSeparators(pre, e) PROVE c \in SUBSET Literals
  <2>1. PICK d \in pre :
          c \in IF \E k \in d : d = {k} /\ e.lit \in k
                THEN {{}}
                ELSE {NegatedCube(k) : k \in {k \in d : Cardinality(d) > 1 /\ e.lit \in k}}
    BY <1>4 DEF PreconditionSeparators
  <2>2. d \in SUBSET (SUBSET Literals)
    BY DEF Cubes
  <2> QED BY <2>1, <2>2, NegatedCubes
<1>5. Guard(pre, E, e) \in SUBSET (SUBSET Literals)
  BY <1>2, <1>3, <1>4 DEF Guard
<1>6. \A c \in SUBSET Literals : AsDisjunction(c) \in SUBSET Cubes
  BY DEF AsDisjunction, Cubes
<1>7. Confrontation(Guard(pre, E, e)) \in SUBSET Cubes
  BY <1>5, NegatedCubes DEF Confrontation, Cubes
<1> QED BY <1>5, <1>6, <1>7

-----------------------------------------------------------------------------
(* What descendants keep.                                                   *)

\* A goal that was added is taken care of.
LEMMA AddedIsCovered ==
  ASSUME NEW q, NEW B, NEW C, NEW s, NEW d \in C, d \in SUBSET Cubes,
         BagToSet(AddGoal(B, C, s)) \subseteq BagToSet(q.open)
  PROVE  Covered(q, d, s)
<1>1. BagToSet(Opened(d, s)) \subseteq BagToSet(q.open)
  BY AddedGoals
<1>2. CASE BagToSet(Opened(d, s)) = {[step |-> s, goal |-> d]}
  BY <1>1, <1>2 DEF Covered
<1>3. CASE BagToSet(Opened(d, s)) # {[step |-> s, goal |-> d]}
  <2>1. PICK c : d = {c} /\ BagToSet(Opened(d, s)) =
                              {[step |-> s, goal |-> LiteralGoal(l)] : l \in c}
    BY <1>3, OpenedGoal
  <2>2. c \in d /\ \A l \in c : [step |-> s, goal |-> LiteralGoal(l)] \in BagToSet(q.open)
    BY <1>1, <2>1
  <2> QED BY <2>2 DEF Covered
<1> QED BY <1>2, <1>3

\* What is taken care of stays taken care of.
LEMMA CoverKept ==
  ASSUME NEW p, NEW q, Descends(p, q), NEW d, NEW s, Covered(p, d, s)
  PROVE  Covered(q, d, s)
<1>1. \A k \in BagToSet(p.links) : k \in BagToSet(q.links)
  BY DEF Descends
<1>2. ASSUME NEW l, [step |-> s, goal |-> LiteralGoal(l)] \in BagToSet(p.open), l \in Literals
      PROVE  \/ [step |-> s, goal |-> LiteralGoal(l)] \in BagToSet(q.open)
             \/ \E k \in BagToSet(q.links) : k.to = s /\ k.cond = l
  <2> DEFINE oc == [step |-> s, goal |-> LiteralGoal(l)]
  <2>1. oc \in BagToSet(q.open) \/ Repaired(q, oc)
    BY <1>2 DEF Descends
  <2>2. IsLiteral(oc.goal) /\ TheLiteral(oc.goal) = l /\ oc.step = s
    BY <1>2, LiteralGoals
  <2> QED BY <2>1, <2>2 DEF Repaired
<1>3. CASE [step |-> s, goal |-> d] \in BagToSet(p.open)
  <2> DEFINE oc == [step |-> s, goal |-> d]
  <2>1. oc \in BagToSet(q.open) \/ Repaired(q, oc)
    BY <1>3 DEF Descends
  <2>2. CASE oc \in BagToSet(q.open)
    BY <2>2 DEF Covered
  <2>3. CASE Repaired(q, oc) /\ ~ IsLiteral(d)
    <3>1. \E c \in d : \A l \in c : [step |-> s, goal |-> LiteralGoal(l)] \in BagToSet(q.open)
      BY <2>3 DEF Repaired
    <3> QED BY <3>1 DEF Covered
  <2>4. CASE Repaired(q, oc) /\ IsLiteral(d)
    <3> DEFINE m == TheLiteral(d)
    <3>1. {m} \in d /\ \A l \in {m} : l = m
      BY <2>4, TheLiteralOf DEF LiteralGoal
    <3>2. \E k \in BagToSet(q.links) : k.to = s /\ k.cond = m
      BY <2>4 DEF Repaired
    <3> HIDE DEF oc, m
    <3>3. \A l \in {m} : \E k \in BagToSet(q.links) : k.to = s /\ k.cond = l
      BY <3>1, <3>2
    <3> QED BY <3>1, <3>3 DEF Covered
  <2> QED BY <2>1, <2>2, <2>3, <2>4
<1>4. CASE \E c \in d : \A l \in c :
             \/ [step |-> s, goal |-> LiteralGoal(l)] \in BagToSet(p.open)
             \/ \E k \in BagToSet(p.links) : k.to = s /\ k.cond = l
  <2>1. PICK c \in d : \A l \in c :
             \/ [step |-> s, goal |-> LiteralGoal(l)] \in BagToSet(p.open)
             \/ \E k \in BagToSet(p.links) : k.to = s /\ k.cond = l
    BY <1>4
  <2>2. ASSUME NEW l \in c
        PROVE  \/ [step |-> s, goal |-> LiteralGoal(l)] \in BagToSet(q.open)
               \/ \E k \in BagToSet(q.links) : k.to = s /\ k.cond = l
    <3>1. CASE [step |-> s, goal |-> LiteralGoal(l)] \in BagToSet(p.open)
      <4>1. [step |-> s, goal |-> LiteralGoal(l)].goal \in SUBSET Cubes
        BY <3>1 DEF Descends, IsPlan
      <4>2. l \in Literals
        BY <4>1 DEF LiteralGoal, Cubes
      <4> QED BY <1>2, <3>1, <4>2
    <3> QED BY <1>1, <2>1, <3>1
  <2> QED BY <2>1, <2>2 DEF Covered
<1> QED BY <1>3, <1>4 DEF Covered

\* Old steps are what they were.
LEMMA StepsKept ==
  ASSUME NEW p, NEW q, Descends(p, q)
  PROVE  /\ StepIds(p) \subseteq StepIds(q)
         /\ \A s \in StepIds(p) :
              /\ ActionPre(q, s) = ActionPre(p, s)
              /\ ActionEffects(q, s) = ActionEffects(p, s)
<1>1. IsPlan(p) /\ IsPlan(q) /\ RealSteps(p.ord) \subseteq RealSteps(q.ord)
  BY DEF Descends, Refines
<1>2. \A s \in RealSteps(p.ord) : q.acts[s] = p.acts[s]
  BY <1>1, Ids DEF Descends
<1>3. StepIds(p) \subseteq StepIds(q)
  BY <1>1, Ids
<1>4. \A s \in StepIds(p) : s # GoalId /\ s # InitId => q.acts[s] = p.acts[s]
  BY <1>1, <1>2, Ids
<1> QED BY <1>3, <1>4 DEF ActionPre, ActionEffects

LEMMA GuardsKept ==
  ASSUME NEW p, NEW q, Descends(p, q), NEW s \in StepIds(p)
  PROVE  /\ \A e : StepGuard(q, s, e) = StepGuard(p, s, e)
         /\ \A l : Clobbering(q, s, l) = Clobbering(p, s, l)
<1>1. ActionPre(q, s) = ActionPre(p, s) /\ ActionEffects(q, s) = ActionEffects(p, s)
  BY StepsKept
<1>2. \A e : StepGuard(q, s, e) = StepGuard(p, s, e)
  BY <1>1 DEF StepGuard
<1> QED BY <1>1, <1>2 DEF Clobbering

\* Fewer steps can come between producer and consumer.
LEMMA PlacementsShrink ==
  ASSUME NEW p, NEW q, Descends(p, q), NEW l, NEW s,
         PlacementAdmits(q.ord, l, s)
  PROVE  PlacementAdmits(p.ord, l, s)
<1>1. \A a, b : OrderedBefore(p.ord, a, b) => OrderedBefore(q.ord, a, b)
  BY DEF Descends, Refines, OrderedBefore
<1> QED BY <1>1 DEF PlacementAdmits, PossiblyNotAfter, PossiblyNotBefore,
                    PossiblyBefore, PossiblyAfter

-----------------------------------------------------------------------------
(* When a child is sound because its parent is: what is new in it has to be  *)
(* looked at, and the threats that were dropped.                            *)

Accounted(p, l, s) ==
  PlacementAdmits(p.ord, l, s) =>
    \A e \in Clobbering(p, s, l) :
      \/ [link |-> l, step |-> s, effect |-> e] \in BagToSet(p.unsafes)
      \/ Covered(p, Confrontation(StepGuard(p, s, e)), s)

Sound(p) ==
  IsPlan(p) /\ LinksRunForward(p) /\ ConditionsCovered(p) /\ ThreatsAccounted(p)

LEMMA RunsForward ==
  ASSUME NEW p, IsPlan(p), NEW a \in StepIds(p) \ {GoalId}, NEW b \in StepIds(p) \ {InitId}
  PROVE  RunsBefore(p.ord, a, b) <=> PossiblyBefore(p.ord, a, b) /\ ~ PossiblyBefore(p.ord, b, a)
<1>1. InitId # GoalId /\ a # GoalId /\ b # InitId
  BY Ids
<1>2. OrderedBefore(p.ord, a, b) => ~ OrderedBefore(p.ord, b, a)
  <2> SUFFICES ASSUME OrderedBefore(p.ord, a, b), OrderedBefore(p.ord, b, a) PROVE FALSE
    OBVIOUS
  <2>1. /\ a \in RealSteps(p.ord) /\ b \in RealSteps(p.ord)
        /\ b \in p.ord.succ[a] /\ a \in p.ord.succ[b]
    BY DEF OrderedBefore
  <2> QED BY <2>1 DEF IsPlan, IsStrictOrder
<1>3. OrderedBefore(p.ord, a, b) => a # b
  BY DEF OrderedBefore
<1> QED BY <1>1, <1>2, <1>3 DEF RunsBefore, PossiblyBefore

LEMMA LinksStayForward ==
  ASSUME NEW p, NEW q, Descends(p, q), LinksRunForward(p),
         \A l \in BagToSet(q.links) : l \in BagToSet(p.links) \/ RunsBefore(q.ord, l.from, l.to)
  PROVE  LinksRunForward(q)
<1> SUFFICES ASSUME NEW l \in BagToSet(q.links)
             PROVE  PossiblyBefore(q.ord, l.from, l.to) /\ ~ PossiblyBefore(q.ord, l.to, l.from)
  BY DEF LinksRunForward
<1>1. IsPlan(p) /\ IsPlan(q)
  BY DEF Descends
<1>2. l.from \in StepIds(q) \ {GoalId} /\ l.to \in StepIds(q) \ {InitId}
  BY <1>1 DEF IsPlan
<1>3. CASE RunsBefore(q.ord, l.from, l.to)
  BY <1>1, <1>2, <1>3, RunsForward
<1>4. CASE l \in BagToSet(p.links)
  <2>1. l.from \in StepIds(p) \ {GoalId} /\ l.to \in StepIds(p) \ {InitId}
    BY <1>1, <1>4 DEF IsPlan
  <2>2. RunsBefore(p.ord, l.from, l.to)
    BY <1>1, <1>4, <2>1, RunsForward DEF LinksRunForward
  <2>3. RunsBefore(q.ord, l.from, l.to)
    BY <2>2 DEF RunsBefore, OrderedBefore, Descends, Refines
  <2> QED BY <1>1, <1>2, <2>3, RunsForward
<1> QED BY <1>3, <1>4

LEMMA ConditionsStayCovered ==
  ASSUME NEW p, NEW q, Descends(p, q), ConditionsCovered(p),
         \A s \in StepIds(q) \ StepIds(p) : \A d \in ActionPre(q, s) : Covered(q, d, s),
         \A l \in BagToSet(q.links) : l \in BagToSet(p.links) \/ Supported(q, l)
  PROVE  ConditionsCovered(q)
<1>1. ASSUME NEW s \in StepIds(p), NEW d \in ActionPre(q, s) PROVE Covered(q, d, s)
  <2>1. Covered(p, d, s)
    BY StepsKept DEF ConditionsCovered
  <2> QED BY <2>1, CoverKept
<1>2. ASSUME NEW l \in BagToSet(p.links) PROVE Supported(q, l)
  <2>1. Supported(p, l)
    BY DEF ConditionsCovered
  <2>2. CASE l.from = InitId /\ ClosedWorld(l.cond)
    BY <2>2 DEF Supported
  <2>3. CASE ~ (l.from = InitId /\ ClosedWorld(l.cond))
    <3>1. PICK e \in ActionEffects(p, l.from) :
            /\ e.lit = l.cond
            /\ \A c \in StepGuard(p, l.from, e) : Covered(p, AsDisjunction(c), l.from)
      BY <2>1, <2>3 DEF Supported
    <3>2. l.from \in StepIds(p)
      BY DEF Descends, IsPlan
    <3>3. e \in ActionEffects(q, l.from) /\ StepGuard(q, l.from, e) = StepGuard(p, l.from, e)
      BY <3>2, StepsKept, GuardsKept
    <3>4. \A c \in StepGuard(q, l.from, e) : Covered(q, AsDisjunction(c), l.from)
      BY <3>1, <3>3, CoverKept
    <3> QED BY <3>1, <3>3, <3>4 DEF Supported
  <2> QED BY <2>2, <2>3
<1> QED BY <1>1, <1>2 DEF ConditionsCovered

LEMMA ThreatsStayAccounted ==
  ASSUME NEW p, NEW q, Descends(p, q), ThreatsAccounted(p),
         \A l \in BagToSet(q.links), s \in StepIds(q) :
           (l \in BagToSet(p.links) /\ s \in StepIds(p)) \/ Accounted(q, l, s),
         \A u \in BagToSet(p.unsafes) :
           \/ u \in BagToSet(q.unsafes)
           \/ ~ PlacementAdmits(q.ord, u.link, u.step)
           \/ u.effect \notin Clobbering(p, u.step, u.link)
           \/ Covered(q, Confrontation(StepGuard(p, u.step, u.effect)), u.step)
  PROVE  ThreatsAccounted(q)
<1>1. ASSUME NEW l \in BagToSet(p.links), NEW s \in StepIds(p) PROVE Accounted(q, l, s)
  <2> SUFFICES ASSUME PlacementAdmits(q.ord, l, s), NEW e \in Clobbering(q, s, l)
               PROVE  \/ [link |-> l, step |-> s, effect |-> e] \in BagToSet(q.unsafes)
                      \/ Covered(q, Confrontation(StepGuard(q, s, e)), s)
    BY DEF Accounted
  <2>1. e \in Clobbering(p, s, l) /\ StepGuard(q, s, e) = StepGuard(p, s, e)
    BY GuardsKept
  <2>2. PlacementAdmits(p.ord, l, s)
    BY PlacementsShrink
  <2>3. \/ [link |-> l, step |-> s, effect |-> e] \in BagToSet(p.unsafes)
        \/ Covered(p, Confrontation(StepGuard(p, s, e)), s)
    BY <2>1, <2>2 DEF ThreatsAccounted
  <2>4. CASE Covered(p, Confrontation(StepGuard(p, s, e)), s)
    BY <2>1, <2>4, CoverKept
  <2>5. CASE [link |-> l, step |-> s, effect |-> e] \in BagToSet(p.unsafes)
    <3> DEFINE u == [link |-> l, step |-> s, effect |-> e]
    <3>1. u.link = l /\ u.step = s /\ u.effect = e /\ u \in BagToSet(p.unsafes)
      BY <2>5
    <3>2. \/ u \in BagToSet(q.unsafes)
          \/ Covered(q, Confrontation(StepGuard(p, s, e)), s)
      BY <2>1, <3>1
    <3> QED BY <2>1, <3>2
  <2> QED BY <2>3, <2>4, <2>5
<1>2. \A l \in BagToSet(q.links), s \in StepIds(q) : Accounted(q, l, s)
  BY <1>1
<1> QED BY <1>2 DEF ThreatsAccounted, Accounted

-----------------------------------------------------------------------------
(* Repairs of a threat.                                                     *)

\* A child with the steps and the links of its parent.
LEMMA SameSteps ==
  ASSUME NEW p, IsPlan(p), NEW o, NEW B, NEW U,
         Refines(p.ord, o), o.high = p.ord.high,
         \A oc \in BagToSet(B) : oc \in [step : StepIds(p) \ {InitId}, goal : SUBSET Cubes],
         BagToSet(p.open) \subseteq BagToSet(B),
         BagToSet(U) \subseteq BagToSet(p.unsafes)
  PROVE  LET q == [acts |-> p.acts, ord |-> o, links |-> p.links, open |-> B, unsafes |-> U]
         IN  Descends(p, q) /\ StepIds(q) = StepIds(p)
<1> DEFINE q == [acts |-> p.acts, ord |-> o, links |-> p.links, open |-> B, unsafes |-> U]
<1>1. StepIds(q) = StepIds(p)
  BY DEF StepIds
<1>2. \A s : ActionEffects(q, s) = ActionEffects(p, s)
  BY DEF ActionEffects
<1>3. q = [acts |-> q.acts, ord |-> q.ord, links |-> q.links, open |-> q.open,
           unsafes |-> q.unsafes]
  OBVIOUS
<1>4. /\ q.acts = p.acts /\ q.ord = o /\ q.links = p.links /\ q.open = B /\ q.unsafes = U
  OBVIOUS
<1> HIDE DEF q
<1>5. IsPlan(q)
  BY <1>1, <1>2, <1>3, <1>4 DEF IsPlan, Fields, Refines
<1>6. Len(p.acts) <= Len(q.acts)
  BY <1>4 DEF IsPlan
<1>7. Descends(p, q)
  BY <1>4, <1>5, <1>6 DEF Descends
<1> QED BY <1>1, <1>7 DEF q

\* What is left to show of such a child is the threat that was taken off.
LEMMA RepairIsSound ==
  ASSUME NEW p, Sound(p), NEW q, Descends(p, q), StepIds(q) = StepIds(p),
         q.links = p.links, NEW u \in BagToSet(p.unsafes),
         \A v \in BagToSet(p.unsafes) : v # u => v \in BagToSet(q.unsafes),
         \/ ~ PlacementAdmits(q.ord, u.link, u.step)
         \/ u.effect \notin Clobbering(p, u.step, u.link)
         \/ Covered(q, Confrontation(StepGuard(p, u.step, u.effect)), u.step)
  PROVE  Sound(q)
<1>1. LinksRunForward(q)
  BY LinksStayForward DEF Sound
<1>2. ConditionsCovered(q)
  BY ConditionsStayCovered DEF Sound
<1>3. ThreatsAccounted(q)
  BY ThreatsStayAccounted DEF Sound
<1> QED BY <1>1, <1>2, <1>3 DEF Sound, Descends

LEMMA ResolvedFields ==
  ASSUME NEW p, IsPlan(p), NEW u \in BagToSet(p.unsafes)
  PROVE  /\ Resolved(p, u) = [acts |-> p.acts, ord |-> p.ord, links |-> p.links,
                              open |-> p.open, unsafes |-> Chain!BagRemove(p.unsafes, u)]
         /\ BagToSet(Chain!BagRemove(p.unsafes, u)) \subseteq BagToSet(p.unsafes)
         /\ \A v \in BagToSet(p.unsafes) :
              v # u => v \in BagToSet(Chain!BagRemove(p.unsafes, u))
<1>1. p = [acts |-> p.acts, ord |-> p.ord, links |-> p.links, open |-> p.open,
           unsafes |-> p.unsafes]
  BY DEF IsPlan, Fields
<1> DEFINE U == Chain!BagRemove(p.unsafes, u)
<1>2. Resolved(p, u) = [p EXCEPT !.unsafes = U]
  BY DEF Resolved
<1> HIDE DEF U
<1>3. Resolved(p, u) = [acts |-> p.acts, ord |-> p.ord, links |-> p.links,
                        open |-> p.open, unsafes |-> U]
  BY <1>1, <1>2
<1> QED BY <1>3, RemovedFromBag DEF U

LEMMA OwnRefinement ==
  ASSUME NEW p, IsPlan(p)
  PROVE  Refines(p.ord, p.ord)
BY DEF IsPlan, Refines, IsOrderings

\* A recorded threat that the orderings have moved away.
LEMMA DroppedIsSound ==
  ASSUME problem \in Problems, NEW p, Sound(p), NEW u \in BagToSet(p.unsafes),
         ~ StillThreatens(p, u)
  PROVE  Sound(Resolved(p, u)) /\ Descends(p, Resolved(p, u))
<1> DEFINE q == Resolved(p, u)
<1>1. IsPlan(p)
  BY DEF Sound
<1>2. /\ q.ord = p.ord /\ q.links = p.links
      /\ \A v \in BagToSet(p.unsafes) : v # u => v \in BagToSet(q.unsafes)
  BY <1>1, ResolvedFields
<1>3. Descends(p, q) /\ StepIds(q) = StepIds(p)
  <2>1. \A oc \in BagToSet(p.open) : oc \in [step : StepIds(p) \ {InitId}, goal : SUBSET Cubes]
    BY <1>1 DEF IsPlan
  <2> QED BY <1>1, <2>1, ResolvedFields, OwnRefinement, SameSteps
<1>4. \/ ~ PlacementAdmits(q.ord, u.link, u.step)
      \/ u.effect \notin Clobbering(p, u.step, u.link)
  BY <1>2 DEF StillThreatens, PlacementAdmits, Clobbering
<1> HIDE DEF q
<1>5. Sound(q)
  BY <1>2, <1>3, <1>4, RepairIsSound
<1> QED BY <1>3, <1>5 DEF q

\* Confrontation: the negated guard has become a goal.
LEMMA SeparatedIsSound ==
  ASSUME problem \in Problems, NEW p, Sound(p), NEW u \in BagToSet(p.unsafes),
         NEW q \in Separate(p, u)
  PROVE  Sound(q) /\ Descends(p, q)
<1> DEFINE guard == StepGuard(p, u.step, u.effect)
           goal == Confrontation(guard)
           B == AddGoal(p.open, {goal}, u.step)
           U == Chain!BagRemove(p.unsafes, u)
<1>1. IsPlan(p)
  BY DEF Sound
<1>2. guard # {} /\ q = [Resolved(p, u) EXCEPT !.open = B]
  BY DEF Separate
<1>3. q = [acts |-> p.acts, ord |-> p.ord, links |-> p.links, open |-> B, unsafes |-> U]
  BY <1>1, <1>2, ResolvedFields
<1>4. /\ u.step \in StepIds(p) /\ u.effect \in ActionEffects(p, u.step) /\ u.step # InitId
  BY <1>1, <1>2, EffectTypes DEF IsPlan
<1>5. goal \in SUBSET Cubes
  <2>1. /\ ActionPre(p, u.step) \in SUBSET (SUBSET Cubes)
        /\ \A f \in ActionEffects(p, u.step) : IsEffect(f)
    BY <1>1, <1>4, EffectTypes
  <2> DEFINE pre == ActionPre(p, u.step)
             E == ActionEffects(p, u.step)
  <2>2. guard = Guard(pre, E, u.effect)
    BY DEF StepGuard
  <2>3. pre \in SUBSET (SUBSET Cubes) /\ u.effect \in E /\ \A f \in E : IsEffect(f)
    BY <1>4, <2>1
  <2> HIDE DEF pre, E, guard
  <2>4. Confrontation(Guard(pre, E, u.effect)) \in SUBSET Cubes
    <3> DEFINE e == u.effect
    <3>1. pre \in SUBSET (SUBSET Cubes) /\ e \in E /\ \A f \in E : IsEffect(f)
      BY <2>3
    <3> HIDE DEF e
    <3>2. Confrontation(Guard(pre, E, e)) \in SUBSET Cubes
      BY ONLY <3>1, GuardTypes
    <3> QED BY <3>2 DEF e
  <2> QED BY <2>2, <2>4
<1>6. /\ \A oc \in BagToSet(B) : oc \in [step : StepIds(p) \ {InitId}, goal : SUBSET Cubes]
      /\ BagToSet(p.open) \subseteq BagToSet(B)
  <2>1. \A oc \in BagToSet(p.open) : oc \in [step : StepIds(p) \ {InitId}, goal : SUBSET Cubes]
    BY <1>1 DEF IsPlan
  <2> DEFINE S == StepIds(p) \ {InitId}
             C == {goal}
  <2>2. C \in SUBSET (SUBSET Cubes) /\ u.step \in S
    BY <1>4, <1>5
  <2>3. BagToSet(p.open) \subseteq BagToSet(B)
    BY AddedGoals
  <2>4. B = AddGoal(p.open, C, u.step)
    OBVIOUS
  <2> HIDE DEF goal, S, C, B
  <2>5. \A oc \in BagToSet(B) : oc \in [step : S, goal : SUBSET Cubes]
    BY <2>1, <2>2, <2>4, OpenedType DEF S
  <2> QED BY <2>3, <2>5 DEF S
<1> HIDE DEF B
<1>7. Descends(p, q) /\ StepIds(q) = StepIds(p)
  BY <1>1, <1>3, <1>6, ResolvedFields, OwnRefinement, SameSteps
<1>8. /\ q.links = p.links /\ q.open = B
      /\ \A v \in BagToSet(p.unsafes) : v # u => v \in BagToSet(q.unsafes)
  BY <1>1, <1>3, ResolvedFields
<1>9. Covered(q, goal, u.step)
  BY <1>5, <1>8, AddedIsCovered DEF B
<1>10. Sound(q)
  BY <1>7, <1>8, <1>9, RepairIsSound
<1> QED BY <1>7, <1>10

\* Promotion and demotion: the step can no longer come between.
LEMMA OrderedIsSound ==
  ASSUME NEW p, Sound(p), NEW u \in BagToSet(p.unsafes), NEW a, NEW b,
         \/ a = u.link.to /\ b = u.step
         \/ a = u.step /\ b = u.link.from,
         PossiblyBefore(p.ord, a, b), NEW q \in NewOrdering(p, a, b, u),
         u.step # GoalId
  PROVE  Sound(q) /\ Descends(p, q)
<1> DEFINE o == Refine(p.ord, a, b)
           U == Chain!BagRemove(p.unsafes, u)
<1>1. IsPlan(p)
  BY DEF Sound
<1>2. Refinable(p.ord, a, b) /\ q = [Resolved(p, u) EXCEPT !.ord = o]
  BY DEF NewOrdering
<1> HIDE DEF o
<1>3. q = [acts |-> p.acts, ord |-> o, links |-> p.links, open |-> p.open, unsafes |-> U]
  BY <1>1, <1>2, ResolvedFields
<1>4. /\ u.step \in StepIds(p) /\ u.link.to \in StepIds(p) \ {InitId}
      /\ u.link.from \in StepIds(p) \ {GoalId}
  BY <1>1 DEF IsPlan
<1>5. /\ a \in {InitId} \cup RealSteps(p.ord) /\ b \in {GoalId} \cup RealSteps(p.ord)
      /\ a # b /\ InitId # GoalId /\ b # GoalId
      /\ IsOrderings(p.ord) /\ IsStrictOrder(p.ord)
  BY <1>1, <1>2, <1>4, Ids DEF PossiblyBefore, IsPlan
<1>6. Refines(p.ord, o) /\ o.high = p.ord.high /\ RunsBefore(o, a, b)
  BY <1>2, <1>5, RefineRefines DEF o
<1>7. Descends(p, q) /\ StepIds(q) = StepIds(p)
  <2>1. \A oc \in BagToSet(p.open) : oc \in [step : StepIds(p) \ {InitId}, goal : SUBSET Cubes]
    BY <1>1 DEF IsPlan
  <2> QED BY <1>1, <1>3, <1>6, <2>1, ResolvedFields, SameSteps
<1>8. /\ q.links = p.links /\ q.ord = o
      /\ \A v \in BagToSet(p.unsafes) : v # u => v \in BagToSet(q.unsafes)
  BY <1>1, <1>3, ResolvedFields
<1>9. ~ PlacementAdmits(o, u.link, u.step)
  <2>1. OrderedBefore(o, a, b) => InitId \notin {a, b} /\ GoalId \notin {a, b}
    BY <1>1, <1>5, <1>6, Ids DEF OrderedBefore, RealSteps, Refines, IsOrderings
  <2>2. CASE a = InitId
    BY <1>4, <1>5, <2>2 DEF PlacementAdmits, PossiblyNotAfter, PossiblyBefore
  <2>3. CASE OrderedBefore(o, a, b)
    BY <1>4, <1>5, <2>1, <2>3
       DEF PlacementAdmits, PossiblyNotAfter, PossiblyNotBefore, PossiblyBefore, PossiblyAfter
  <2> QED BY <1>5, <1>6, <2>2, <2>3 DEF RunsBefore
<1>10. Sound(q)
  BY <1>7, <1>8, <1>9, RepairIsSound
<1> QED BY <1>7, <1>10

-----------------------------------------------------------------------------
(* Repairs of an open literal: a link, from a step that may be new.         *)

\* Everything about steps is read off the actions of a plan.
LEMMA SameActs ==
  ASSUME NEW p, NEW q, q.acts = p.acts
  PROVE  /\ StepIds(q) = StepIds(p)
         /\ \A s : ActionPre(q, s) = ActionPre(p, s)
         /\ \A s : ActionEffects(q, s) = ActionEffects(p, s)
         /\ \A s, e : StepGuard(q, s, e) = StepGuard(p, s, e)
         /\ \A s, l : Clobbering(q, s, l) = Clobbering(p, s, l)
<1>1. /\ \A s : ActionPre(q, s) = ActionPre(p, s)
      /\ \A s : ActionEffects(q, s) = ActionEffects(p, s)
  BY DEF ActionPre, ActionEffects
<1>2. \A s, e : StepGuard(q, s, e) = StepGuard(p, s, e)
  BY <1>1 DEF StepGuard
<1> QED BY <1>1, <1>2 DEF StepIds, Clobbering

ThreatsOf(p, l) ==
  UNION {{[link |-> l, step |-> s, effect |-> e] : e \in Clobbering(p, s, l)} :
          s \in {t \in StepIds(p) : PlacementAdmits(p.ord, l, t)}}

LEMMA LinkThreatsSet ==
  ASSUME NEW p, NEW q, q.acts = p.acts, q.ord = p.ord, NEW l
  PROVE  BagToSet(LinkThreats(p, l)) = ThreatsOf(q, l)
<1>1. BagToSet(LinkThreats(p, l)) = ThreatsOf(p, l)
  BY BagOfSet DEF LinkThreats, ThreatsOf
<1>2. /\ StepIds(q) = StepIds(p) /\ \A s : Clobbering(q, s, l) = Clobbering(p, s, l)
  BY SameActs
<1> QED BY <1>1, <1>2 DEF ThreatsOf

LEMMA ThreatsOfTypes ==
  ASSUME NEW p, NEW l, NEW v \in ThreatsOf(p, l)
  PROVE  /\ v.link = l /\ v.step \in StepIds(p)
         /\ v.effect \in ActionEffects(p, v.step) /\ v.effect.lit = Neg(v.link.cond)
<1>1. PICK s \in StepIds(p) :
        \E e \in Clobbering(p, s, l) : v = [link |-> l, step |-> s, effect |-> e]
  BY DEF ThreatsOf
<1> QED BY <1>1 DEF Clobbering

LEMMA ThreatsOfAccount ==
  ASSUME NEW p, NEW l, ThreatsOf(p, l) \subseteq BagToSet(p.unsafes), NEW s \in StepIds(p)
  PROVE  Accounted(p, l, s)
BY DEF Accounted, ThreatsOf

\* Child q of p links the open literal of oc to step s.
Links(p, q, oc, s) ==
  /\ q = Fields(q)
  /\ q.acts \in Seq(Actions) /\ Len(q.acts) <= MaxSteps /\ Len(p.acts) <= Len(q.acts)
  /\ \A k \in 1 .. Len(p.acts) : q.acts[k] = p.acts[k]
  /\ Refines(p.ord, q.ord) /\ q.ord.high = Len(q.acts)
  /\ s \in StepIds(q) \ {GoalId} /\ RunsBefore(q.ord, s, oc.step)
  /\ LET link == [from |-> s, to |-> oc.step, cond |-> TheLiteral(oc.goal)] IN
     /\ BagToSet(q.links) = BagToSet(p.links) \cup {link}
     /\ ThreatsOf(q, link) \subseteq BagToSet(q.unsafes)
     /\ \A v \in BagToSet(q.unsafes) :
          \/ v \in BagToSet(p.unsafes) \cup ThreatsOf(q, link)
          \/ /\ v.link \in BagToSet(p.links) /\ v.step \in StepIds(q)
             /\ v.effect \in ActionEffects(q, v.step) /\ v.effect.lit = Neg(v.link.cond)
  /\ BagToSet(p.unsafes) \subseteq BagToSet(q.unsafes)
  /\ \A c \in BagToSet(p.open) : c # oc => c \in BagToSet(q.open)
  /\ \A c \in BagToSet(q.open) : c \in [step : StepIds(q) \ {InitId}, goal : SUBSET Cubes]

LEMMA LinksDescends ==
  ASSUME problem \in Problems, NEW p, Sound(p), NEW oc \in BagToSet(p.open),
         IsLiteral(oc.goal), NEW q, NEW s, Links(p, q, oc, s)
  PROVE  Descends(p, q)
<1> DEFINE link == [from |-> s, to |-> oc.step, cond |-> TheLiteral(oc.goal)]
<1>1. IsPlan(p)
  BY DEF Sound
<1>2. /\ link.to = oc.step /\ link.from = s /\ link.cond = TheLiteral(oc.goal)
      /\ BagToSet(q.links) = BagToSet(p.links) \cup {link}
  BY DEF Links
<1>3. Len(p.acts) \in Nat /\ Len(q.acts) \in Nat /\ StepIds(p) \subseteq StepIds(q)
  BY <1>1 DEF Links, IsPlan, StepIds
<1>4. oc.step \in StepIds(p) \ {InitId} /\ TheLiteral(oc.goal) \in Literals
  BY <1>1, TheLiteralOf DEF IsPlan
<1>5. link \in [from : StepIds(q) \ {GoalId}, to : StepIds(q) \ {InitId}, cond : Literals]
  BY <1>3, <1>4 DEF Links
<1>6. \A l \in BagToSet(p.links) :
        l \in [from : StepIds(q) \ {GoalId}, to : StepIds(q) \ {InitId}, cond : Literals]
  <2> TAKE l \in BagToSet(p.links)
  <2>1. l \in [from : StepIds(p) \ {GoalId}, to : StepIds(p) \ {InitId}, cond : Literals]
    BY <1>1 DEF IsPlan
  <2> QED BY <1>3, <2>1
<1>7. ASSUME NEW v \in BagToSet(q.unsafes)
      PROVE  /\ v.link \in BagToSet(q.links) /\ v.step \in StepIds(q)
             /\ v.effect \in ActionEffects(q, v.step) /\ v.effect.lit = Neg(v.link.cond)
  <2>1. CASE v \in BagToSet(p.unsafes)
    <3>1. /\ v.link \in BagToSet(p.links) /\ v.step \in StepIds(p)
          /\ v.effect \in ActionEffects(p, v.step) /\ v.effect.lit = Neg(v.link.cond)
      BY <1>1, <2>1 DEF IsPlan
    <3>2. ActionEffects(q, v.step) = ActionEffects(p, v.step)
      <4>1. v.step \notin {InitId, GoalId} => v.step \in 1 .. Len(p.acts)
        BY <3>1 DEF StepIds
      <4>2. v.step \notin {InitId, GoalId} => q.acts[v.step] = p.acts[v.step]
        BY <4>1 DEF Links
      <4> QED BY <4>2 DEF ActionEffects
    <3> QED BY <1>2, <1>3, <3>1, <3>2
  <2>2. CASE v \in ThreatsOf(q, link)
    BY <1>2, <2>2, ThreatsOfTypes
  <2>3. CASE v \notin BagToSet(p.unsafes) \cup ThreatsOf(q, link)
    BY <1>2, <2>3 DEF Links
  <2> QED BY <2>1, <2>2, <2>3
<1> HIDE DEF link
<1>8. IsPlan(q)
  BY <1>2, <1>5, <1>6, <1>7 DEF IsPlan, Links, Refines
<1>9. \A c \in BagToSet(p.open) : c \in BagToSet(q.open) \/ Repaired(q, c)
  <2>1. Repaired(q, oc)
    BY <1>2 DEF Repaired
  <2> QED BY <2>1 DEF Links
<1> QED BY <1>1, <1>2, <1>8, <1>9 DEF Descends, Links

LEMMA LinksIsSound ==
  ASSUME problem \in Problems, NEW p, Sound(p), NEW oc \in BagToSet(p.open),
         IsLiteral(oc.goal), NEW q, NEW s, Links(p, q, oc, s),
         Supported(q, [from |-> s, to |-> oc.step, cond |-> TheLiteral(oc.goal)]),
         \A t \in StepIds(q) \ StepIds(p) :
           /\ \A d \in ActionPre(q, t) : Covered(q, d, t)
           /\ \A l \in BagToSet(p.links) : Accounted(q, l, t)
  PROVE  Sound(q) /\ Descends(p, q)
<1> DEFINE link == [from |-> s, to |-> oc.step, cond |-> TheLiteral(oc.goal)]
<1>1. Descends(p, q)
  BY LinksDescends
<1>2. /\ link.to = oc.step /\ link.from = s /\ Supported(q, link)
      /\ BagToSet(q.links) = BagToSet(p.links) \cup {link}
      /\ RunsBefore(q.ord, s, oc.step)
      /\ ThreatsOf(q, link) \subseteq BagToSet(q.unsafes)
      /\ BagToSet(p.unsafes) \subseteq BagToSet(q.unsafes)
  BY DEF Links
<1> HIDE DEF link
<1>3. LinksRunForward(q)
  BY <1>1, <1>2, LinksStayForward DEF Sound
<1>4. ConditionsCovered(q)
  BY <1>1, <1>2, ConditionsStayCovered DEF Sound
<1>5. \A t \in StepIds(q) : Accounted(q, link, t)
  BY <1>2, ThreatsOfAccount
<1>6. ThreatsAccounted(q)
  <2>1. \A l \in BagToSet(q.links), t \in StepIds(q) :
          (l \in BagToSet(p.links) /\ t \in StepIds(p)) \/ Accounted(q, l, t)
    BY <1>2, <1>5
  <2>2. \A u \in BagToSet(p.unsafes) : u \in BagToSet(q.unsafes)
    BY <1>2
  <2> QED BY <1>1, <2>1, <2>2, ThreatsStayAccounted DEF Sound
<1> QED BY <1>1, <1>3, <1>4, <1>6 DEF Sound, Descends

\* The guard of an effect that becomes a goal is taken care of.
LEMMA GuardIsCovered ==
  ASSUME problem \in Problems, NEW q, IsPlan(q), NEW s \in StepIds(q),
         NEW e \in ActionEffects(q, s), NEW B,
         BagToSet(AddGoal(B, {AsDisjunction(c) : c \in StepGuard(q, s, e)}, s))
           \subseteq BagToSet(q.open)
  PROVE  \A c \in StepGuard(q, s, e) : Covered(q, AsDisjunction(c), s)
<1> DEFINE G == {AsDisjunction(c) : c \in StepGuard(q, s, e)}
<1>1. \A c \in StepGuard(q, s, e) : AsDisjunction(c) \in G
  OBVIOUS
<1>2. G \in SUBSET (SUBSET Cubes)
  <2> DEFINE pre == ActionPre(q, s)
             E == ActionEffects(q, s)
  <2>1. pre \in SUBSET (SUBSET Cubes) /\ e \in E /\ \A f \in E : IsEffect(f)
    BY EffectTypes
  <2>2. StepGuard(q, s, e) = Guard(pre, E, e)
    BY DEF StepGuard
  <2> HIDE DEF pre, E
  <2>3. \A c \in Guard(pre, E, e) : AsDisjunction(c) \in SUBSET Cubes
    BY ONLY <2>1, GuardTypes
  <2> QED BY <2>2, <2>3
<1>3. BagToSet(AddGoal(B, G, s)) \subseteq BagToSet(q.open)
  OBVIOUS
<1> HIDE DEF G
<1>4. \A d \in G : d \in SUBSET Cubes
  BY <1>2
<1>5. \A d \in G : Covered(q, d, s)
  BY <1>3, <1>4, AddedIsCovered
<1> QED BY <1>1, <1>5

LEMMA GuardGoalTypes ==
  ASSUME problem \in Problems, NEW p, IsPlan(p), NEW s \in StepIds(p),
         NEW e \in ActionEffects(p, s)
  PROVE  /\ {AsDisjunction(c) : c \in StepGuard(p, s, e)} \in SUBSET (SUBSET Cubes)
         /\ s = InitId => {AsDisjunction(c) : c \in StepGuard(p, s, e)} = {}
<1> DEFINE pre == ActionPre(p, s)
           E == ActionEffects(p, s)
<1>1. pre \in SUBSET (SUBSET Cubes) /\ e \in E /\ \A f \in E : IsEffect(f)
  BY EffectTypes
<1>2. StepGuard(p, s, e) = Guard(pre, E, e)
  BY DEF StepGuard
<1>3. s = InitId => StepGuard(p, s, e) = {}
  BY EffectTypes
<1> HIDE DEF pre, E
<1>4. \A c \in Guard(pre, E, e) : AsDisjunction(c) \in SUBSET Cubes
  BY ONLY <1>1, GuardTypes
<1> QED BY <1>2, <1>3, <1>4

\* Open conditions stay typed when some are removed and goals added.
LEMMA OpenStaysTyped ==
  ASSUME NEW p, IsPlan(p), NEW S, StepIds(p) \ {InitId} \subseteq S,
         NEW oc, NEW C \in SUBSET (SUBSET Cubes), NEW s, s \in S \/ C = {}
  PROVE  \A c \in BagToSet(AddGoal(Chain!BagRemove(p.open, oc), C, s)) :
           c \in [step : S, goal : SUBSET Cubes]
<1> DEFINE B == Chain!BagRemove(p.open, oc)
<1>1. \A c \in BagToSet(B) : c \in [step : S, goal : SUBSET Cubes]
  <2> TAKE c \in BagToSet(B)
  <2>1. c \in [step : StepIds(p) \ {InitId}, goal : SUBSET Cubes]
    BY RemovedFromBag DEF IsPlan
  <2> QED BY <2>1
<1> HIDE DEF B
<1>2. CASE s \in S
  BY <1>1, <1>2, OpenedType DEF B
<1>3. CASE C = {}
  <2>1. BagToSet(AddGoal(B, C, s)) = BagToSet(B)
    BY <1>3, AddedGoals
  <2> QED BY <1>1, <2>1 DEF B
<1> QED BY <1>2, <1>3

LEMMA LinkOldIsSound ==
  ASSUME problem \in Problems, NEW p, Sound(p), NEW oc \in BagToSet(p.open),
         IsLiteral(oc.goal), NEW s \in StepIds(p), PossiblyBefore(p.ord, s, oc.step),
         NEW e \in ActionEffects(p, s), e.lit = TheLiteral(oc.goal),
         NEW q \in LinkOld(p, s, e, oc)
  PROVE  Sound(q) /\ Descends(p, q)
<1> DEFINE G == {AsDisjunction(c) : c \in StepGuard(p, s, e)}
           link == [from |-> s, to |-> oc.step, cond |-> e.lit]
           o == RefineWithStep(p.ord, s, oc.step, s)
           L == Chain!BagAdd(p.links, link)
           B == AddGoal(Chain!BagRemove(p.open, oc), G, s)
           r == [p EXCEPT !.ord = o, !.links = L, !.open = B]
           U == p.unsafes (+) LinkThreats(r, link)
<1>1. IsPlan(p)
  BY DEF Sound
<1>2. q = [r EXCEPT !.unsafes = U]
  BY DEF LinkOld
<1>3. /\ L = Chain!BagAdd(p.links, link) /\ G = {AsDisjunction(c) : c \in StepGuard(p, s, e)}
      /\ B = AddGoal(Chain!BagRemove(p.open, oc), G, s)
      /\ o = RefineWithStep(p.ord, s, oc.step, s)
      /\ U = p.unsafes (+) LinkThreats(r, link)
      /\ link = [from |-> s, to |-> oc.step, cond |-> TheLiteral(oc.goal)]
  OBVIOUS
<1> HIDE DEF L, B, o, U, G, link
<1>4. p = Fields(p)
  BY <1>1 DEF IsPlan
<1>5. r = [acts |-> p.acts, ord |-> o, links |-> L, open |-> B, unsafes |-> p.unsafes]
  BY <1>4, ThreeUpdates
<1> HIDE DEF r
<1>6. q = [acts |-> p.acts, ord |-> o, links |-> L, open |-> B, unsafes |-> U]
  BY <1>2, <1>5
<1>7. /\ q.acts = p.acts /\ q.ord = o /\ q.links = L /\ q.open = B /\ q.unsafes = U
      /\ r.acts = p.acts /\ r.ord = o
  BY <1>5, <1>6
<1>8. s \in StepIds(p) \ {GoalId} /\ oc.step \in StepIds(p) \ {InitId}
  BY <1>1, EffectTypes DEF IsPlan
<1>9. Refines(p.ord, o) /\ o.high = p.ord.high /\ RunsBefore(o, s, oc.step)
  <2>1. /\ s \in {InitId} \cup RealSteps(p.ord) /\ oc.step \in {GoalId} \cup RealSteps(p.ord)
        /\ IsOrderings(p.ord) /\ IsStrictOrder(p.ord) /\ p.ord.high <= MaxSteps
    BY <1>1, <1>8, Ids DEF IsPlan
  <2> QED BY <1>3, <2>1, ReuseRefines
<1>10. BagToSet(U) = BagToSet(p.unsafes) \cup ThreatsOf(q, link)
  BY <1>3, <1>7, JoinedBags, LinkThreatsSet
<1>11. BagToSet(L) = BagToSet(p.links) \cup {link}
  BY <1>3, AddedToBag
<1>12. /\ \A c \in BagToSet(p.open) : c # oc => c \in BagToSet(B)
       /\ \A c \in BagToSet(B) : c \in [step : StepIds(p) \ {InitId}, goal : SUBSET Cubes]
  <2>1. \A c \in BagToSet(p.open) : c # oc => c \in BagToSet(B)
    BY <1>3, RemovedFromBag, AddedGoals
  <2>2. G \in SUBSET (SUBSET Cubes) /\ (s \in StepIds(p) \ {InitId} \/ G = {})
    BY <1>1, <1>3, GuardGoalTypes
  <2> DEFINE S == StepIds(p) \ {InitId}
  <2>3. StepIds(p) \ {InitId} \subseteq S /\ (s \in S \/ G = {})
    BY <2>2
  <2> HIDE DEF S
  <2>4. \A c \in BagToSet(B) : c \in [step : S, goal : SUBSET Cubes]
    BY <1>1, <1>3, <2>2, <2>3, OpenStaysTyped
  <2> QED BY <2>1, <2>4 DEF S
<1>13. StepIds(q) = StepIds(p)
  BY <1>7, SameActs
<1>14. Links(p, q, oc, s)
  <2>1. /\ q.acts \in Seq(Actions) /\ Len(q.acts) <= MaxSteps /\ Len(p.acts) <= Len(q.acts)
        /\ \A k \in 1 .. Len(p.acts) : q.acts[k] = p.acts[k]
        /\ q.ord.high = Len(q.acts)
    BY <1>1, <1>7, <1>9 DEF IsPlan
  <2> QED BY <1>3, <1>6, <1>7, <1>8, <1>9, <1>10, <1>11, <1>12, <1>13, <2>1 DEF Links, Fields
<1>15. Supported(q, link)
  <2>1. Descends(p, q)
    BY <1>14, LinksDescends
  <2>2. e \in ActionEffects(q, s) /\ StepGuard(q, s, e) = StepGuard(p, s, e)
    BY <1>7, SameActs
  <2>3. \A c \in StepGuard(q, s, e) : Covered(q, AsDisjunction(c), s)
    BY <1>3, <1>7, <1>13, <2>1, <2>2, GuardIsCovered DEF Descends
  <2> QED BY <1>3, <2>2, <2>3 DEF Supported, link
<1> QED BY <1>3, <1>13, <1>14, <1>15, LinksIsSound

LEMMA CwLinkIsSound ==
  ASSUME problem \in Problems, NEW p, Sound(p), NEW oc \in BagToSet(p.open),
         IsLiteral(oc.goal), NEW q \in NewCwLink(p, oc)
  PROVE  Sound(q) /\ Descends(p, q)
<1> DEFINE l == TheLiteral(oc.goal)
           link == [from |-> InitId, to |-> oc.step, cond |-> l]
           L == Chain!BagAdd(p.links, link)
           B == Chain!BagRemove(p.open, oc)
           r == [p EXCEPT !.links = L, !.open = B]
           U == p.unsafes (+) LinkThreats(r, link)
<1>1. IsPlan(p)
  BY DEF Sound
<1>2. ClosedWorld(l) /\ q = [r EXCEPT !.unsafes = U]
  BY DEF NewCwLink
<1>3. /\ L = Chain!BagAdd(p.links, link) /\ B = Chain!BagRemove(p.open, oc)
      /\ U = p.unsafes (+) LinkThreats(r, link)
      /\ link = [from |-> InitId, to |-> oc.step, cond |-> TheLiteral(oc.goal)]
      /\ link.from = InitId /\ ClosedWorld(link.cond)
  BY <1>2
<1> HIDE DEF L, B, U, link
<1>4. p = Fields(p)
  BY <1>1 DEF IsPlan
<1>5. r = [acts |-> p.acts, ord |-> p.ord, links |-> L, open |-> B, unsafes |-> p.unsafes]
  BY <1>4, TwoUpdates
<1> HIDE DEF r
<1>6. q = [acts |-> p.acts, ord |-> p.ord, links |-> L, open |-> B, unsafes |-> U]
  BY <1>2, <1>5
<1>7. /\ q.acts = p.acts /\ q.ord = p.ord /\ q.links = L /\ q.open = B /\ q.unsafes = U
      /\ r.acts = p.acts /\ r.ord = p.ord
  BY <1>5, <1>6
<1>8. InitId \in StepIds(p) \ {GoalId} /\ oc.step \in StepIds(p) \ {InitId}
  BY <1>1, Ids DEF IsPlan
<1>9. BagToSet(U) = BagToSet(p.unsafes) \cup ThreatsOf(q, link)
  BY <1>3, <1>7, JoinedBags, LinkThreatsSet
<1>10. BagToSet(L) = BagToSet(p.links) \cup {link}
  BY <1>3, AddedToBag
<1>11. /\ \A c \in BagToSet(p.open) : c # oc => c \in BagToSet(B)
       /\ \A c \in BagToSet(B) : c \in [step : StepIds(p) \ {InitId}, goal : SUBSET Cubes]
  BY <1>1, <1>3, RemovedFromBag DEF IsPlan
<1>12. StepIds(q) = StepIds(p)
  BY <1>7, SameActs
<1>13. Links(p, q, oc, InitId)
  <2>1. /\ q.acts \in Seq(Actions) /\ Len(q.acts) <= MaxSteps /\ Len(p.acts) <= Len(q.acts)
        /\ \A k \in 1 .. Len(p.acts) : q.acts[k] = p.acts[k]
        /\ q.ord.high = Len(q.acts) /\ Refines(p.ord, p.ord)
        /\ RunsBefore(q.ord, InitId, oc.step)
    BY <1>1, <1>7, OwnRefinement DEF IsPlan, RunsBefore
  <2> QED BY <1>3, <1>6, <1>7, <1>8, <1>9, <1>10, <1>11, <1>12, <2>1 DEF Links, Fields
<1>14. Supported(q, link)
  BY <1>3 DEF Supported
<1> QED BY <1>3, <1>12, <1>13, <1>14, LinksIsSound

\* A disjunct of an open condition is opened in its place.
LEMMA DisjunctIsSound ==
  ASSUME problem \in Problems, NEW p, Sound(p), NEW oc \in BagToSet(p.open),
         ~ IsLiteral(oc.goal), NEW q \in HandleDisjunction(p, oc)
  PROVE  Sound(q) /\ Descends(p, q)
<1>1. IsPlan(p)
  BY DEF Sound
<1>2. PICK c \in oc.goal :
        q = [p EXCEPT !.open = AddGoal(Chain!BagRemove(p.open, oc), {{c}}, oc.step)]
  BY DEF HandleDisjunction
<1> DEFINE B == AddGoal(Chain!BagRemove(p.open, oc), {{c}}, oc.step)
<1>3. q = [p EXCEPT !.open = B] /\ B = AddGoal(Chain!BagRemove(p.open, oc), {{c}}, oc.step)
  BY <1>2
<1> HIDE DEF B
<1>4. p = [acts |-> p.acts, ord |-> p.ord, links |-> p.links, open |-> p.open,
           unsafes |-> p.unsafes]
  BY <1>1 DEF IsPlan, Fields
<1>5. q = [acts |-> p.acts, ord |-> p.ord, links |-> p.links, open |-> B, unsafes |-> p.unsafes]
  BY <1>3, <1>4
<1>6. /\ q.acts = p.acts /\ q.ord = p.ord /\ q.links = p.links /\ q.open = B
      /\ q.unsafes = p.unsafes
  BY <1>5
<1>7. oc.step \in StepIds(p) \ {InitId} /\ oc.goal \in SUBSET Cubes /\ {c} \in SUBSET Cubes
  BY <1>1 DEF IsPlan
<1>8. /\ \A x \in BagToSet(p.open) : x # oc => x \in BagToSet(B)
      /\ \A x \in BagToSet(B) : x \in [step : StepIds(p) \ {InitId}, goal : SUBSET Cubes]
  <2>1. \A x \in BagToSet(p.open) : x # oc => x \in BagToSet(B)
    BY <1>3, RemovedFromBag, AddedGoals
  <2> DEFINE S == StepIds(p) \ {InitId}
             C == {{c}}
  <2>2. StepIds(p) \ {InitId} \subseteq S /\ oc.step \in S /\ C \in SUBSET (SUBSET Cubes)
        /\ B = AddGoal(Chain!BagRemove(p.open, oc), C, oc.step)
    BY <1>3, <1>7
  <2> HIDE DEF S, C
  <2>3. \A x \in BagToSet(B) : x \in [step : S, goal : SUBSET Cubes]
    BY <1>1, <2>2, OpenStaysTyped
  <2> QED BY <2>1, <2>3 DEF S
<1>9. \A l \in c : [step |-> oc.step, goal |-> LiteralGoal(l)] \in BagToSet(B)
  <2>1. Cardinality({c}) = 1 /\ UNION {c} = c
    BY FS_Singleton
  <2>2. BagToSet(Opened({c}, oc.step)) = {[step |-> oc.step, goal |-> LiteralGoal(l)] : l \in c}
    BY <2>1, BagOfSet DEF Opened
  <2> QED BY <1>3, <2>2, AddedGoals
<1>10. StepIds(q) = StepIds(p) /\ \A s : ActionEffects(q, s) = ActionEffects(p, s)
  BY <1>6, SameActs
<1>11. IsPlan(q)
  BY <1>1, <1>5, <1>6, <1>8, <1>10 DEF IsPlan, Fields
<1>12. Repaired(q, oc)
  BY <1>6, <1>9 DEF Repaired
<1>13. Descends(p, q)
  <2>1. Len(p.acts) <= Len(q.acts) /\ Refines(p.ord, q.ord)
    BY <1>1, <1>6, OwnRefinement DEF IsPlan
  <2> QED BY <1>1, <1>6, <1>8, <1>11, <1>12, <2>1 DEF Descends
<1>14. LinksRunForward(q) /\ ConditionsCovered(q)
  BY <1>6, <1>10, <1>13, LinksStayForward, ConditionsStayCovered DEF Sound
<1>15. ThreatsAccounted(q)
  BY <1>6, <1>10, <1>13, ThreatsStayAccounted DEF Sound
<1> QED BY <1>11, <1>13, <1>14, <1>15 DEF Sound

\* The threats of a new step to the links that were there.
LEMMA StepThreatsSet ==
  ASSUME NEW p, NEW q, q.acts = p.acts, q.ord = p.ord, NEW s, NEW links
  PROVE  BagToSet(StepThreats(p, s, links)) =
           UNION {{[link |-> l, step |-> s, effect |-> e] : e \in Clobbering(q, s, l)} :
                   l \in {k \in BagToSet(links) : PlacementAdmits(q.ord, k, s)}}
<1>1. \A l : Clobbering(q, s, l) = Clobbering(p, s, l)
  BY SameActs
<1> QED BY <1>1 DEF StepThreats, BagToSet

\* Plan q has one step more than p, step s, which is action a.
Grown(p, q, a, s) ==
  /\ q.acts \in Seq(Actions) /\ Len(q.acts) = s /\ Len(q.acts) <= MaxSteps
  /\ Len(p.acts) <= Len(q.acts)
  /\ \A k \in 1 .. Len(p.acts) : q.acts[k] = p.acts[k]
  /\ s \in StepIds(q) \ {InitId, GoalId}
  /\ StepIds(p) \subseteq StepIds(q) /\ StepIds(q) \ StepIds(p) = {s}
  /\ ActionPre(q, s) = Pre[a]
  /\ ActionEffects(q, s) = Effects[a]

LEMMA GrownActs ==
  ASSUME problem \in Problems, NEW p, IsPlan(p), Len(p.acts) # MaxSteps, NEW a \in Actions,
         NEW q, q.acts = Append(p.acts, a), NEW s, s = Len(p.acts) + 1
  PROVE  Grown(p, q, a, s)
<1>1. /\ p.acts \in Seq(Actions) /\ Len(p.acts) \in Nat /\ Len(p.acts) <= MaxSteps
      /\ MaxSteps \in Nat
  BY MaxStepsAssumption DEF IsPlan
<1>2. /\ q.acts \in Seq(Actions) /\ Len(q.acts) = s /\ q.acts[s] = a
      /\ \A k \in 1 .. Len(p.acts) : q.acts[k] = p.acts[k]
  BY <1>1
<1>3. s # InitId /\ s # GoalId /\ s \notin 1 .. Len(p.acts) /\ s \in 1 .. s
      /\ 1 .. s = (1 .. Len(p.acts)) \cup {s} /\ Len(p.acts) <= s /\ s <= MaxSteps
  BY <1>1 DEF InitId, GoalId
<1>4. StepIds(q) = StepIds(p) \cup {s} /\ s \notin StepIds(p)
  BY <1>2, <1>3 DEF StepIds
<1>5. ActionPre(q, s) = Pre[a] /\ ActionEffects(q, s) = Effects[a]
  BY <1>2, <1>3 DEF ActionPre, ActionEffects
<1> QED BY <1>1, <1>2, <1>3, <1>4, <1>5 DEF Grown

LEMMA LinkNewIsSound ==
  ASSUME problem \in Problems, NEW p, Sound(p), NEW oc \in BagToSet(p.open),
         IsLiteral(oc.goal), Len(p.acts) # MaxSteps, NEW a \in Actions,
         NEW e \in Effects[a], e.lit = TheLiteral(oc.goal), NEW q \in LinkNew(p, a, e, oc)
  PROVE  Sound(q) /\ Descends(p, q)
<1> DEFINE s == Len(p.acts) + 1
           A == Append(p.acts, a)
           grown == [p EXCEPT !.acts = A]
           G == {AsDisjunction(c) : c \in StepGuard(grown, s, e)}
           link == [from |-> s, to |-> oc.step, cond |-> e.lit]
           o == RefineWithStep(p.ord, s, oc.step, s)
           L == Chain!BagAdd(p.links, link)
           C == AddGoal(Chain!BagRemove(p.open, oc), G, s)
           B == AddGoal(C, Pre[a], s)
           r == [grown EXCEPT !.ord = o, !.links = L, !.open = B]
           U == p.unsafes (+) LinkThreats(r, link) (+) StepThreats(r, s, p.links)
<1>1. IsPlan(p)
  BY DEF Sound
<1>2. q = [r EXCEPT !.unsafes = U]
  BY DEF LinkNew
<1>3. /\ L = Chain!BagAdd(p.links, link) /\ G = {AsDisjunction(c) : c \in StepGuard(grown, s, e)}
      /\ C = AddGoal(Chain!BagRemove(p.open, oc), G, s) /\ B = AddGoal(C, Pre[a], s)
      /\ o = RefineWithStep(p.ord, s, oc.step, s) /\ A = Append(p.acts, a)
      /\ U = p.unsafes (+) LinkThreats(r, link) (+) StepThreats(r, s, p.links)
      /\ link = [from |-> s, to |-> oc.step, cond |-> TheLiteral(oc.goal)]
      /\ s = Len(p.acts) + 1
  OBVIOUS
<1> HIDE DEF L, B, C, o, U, G, A, link, s
<1>4. p = Fields(p)
  BY <1>1 DEF IsPlan
<1>5. grown = [acts |-> A, ord |-> p.ord, links |-> p.links, open |-> p.open,
               unsafes |-> p.unsafes]
  BY <1>4 DEF Fields
<1> HIDE DEF grown
<1>6. grown = Fields(grown)
  BY <1>5 DEF Fields
<1>7. r = [acts |-> grown.acts, ord |-> o, links |-> L, open |-> B, unsafes |-> grown.unsafes]
  BY <1>6, ThreeUpdates
<1> HIDE DEF r
<1>8. q = [acts |-> grown.acts, ord |-> o, links |-> L, open |-> B, unsafes |-> U]
  BY <1>2, <1>7
<1>9. /\ q.acts = A /\ q.ord = o /\ q.links = L /\ q.open = B /\ q.unsafes = U
      /\ r.acts = A /\ r.ord = o /\ grown.acts = A
  BY <1>5, <1>7, <1>8
<1>10. /\ q.acts \in Seq(Actions) /\ Len(q.acts) = s /\ Len(q.acts) <= MaxSteps
       /\ Len(p.acts) <= Len(q.acts) /\ \A k \in 1 .. Len(p.acts) : q.acts[k] = p.acts[k]
       /\ s \in StepIds(q) \ {InitId, GoalId}
       /\ StepIds(p) \subseteq StepIds(q) /\ StepIds(q) \ StepIds(p) = {s}
       /\ ActionPre(q, s) = Pre[a] /\ ActionEffects(q, s) = Effects[a]
  <2>1. q.acts = Append(p.acts, a) /\ s = Len(p.acts) + 1
    BY <1>3, <1>9
  <2>2. problem \in Problems /\ Len(p.acts) # MaxSteps /\ a \in Actions
    OBVIOUS
  <2>3. Grown(p, q, a, s)
    BY ONLY <1>1, <2>1, <2>2, GrownActs
  <2> QED BY <2>3 DEF Grown
<1>11. StepGuard(q, s, e) = StepGuard(grown, s, e)
  BY <1>9, SameActs
<1>12. oc.step \in StepIds(p) \ {InitId}
  BY <1>1 DEF IsPlan
<1>13. Refines(p.ord, o) /\ o.high = s /\ RunsBefore(o, s, oc.step)
  <2>1. /\ oc.step \in {GoalId} \cup RealSteps(p.ord) /\ IsOrderings(p.ord)
        /\ IsStrictOrder(p.ord) /\ p.ord.high + 1 = s
    BY <1>1, <1>3, <1>12, Ids DEF IsPlan
  <2>2. p.ord.high + 1 <= MaxSteps
    BY <1>10, <2>1
  <2> QED BY <1>3, <2>1, <2>2, NewStepRefines
<1>14. BagToSet(U) = BagToSet(p.unsafes) \cup ThreatsOf(q, link) \cup
                       BagToSet(StepThreats(r, s, p.links))
  <2>1. BagToSet(LinkThreats(r, link)) = ThreatsOf(q, link)
    BY <1>9, LinkThreatsSet
  <2> DEFINE T == LinkThreats(r, link)
             V == StepThreats(r, s, p.links)
  <2>2. U = p.unsafes (+) T (+) V
    BY <1>3
  <2> HIDE DEF T, V
  <2>3. BagToSet(U) = BagToSet(p.unsafes) \cup BagToSet(T) \cup BagToSet(V)
    BY <2>2, JoinedBags
  <2> QED BY <2>1, <2>3 DEF T, V
<1>15. BagToSet(StepThreats(r, s, p.links)) =
         UNION {{[link |-> l, step |-> s, effect |-> f] : f \in Clobbering(q, s, l)} :
                 l \in {k \in BagToSet(p.links) : PlacementAdmits(q.ord, k, s)}}
  BY <1>9, StepThreatsSet
<1>16. BagToSet(L) = BagToSet(p.links) \cup {link}
  BY <1>3, AddedToBag
<1>17. Pre[a] \in SUBSET (SUBSET Cubes) /\ G \in SUBSET (SUBSET Cubes)
  <2> DEFINE pre == Pre[a]
             E == Effects[a]
  <2>1. pre \in SUBSET (SUBSET Cubes) /\ e \in E /\ \A f \in E : IsEffect(f)
    BY TaskTypes
  <2>2. StepGuard(q, s, e) = Guard(pre, E, e)
    BY <1>10 DEF StepGuard
  <2> HIDE DEF pre, E
  <2>3. \A c \in Guard(pre, E, e) : AsDisjunction(c) \in SUBSET Cubes
    BY ONLY <2>1, GuardTypes
  <2> QED BY <1>3, <1>11, <2>1, <2>2, <2>3 DEF pre
<1>18. BagToSet(C) \subseteq BagToSet(B)
  BY <1>3, AddedGoals
<1>19. \A c \in BagToSet(p.open) : c # oc => c \in BagToSet(B)
  BY <1>3, <1>18, RemovedFromBag, AddedGoals
<1>20. \A c \in BagToSet(B) : c \in [step : StepIds(q) \ {InitId}, goal : SUBSET Cubes]
  <2> DEFINE S == StepIds(q) \ {InitId}
             P == Pre[a]
  <2>1. StepIds(p) \ {InitId} \subseteq S /\ s \in S /\ P \in SUBSET (SUBSET Cubes)
        /\ B = AddGoal(C, P, s)
    BY <1>3, <1>10, <1>17
  <2> HIDE DEF S, P
  <2>2. \A c \in BagToSet(C) : c \in [step : S, goal : SUBSET Cubes]
    <3>1. C = AddGoal(Chain!BagRemove(p.open, oc), G, s)
      BY <1>3
    <3> QED BY <1>1, <1>17, <2>1, <3>1, OpenStaysTyped
  <2>3. \A c \in BagToSet(B) : c \in [step : S, goal : SUBSET Cubes]
    BY <2>1, <2>2, OpenedType
  <2> QED BY <2>3 DEF S
<1>21. Links(p, q, oc, s)
  <2>1. \A v \in BagToSet(StepThreats(r, s, p.links)) :
          /\ v.link \in BagToSet(p.links) /\ v.step \in StepIds(q)
          /\ v.effect \in ActionEffects(q, v.step) /\ v.effect.lit = Neg(v.link.cond)
    BY <1>10, <1>15 DEF Clobbering
  <2>2. q = Fields(q)
    BY <1>8 DEF Fields
  <2> QED BY <1>3, <1>9, <1>10, <1>13, <1>14, <1>16, <1>19, <1>20, <2>1, <2>2 DEF Links
<1>22. Descends(p, q)
  BY <1>21, LinksDescends
<1>23. Supported(q, link)
  <2>1. e \in ActionEffects(q, s) /\ BagToSet(C) \subseteq BagToSet(q.open)
    BY <1>9, <1>10, <1>18
  <2>2. \A c \in StepGuard(q, s, e) : Covered(q, AsDisjunction(c), s)
    BY <1>3, <1>10, <1>11, <1>22, <2>1, GuardIsCovered DEF Descends
  <2> QED BY <1>3, <2>1, <2>2 DEF Supported, link
<1>24. \A d \in ActionPre(q, s) : Covered(q, d, s)
  BY <1>3, <1>9, <1>10, <1>17, AddedIsCovered
<1>25. \A l \in BagToSet(p.links) : Accounted(q, l, s)
  BY <1>9, <1>14, <1>15 DEF Accounted
<1> QED BY <1>3, <1>10, <1>21, <1>23, <1>24, <1>25, LinksIsSound

-----------------------------------------------------------------------------
(* The behaviours.                                                          *)

LEMMA InitialIsSound ==
  ASSUME problem \in Problems
  PROVE  Sound(InitialPlan)
<1> DEFINE p == InitialPlan
<1>1. /\ p.acts = <<>> /\ p.ord = NewOrderings /\ p.links = EmptyBag /\ p.unsafes = EmptyBag
      /\ p.open = AddGoal(EmptyBag, Goal, GoalId) /\ p = Fields(p)
  BY DEF InitialPlan, Fields
<1> HIDE DEF p
<1>2. BagToSet(EmptyBag) = {}
  BY DEF EmptyBag, SetToBag, BagToSet
<1>3. /\ Len(p.acts) = 0 /\ p.acts \in Seq(Actions) /\ StepIds(p) = {InitId, GoalId}
      /\ 0 <= MaxSteps /\ InitId # GoalId
  BY <1>1, MaxStepsAssumption DEF StepIds, InitId, GoalId
<1>4. IsOrderings(NewOrderings) /\ IsStrictOrder(NewOrderings) /\ NewOrderings.high = 0
  BY DEF NewOrderings, IsOrderings, IsStrictOrder, RealSteps
<1>5. Goal \in SUBSET (SUBSET Cubes) /\ ActionPre(p, InitId) = {} /\ ActionPre(p, GoalId) = Goal
  BY <1>3, TaskTypes DEF ActionPre
<1>6. \A oc \in BagToSet(p.open) : oc \in [step : StepIds(p) \ {InitId}, goal : SUBSET Cubes]
  <2> DEFINE S == StepIds(p) \ {InitId}
             C == Goal
  <2>1. GoalId \in S /\ C \in SUBSET (SUBSET Cubes) /\ p.open = AddGoal(EmptyBag, C, GoalId)
    BY <1>1, <1>3, <1>5
  <2> HIDE DEF S, C
  <2>2. \A oc \in BagToSet(EmptyBag) : oc \in [step : S, goal : SUBSET Cubes]
    BY <1>2
  <2>3. \A oc \in BagToSet(p.open) : oc \in [step : S, goal : SUBSET Cubes]
    BY <2>1, <2>2, OpenedType
  <2> QED BY <2>3 DEF S
<1>7. IsPlan(p)
  BY <1>1, <1>2, <1>3, <1>4, <1>6 DEF IsPlan
<1>8. \A d \in Goal : Covered(p, d, GoalId)
  BY <1>1, <1>5, AddedIsCovered
<1>9. LinksRunForward(p) /\ ConditionsCovered(p) /\ ThreatsAccounted(p)
  BY <1>1, <1>2, <1>3, <1>5, <1>8 DEF LinksRunForward, ConditionsCovered, ThreatsAccounted
<1> QED BY <1>7, <1>9 DEF Sound, p

\* Every child of a sound plan is sound.
LEMMA UnsafeChildIsSound ==
  ASSUME problem \in Problems, NEW p, Sound(p), NEW u \in BagToSet(p.unsafes),
         NEW q \in HandleUnsafe(p, u)
  PROVE  Sound(q) /\ Descends(p, q)
<1>1. u.step # GoalId
  BY EffectTypes DEF Sound, IsPlan
<1>2. CASE ~ StillThreatens(p, u)
  BY <1>2, DroppedIsSound DEF HandleUnsafe
<1>3. CASE StillThreatens(p, u)
  <2>1. CASE q \in Separate(p, u)
    BY <2>1, SeparatedIsSound
  <2>2. CASE q \in Promote(p, u)
    <3>1. PossiblyBefore(p.ord, u.link.to, u.step) /\ q \in NewOrdering(p, u.link.to, u.step, u)
      BY <2>2 DEF Promote
    <3> QED BY <1>1, <3>1, OrderedIsSound
  <2>3. CASE q \in Demote(p, u)
    <3>1. /\ PossiblyBefore(p.ord, u.step, u.link.from)
          /\ q \in NewOrdering(p, u.step, u.link.from, u)
      BY <2>3 DEF Demote
    <3> QED BY <1>1, <3>1, OrderedIsSound
  <2> QED BY <1>3, <2>1, <2>2, <2>3 DEF HandleUnsafe
<1> QED BY <1>2, <1>3

LEMMA OpenChildIsSound ==
  ASSUME problem \in Problems, NEW p, Sound(p), NEW oc \in BagToSet(p.open),
         NEW q \in HandleOpenCondition(p, oc)
  PROVE  Sound(q) /\ Descends(p, q)
<1>1. CASE ~ IsLiteral(oc.goal)
  BY <1>1, DisjunctIsSound DEF HandleOpenCondition
<1>2. CASE IsLiteral(oc.goal)
  <2>1. CASE q \in AddStep(p, oc)
    <3>1. Len(p.acts) # MaxSteps
      BY <2>1 DEF AddStep
    <3>2. PICK a \in Actions :
            q \in UNION {LinkNew(p, a, e, oc) :
                           e \in {f \in Effects[a] : f.lit = TheLiteral(oc.goal)}}
      BY <2>1, <3>1 DEF AddStep
    <3>3. PICK e \in Effects[a] : e.lit = TheLiteral(oc.goal) /\ q \in LinkNew(p, a, e, oc)
      BY <3>2
    <3> QED BY <1>2, <3>1, <3>3, LinkNewIsSound
  <2>2. CASE q \in ReuseStep(p, oc)
    <3>1. PICK s \in StepIds(p) :
            /\ PossiblyBefore(p.ord, s, oc.step)
            /\ q \in UNION {LinkOld(p, s, e, oc) :
                              e \in {f \in ActionEffects(p, s) : f.lit = TheLiteral(oc.goal)}}
      BY <2>2 DEF ReuseStep
    <3>2. PICK e \in ActionEffects(p, s) :
            e.lit = TheLiteral(oc.goal) /\ q \in LinkOld(p, s, e, oc)
      BY <3>1
    <3> QED BY <1>2, <3>1, <3>2, LinkOldIsSound
  <2>3. CASE q \in NewCwLink(p, oc)
    BY <1>2, <2>3, CwLinkIsSound
  <2> QED BY <1>2, <2>1, <2>2, <2>3 DEF HandleOpenCondition
<1> QED BY <1>1, <1>2

\* A step goes to a child of a flaw that the plan has.
LEMMA RefinedIsSound ==
  ASSUME problem \in Problems, Sound(plan), Refined
  PROVE  Sound(plan') /\ Descends(plan, plan')
<1>1. CASE \E u \in Unsafes :
             ThreatDropped(u) \/ ThreatSeparated(u) \/ ThreatPromoted(u) \/ ThreatDemoted(u)
  <2>1. PICK u \in Unsafes : plan' \in HandleUnsafe(plan, u)
    BY <1>1 DEF ThreatDropped, ThreatSeparated, ThreatPromoted, ThreatDemoted, HandleUnsafe
  <2> QED BY <2>1, UnsafeChildIsSound DEF Unsafes
<1>2. CASE \E oc \in OpenConditions :
             StepAdded(oc) \/ StepReused(oc) \/ ClosedWorldLinked(oc) \/ DisjunctChosen(oc)
  <2>1. PICK oc \in OpenConditions : plan' \in HandleOpenCondition(plan, oc)
    BY <1>2 DEF StepAdded, StepReused, ClosedWorldLinked, DisjunctChosen, HandleOpenCondition
  <2> QED BY <2>1, OpenChildIsSound DEF OpenConditions
<1> QED BY <1>1, <1>2 DEF Refined

\* The task does not change, so what is sound now is sound in the next state.
LEMMA SameTask ==
  ASSUME problem' = problem, Sound(plan')
  PROVE  Sound(plan)'
<1>1. /\ Actions' = Actions /\ Pre' = Pre /\ Effects' = Effects /\ InitAtoms' = InitAtoms
      /\ Goal' = Goal
  BY DEF Actions, Pre, Effects, InitAtoms, Goal
<1>2. ASSUME NEW s
      PROVE  /\ ActionPre(plan, s)' = ActionPre(plan', s)
             /\ ActionEffects(plan, s)' = ActionEffects(plan', s)
  BY <1>1 DEF ActionPre, ActionEffects
<1>3. ASSUME NEW s, NEW e PROVE StepGuard(plan, s, e)' = StepGuard(plan', s, e)
  BY <1>2 DEF StepGuard
<1>4. ASSUME NEW s, NEW l PROVE Clobbering(plan, s, l)' = Clobbering(plan', s, l)
  BY <1>2, <1>3 DEF Clobbering
<1>5. IsPlan(plan)' <=> IsPlan(plan')
  BY <1>1, <1>2 DEF IsPlan
<1>6. LinksRunForward(plan)' <=> LinksRunForward(plan')
  BY DEF LinksRunForward
<1>7. ASSUME NEW l PROVE Supported(plan, l)' <=> Supported(plan', l)
  BY <1>1, <1>2, <1>3 DEF Supported, ClosedWorld
<1>8. ConditionsCovered(plan)' <=> ConditionsCovered(plan')
  BY <1>2, <1>7 DEF ConditionsCovered
<1>9. ThreatsAccounted(plan)' <=> ThreatsAccounted(plan')
  BY <1>3, <1>4 DEF ThreatsAccounted
<1> QED BY <1>5, <1>6, <1>8, <1>9 DEF Sound

\* The inductive invariant.
LEMMA PlansStaySound == Spec => [](problem \in Problems /\ Sound(plan))
<1> DEFINE Inv == problem \in Problems /\ Sound(plan)
<1>1. Init => Inv
  BY InitialIsSound DEF Init
<1>2. Inv /\ [Next]_vars => Inv'
  <2> SUFFICES ASSUME Inv, [Next]_vars PROVE Inv'
    OBVIOUS
  <2>1. problem' = problem
    BY DEF Next, vars
  <2>2. Sound(plan')
    BY RefinedIsSound DEF Next, vars
  <2> QED BY <2>1, <2>2, SameTask
<1> QED BY <1>1, <1>2, PTL DEF Spec

(* The flaws a plan has are those on its lists: nothing a step needs is     *)
(* forgotten, no threat is overlooked, every link runs forward, for every   *)
(* task and whichever flaw is selected.                                     *)
THEOREM FlawsStayComplete == Spec => []FlawsAreComplete
<1>1. problem \in Problems /\ Sound(plan) => FlawsAreComplete
  BY DEF Sound, FlawsAreComplete
<1> QED BY <1>1, PlansStaySound, PTL

-----------------------------------------------------------------------------
(* The states an execution goes through.                                    *)

\* The states up to number m, as a function that satisfies the recursion.
Replays(acts, st, m) ==
  st = [k \in 1 .. m |-> IF k = 1 THEN InitAtoms ELSE Execute(acts[k - 1], st[k - 1])]

LEMMA ReplayExists ==
  ASSUME NEW acts, NEW n \in Nat
  PROVE  \E st : Replays(acts, st, n)
<1> DEFINE T == {m \in Nat : ~ \E st : Replays(acts, st, m)}
<1>1. CASE T = {}
  BY <1>1
<1>2. CASE T # {}
  <2>1. PICK m \in T : \A k \in T : m <= k
    BY <1>2, LeastNatural
  <2>2. CASE m = 0
    <3> DEFINE st == [k \in 1 .. 0 |-> IF k = 1 THEN InitAtoms ELSE {}]
    <3>1. Replays(acts, st, 0)
      BY DEF Replays
    <3> QED BY <2>1, <2>2, <3>1
  <2>3. CASE m # 0
    <3>1. m \in Nat /\ m - 1 \in Nat /\ m - 1 \notin T
      BY <2>1, <2>3
    <3>2. PICK old : Replays(acts, old, m - 1)
      BY <3>1
    <3> DEFINE st == [k \in 1 .. m |-> IF k = 1 THEN InitAtoms
                                       ELSE Execute(acts[k - 1], old[k - 1])]
    <3>3. \A k \in 1 .. m - 1 : st[k] = old[k]
      BY <3>1, <3>2 DEF Replays
    <3>4. \A k \in 1 .. m : k # 1 => k - 1 \in 1 .. m - 1
      BY <3>1
    <3>5. Replays(acts, st, m)
      BY <3>3, <3>4 DEF Replays
    <3> QED BY <2>1, <3>5
  <2> QED BY <2>2, <2>3
<1> QED BY <1>1, <1>2

LEMMA StatesRecursion ==
  ASSUME NEW acts, Len(acts) \in Nat
  PROVE  /\ States(acts)[1] = InitAtoms
         /\ \A k \in 1 .. Len(acts) : States(acts)[k + 1] = Execute(acts[k], States(acts)[k])
<1> DEFINE n == Len(acts) + 1
<1>1. n \in Nat /\ 1 \in 1 .. n
  OBVIOUS
<1>2. \E st : Replays(acts, st, n)
  BY <1>1, ReplayExists
<1>3. States(acts) = CHOOSE st : Replays(acts, st, n)
  BY DEF States, Replays
<1>4. Replays(acts, States(acts), n)
  BY <1>2, <1>3
<1> DEFINE st == States(acts)
<1>5. st = [k \in 1 .. n |-> IF k = 1 THEN InitAtoms ELSE Execute(acts[k - 1], st[k - 1])]
  BY <1>4 DEF Replays
<1> HIDE DEF st
<1>6. \A k \in 1 .. Len(acts) : k + 1 \in 1 .. n /\ k + 1 # 1 /\ (k + 1) - 1 = k
  OBVIOUS
<1>7. \A k \in 1 .. n : st[k] = IF k = 1 THEN InitAtoms ELSE Execute(acts[k - 1], st[k - 1])
  BY <1>5
<1>8. ASSUME NEW k \in 1 .. Len(acts) PROVE st[k + 1] = Execute(acts[k], st[k])
  <2>1. st[k + 1] = Execute(acts[(k + 1) - 1], st[(k + 1) - 1])
    BY <1>6, <1>7
  <2> QED BY <1>6, <2>1
<1> QED BY <1>1, <1>7, <1>8 DEF st

-----------------------------------------------------------------------------
(* One action.                                                              *)

HoldsClause(clause, state) == \E l \in clause : Holds(l, state)

LEMMA HoldsIff ==
  ASSUME NEW l \in Literals, NEW state
  PROVE  /\ l.pos => (Holds(l, state) <=> l.atom \in state)
         /\ ~ l.pos => (Holds(l, state) <=> l.atom \notin state)
<1>1. (l.pos = TRUE \/ l.pos = FALSE) /\ (l.atom \in state) \in BOOLEAN
  BY DEF Literals
<1>2. CASE l.pos = TRUE
  BY <1>2, Zenon DEF Holds
<1>3. CASE l.pos = FALSE
  <2>1. Holds(l, state) <=> ((l.atom \in state) = FALSE)
    BY <1>3 DEF Holds
  <2>2. ((l.atom \in state) = FALSE) <=> ~ (l.atom \in state)
    OBVIOUS
  <2> QED BY <1>3, <2>1, <2>2
<1> QED BY <1>1, <1>2, <1>3

LEMMA Opposite ==
  ASSUME NEW l \in Literals, NEW state
  PROVE  Holds(Neg(l), state) <=> ~ Holds(l, state)
<1>1. l.pos \in BOOLEAN
  BY DEF Literals
<1> QED BY <1>1, NegatedLiteral DEF Holds

LEMMA ClauseOrConfrontation ==
  ASSUME NEW guard \in SUBSET (SUBSET Literals), NEW state
  PROVE  HoldsDisjunction(Confrontation(guard), state) <=>
           ~ \A clause \in guard : HoldsClause(clause, state)
<1>1. ASSUME NEW clause \in guard
      PROVE  (\A l \in NegatedCube(clause) : Holds(l, state)) <=> ~ HoldsClause(clause, state)
  <2>1. \A l \in clause : Holds(Neg(l), state) <=> ~ Holds(l, state)
    BY Opposite
  <2> QED BY <2>1 DEF NegatedCube, HoldsClause
<1> QED BY <1>1 DEF HoldsDisjunction, Confrontation

\* What an action changes.
LEMMA Executed ==
  ASSUME NEW a, NEW state, NEW x
  PROVE  x \in Execute(a, state) <=>
           \/ \E k \in Fired(a, state) : k.pos /\ k.atom = x
           \/ x \in state /\ \A k \in Fired(a, state) : ~ k.pos => k.atom # x
BY DEF Execute

\* An effect whose whole guard holds comes about: conditions are read before
\* the step, and a simultaneous add that would win over a delete is guarded out.
LEMMA GuardedEffectHolds ==
  ASSUME problem \in Problems, NEW a \in Actions, NEW e \in Effects[a], NEW state,
         NEW pre, \A clause \in Guard(pre, Effects[a], e) : HoldsClause(clause, state)
  PROVE  Holds(e.lit, Execute(a, state))
<1>1. \A f \in Effects[a] : IsEffect(f)
  BY TaskTypes
<1>2. /\ e.cond \in SUBSET Literals /\ e.lit \in Literals /\ e.lit.pos \in BOOLEAN
      /\ \A f \in Effects[a] : f.cond \in SUBSET Literals /\ f.lit \in Literals
  BY <1>1 DEF IsEffect, Cubes, Literals
<1>3. \A l \in e.cond : Holds(l, state)
  <2> TAKE l \in e.cond
  <2>1. HoldsClause({l}, state)
    BY DEF Guard
  <2> QED BY <2>1 DEF HoldsClause
<1>4. e.lit \in Fired(a, state)
  BY <1>3 DEF Fired
<1>5. CASE e.lit.pos
  <2>1. e.lit.atom \in Execute(a, state)
    BY <1>4, <1>5, Executed
  <2>2. e.lit.pos = TRUE
    BY <1>2, <1>5
  <2> QED BY <2>1, <2>2 DEF Holds
<1>6. CASE ~ e.lit.pos
  <2>1. ASSUME NEW f \in Effects[a], f.lit.pos, f.lit.atom = e.lit.atom,
               \A l \in f.cond : Holds(l, state)
        PROVE  FALSE
    <3>1. f.lit = Neg(e.lit)
      <4>1. /\ f.lit = [atom |-> f.lit.atom, pos |-> f.lit.pos] /\ f.lit.pos = TRUE
            /\ Neg(e.lit) = [atom |-> Neg(e.lit).atom, pos |-> Neg(e.lit).pos]
            /\ Neg(e.lit).pos = TRUE /\ Neg(e.lit).atom = e.lit.atom
        BY <1>2, <1>6, <2>1, NegatedLiteral DEF Literals
      <4> QED BY <2>1, <4>1
    <3>2. NegatedCube(f.cond) \in AddSeparators(Effects[a], e)
      BY <1>6, <3>1 DEF AddSeparators
    <3>3. HoldsClause(NegatedCube(f.cond), state)
      BY <3>2 DEF Guard
    <3>4. PICK l \in f.cond : Holds(Neg(l), state)
      BY <3>3 DEF HoldsClause, NegatedCube
    <3>5. l \in Literals
      BY <1>2
    <3> QED BY <2>1, <3>4, <3>5, Opposite
  <2>2. \A k \in Fired(a, state) : ~ (k.pos /\ k.atom = e.lit.atom)
    BY <2>1 DEF Fired
  <2>3. e.lit.atom \notin Execute(a, state)
    BY <1>4, <1>6, <2>2, Executed
  <2> QED BY <1>2, <1>6, <2>3, HoldsIff
<1> QED BY <1>2, <1>5, <1>6

\* A literal that an action makes true has an effect behind it whose whole
\* guard held, the link condition included.
LEMMA ChangeHasEffect ==
  ASSUME problem \in Problems, NEW a \in Actions, NEW l \in Literals, NEW state,
         ~ Holds(l, state), Holds(l, Execute(a, state)), HoldsAll(Pre[a], state)
  PROVE  \E e \in Effects[a] :
           e.lit = l /\ \A c \in Guard(Pre[a], Effects[a], e) : HoldsClause(c, state)
<1>1. /\ \A f \in Effects[a] : IsEffect(f)
      /\ Pre[a] \in SUBSET (SUBSET Cubes) /\ l.pos \in BOOLEAN
  BY TaskTypes DEF Literals
<1>2. /\ \A f \in Effects[a] : f.cond \in SUBSET Literals /\ f.lit \in Literals
      /\ Neg(l) \in Literals /\ Neg(Neg(l)) = l /\ Holds(Neg(l), state)
      /\ Neg(l).pos = ~ l.pos /\ Neg(l).atom = l.atom
  BY <1>1, NegatedLiteral, Opposite DEF IsEffect, Cubes
<1>3. ASSUME NEW e \in Effects[a], e.lit = l, \A m \in e.cond : Holds(m, state),
             l.pos \/ \A k \in Fired(a, state) : k # Neg(l),
             NEW c \in Guard(Pre[a], Effects[a], e)
      PROVE  HoldsClause(c, state)
  <2>1. CASE c \in {{m} : m \in e.cond}
    BY <1>3, <2>1 DEF HoldsClause
  <2>2. CASE c \in AddSeparators(Effects[a], e)
    <3>1. ~ l.pos
      BY <1>3, <2>2 DEF AddSeparators
    <3>2. PICK f \in Effects[a] : f.lit = Neg(l) /\ c = NegatedCube(f.cond)
      BY <1>3, <2>2, <3>1 DEF AddSeparators
    <3>3. PICK m \in f.cond : ~ Holds(m, state)
      <4>1. Neg(l) \notin Fired(a, state)
        BY <1>3, <3>1
      <4> QED BY <3>2, <4>1 DEF Fired
    <3>4. Neg(m) \in c /\ Holds(Neg(m), state)
      BY <1>2, <3>2, <3>3, Opposite DEF NegatedCube
    <3> QED BY <3>4 DEF HoldsClause
  <2>3. CASE c \in PreconditionSeparators(Pre[a], e)
    <3>1. PICK d \in Pre[a] :
            c \in IF \E k \in d : d = {k} /\ e.lit \in k
                  THEN {{}}
                  ELSE {NegatedCube(k) : k \in {k \in d : Cardinality(d) > 1 /\ e.lit \in k}}
      BY <2>3 DEF PreconditionSeparators
    <3>2. ~ \E k \in d : d = {k} /\ e.lit \in k
      <4>1. HoldsDisjunction(d, state)
        BY DEF HoldsAll
      <4> QED BY <1>3, <4>1 DEF HoldsDisjunction
    <3>3. PICK k \in d : c = NegatedCube(k) /\ e.lit \in k
      BY <3>1, <3>2
    <3>4. Neg(l) \in c
      BY <1>3, <3>3 DEF NegatedCube
    <3> QED BY <1>2, <3>4 DEF HoldsClause
  <2> QED BY <2>1, <2>2, <2>3 DEF Guard
<1>4. ASSUME l \in Fired(a, state), l.pos \/ \A k \in Fired(a, state) : k # Neg(l)
      PROVE  \E e \in Effects[a] :
               e.lit = l /\ \A c \in Guard(Pre[a], Effects[a], e) : HoldsClause(c, state)
  <2>1. PICK e \in Effects[a] : l = e.lit /\ \A m \in e.cond : Holds(m, state)
    BY <1>4 DEF Fired
  <2> QED BY <1>3, <1>4, <2>1
<1>5. \A k \in Fired(a, state) : k \in Literals
  BY <1>2 DEF Fired
<1>6. ASSUME NEW k \in Literals, k.atom = l.atom, k.pos <=> l.pos PROVE k = l
  <2>1. /\ k = [atom |-> k.atom, pos |-> k.pos] /\ k.pos \in BOOLEAN
        /\ l = [atom |-> l.atom, pos |-> l.pos]
    BY DEF Literals
  <2>2. k.pos = l.pos
    BY <1>1, <1>6, <2>1
  <2> QED BY <1>6, <2>1, <2>2
<1>7. CASE l.pos
  <2>1. l.atom \notin state /\ l.atom \in Execute(a, state)
    BY <1>7, HoldsIff
  <2>2. PICK k \in Fired(a, state) : k.pos /\ k.atom = l.atom
    BY <2>1, Executed
  <2>3. k = l
    BY <1>5, <1>6, <1>7, <2>2
  <2> QED BY <1>4, <1>7, <2>3
<1>8. CASE ~ l.pos
  <2>1. l.atom \in state /\ l.atom \notin Execute(a, state)
    BY <1>1, <1>8, HoldsIff
  <2>2. PICK k \in Fired(a, state) : ~ k.pos /\ k.atom = l.atom
    BY <2>1, Executed
  <2>3. k = l
    BY <1>5, <1>6, <1>8, <2>2
  <2>4. \A m \in Fired(a, state) : m # Neg(l)
    BY <1>2, <1>8, <2>1, Executed
  <2> QED BY <1>4, <2>2, <2>3, <2>4
<1> QED BY <1>7, <1>8

LEMMA GuardLiterals ==
  ASSUME problem \in Problems, NEW a \in Actions, NEW e \in Effects[a]
  PROVE  /\ Guard(Pre[a], Effects[a], e) \in SUBSET (SUBSET Literals)
         /\ \A c \in Guard(Pre[a], Effects[a], e) : AsDisjunction(c) \in SUBSET Cubes
         /\ Confrontation(Guard(Pre[a], Effects[a], e)) \in SUBSET Cubes
<1> DEFINE pre == Pre[a]
           E == Effects[a]
<1>1. pre \in SUBSET (SUBSET Cubes) /\ e \in E /\ \A f \in E : IsEffect(f)
  BY TaskTypes
<1> HIDE DEF pre, E
<1>2. /\ Guard(pre, E, e) \in SUBSET (SUBSET Literals)
      /\ \A c \in Guard(pre, E, e) : AsDisjunction(c) \in SUBSET Cubes
      /\ Confrontation(Guard(pre, E, e)) \in SUBSET Cubes
  BY ONLY <1>1, GuardTypes
<1> QED BY <1>2 DEF pre, E

\* A literal outlives an action that executes, if every effect that would undo
\* it, and whose guard is not false, is confronted.
LEMMA ConfrontedLiteralStays ==
  ASSUME problem \in Problems, NEW a \in Actions, NEW l \in Literals, NEW state,
         Holds(l, state), HoldsAll(Pre[a], state),
         \A e \in Effects[a] :
           e.lit = Neg(l) /\ {} \notin Guard(Pre[a], Effects[a], e) =>
             HoldsDisjunction(Confrontation(Guard(Pre[a], Effects[a], e)), state)
  PROVE  Holds(l, Execute(a, state))
<1> SUFFICES ASSUME ~ Holds(l, Execute(a, state)) PROVE FALSE
  OBVIOUS
<1>1. Neg(l) \in Literals /\ ~ Holds(Neg(l), state) /\ Holds(Neg(l), Execute(a, state))
  BY NegatedLiteral, Opposite
<1>2. PICK e \in Effects[a] :
        e.lit = Neg(l) /\ \A c \in Guard(Pre[a], Effects[a], e) : HoldsClause(c, state)
  BY <1>1, ChangeHasEffect
<1>3. {} \notin Guard(Pre[a], Effects[a], e)
  BY <1>2 DEF HoldsClause
<1>4. HoldsDisjunction(Confrontation(Guard(Pre[a], Effects[a], e)), state)
  BY <1>2, <1>3
<1> QED BY <1>2, <1>4, GuardLiterals, ClauseOrConfrontation

-----------------------------------------------------------------------------
(* A plan without flaws, in one of the orders it allows.                    *)

LEMMA CoveredHolds ==
  ASSUME NEW p, p.open = EmptyBag, NEW d, NEW s, Covered(p, d, s), NEW state,
         \A k \in BagToSet(p.links) : k.to = s => Holds(k.cond, state)
  PROVE  HoldsDisjunction(d, state)
<1>1. BagToSet(p.open) = {}
  BY DEF EmptyBag, SetToBag, BagToSet
<1>2. \E c \in d : \A l \in c : \E k \in BagToSet(p.links) : k.to = s /\ k.cond = l
  BY <1>1 DEF Covered
<1> QED BY <1>2 DEF HoldsDisjunction

\* The number of the state a step reads when the plan is executed in order w;
\* it leads to the next one.
At(p, w, s) ==
  IF s = InitId THEN 0
  ELSE IF s = GoalId THEN Len(p.acts) + 1
  ELSE CHOOSE k \in 1 .. Len(p.acts) : w[k] = s

InOrder(p, w) == [k \in 1 .. Len(w) |-> p.acts[w[k]]]

LEMMA Positions ==
  ASSUME NEW p, IsPlan(p), NEW w \in Linearizations(p)
  PROVE  /\ Len(w) = Len(p.acts)
         /\ \A k \in 1 .. Len(p.acts) : w[k] \in 1 .. Len(p.acts) /\ At(p, w, w[k]) = k
         /\ \A s \in 1 .. Len(p.acts) : At(p, w, s) \in 1 .. Len(p.acts) /\ w[At(p, w, s)] = s
         /\ \A s, t \in 1 .. Len(p.acts) :
              OrderedBefore(p.ord, s, t) => At(p, w, s) < At(p, w, t)
         /\ At(p, w, InitId) = 0 /\ At(p, w, GoalId) = Len(p.acts) + 1
<1> DEFINE n == Len(p.acts)
           S == 1 .. n
<1>1. n \in Nat /\ \A s \in S : s # InitId /\ s # GoalId
  BY Ids
<1>2. InitId # GoalId
  BY Ids
<1>3. IsFiniteSet(S) /\ Cardinality(S) = n
  BY <1>1, FS_Interval
<1>4. w \in [S -> S] /\ \A i, j \in S : i # j => w[i] # w[j]
  <2>1. w \in SetToSeqs(S)
    BY DEF Linearizations
  <2> QED BY <1>3, <2>1 DEF SetToSeqs
<1>5. Len(w) = n
  BY <1>1, <1>4
<1>6. \A s \in S : \E k \in S : w[k] = s
  <2>1. w \in Injection(S, S)
    BY <1>4 DEF Injection, IsInjective
  <2>2. w \in Surjection(S, S)
    BY <1>3, <2>1, FS_Injection
  <2> QED BY <2>2 DEF Surjection
<1>7. \A s \in S : At(p, w, s) \in S /\ w[At(p, w, s)] = s
  BY <1>1, <1>6 DEF At
<1>8. \A k \in S : w[k] \in S /\ At(p, w, w[k]) = k
  BY <1>4, <1>7
<1>9. \A s, t \in S : OrderedBefore(p.ord, s, t) => At(p, w, s) < At(p, w, t)
  BY <1>5, <1>7 DEF Linearizations
<1> QED BY <1>2, <1>5, <1>7, <1>8, <1>9 DEF At

LEMMA Executions ==
  ASSUME NEW p, IsPlan(p), NEW w \in Linearizations(p)
  PROVE  LET acts == InOrder(p, w)
             st   == States(acts)
         IN  /\ Len(acts) = Len(p.acts) /\ Len(w) = Len(p.acts)
             /\ \A k \in 1 .. Len(p.acts) : acts[k] = p.acts[w[k]] /\ acts[k] \in Actions
             /\ st[1] = InitAtoms
             /\ \A k \in 1 .. Len(p.acts) : st[k + 1] = Execute(p.acts[w[k]], st[k])
<1> DEFINE acts == InOrder(p, w)
<1>1. /\ Len(w) = Len(p.acts) /\ Len(p.acts) \in Nat
      /\ \A k \in 1 .. Len(p.acts) : w[k] \in 1 .. Len(p.acts)
  BY Positions, Ids
<1>2. \A s \in 1 .. Len(p.acts) : p.acts[s] \in Actions
  BY DEF IsPlan
<1>3. Len(acts) = Len(p.acts) /\ \A k \in 1 .. Len(p.acts) : acts[k] = p.acts[w[k]]
  BY <1>1 DEF InOrder
<1> HIDE DEF acts
<1>4. /\ States(acts)[1] = InitAtoms
      /\ \A k \in 1 .. Len(acts) : States(acts)[k + 1] = Execute(acts[k], States(acts)[k])
  BY <1>1, <1>3, StatesRecursion
<1> QED BY <1>1, <1>2, <1>3, <1>4 DEF acts

\* A link spans the states from its producer to its consumer.
LEMMA LinkSpans ==
  ASSUME NEW p, Sound(p), NEW w \in Linearizations(p), NEW l \in BagToSet(p.links)
  PROVE  /\ \/ l.from = InitId /\ At(p, w, l.from) = 0
            \/ l.from \in 1 .. Len(p.acts) /\ At(p, w, l.from) \in 1 .. Len(p.acts)
         /\ At(p, w, l.to) \in 1 .. Len(p.acts) + 1 /\ At(p, w, l.from) < At(p, w, l.to)
<1>1. IsPlan(p)
  BY DEF Sound
<1>2. Len(p.acts) \in Nat /\ RealSteps(p.ord) = 1 .. Len(p.acts)
  BY <1>1, Ids
<1>3. l.from \in {InitId} \cup 1 .. Len(p.acts) /\ l.to \in {GoalId} \cup 1 .. Len(p.acts)
  <2>1. l.from \in StepIds(p) \ {GoalId} /\ l.to \in StepIds(p) \ {InitId}
    BY <1>1 DEF IsPlan
  <2> QED BY <1>1, <2>1, Ids
<1>4. RunsBefore(p.ord, l.from, l.to)
  <2>1. l.from \in StepIds(p) \ {GoalId} /\ l.to \in StepIds(p) \ {InitId}
    BY <1>1 DEF IsPlan
  <2> QED BY <1>1, <2>1, RunsForward DEF Sound, LinksRunForward
<1>5. /\ At(p, w, InitId) = 0 /\ At(p, w, GoalId) = Len(p.acts) + 1
      /\ \A s \in 1 .. Len(p.acts) : At(p, w, s) \in 1 .. Len(p.acts)
  BY <1>1, Positions
<1>6. \/ l.from = InitId /\ At(p, w, l.from) = 0
      \/ l.from \in 1 .. Len(p.acts) /\ At(p, w, l.from) \in 1 .. Len(p.acts)
  <2>1. CASE l.from = InitId
    BY <1>5, <2>1
  <2>2. CASE l.from \in 1 .. Len(p.acts)
    BY <1>5, <2>2
  <2> QED BY <1>3, <2>1, <2>2
<1>7. At(p, w, l.to) \in 1 .. Len(p.acts) + 1
  BY <1>2, <1>3, <1>5
<1>8. At(p, w, l.from) < At(p, w, l.to)
  <2>1. CASE l.from = InitId
    BY <1>5, <1>7, <2>1
  <2>2. CASE l.to = GoalId /\ l.from # InitId
    BY <1>2, <1>5, <1>6, <2>2
  <2>3. CASE OrderedBefore(p.ord, l.from, l.to) /\ l.from # InitId /\ l.to # GoalId
    BY <1>1, <1>3, <2>3, Positions
  <2> QED BY <1>4, <2>1, <2>2, <2>3 DEF RunsBefore
<1> QED BY <1>6, <1>7, <1>8

\* A step that executes between the two may be placed there.
LEMMA BetweenIsAdmitted ==
  ASSUME NEW p, Sound(p), NEW w \in Linearizations(p), NEW l \in BagToSet(p.links),
         NEW k \in 1 .. Len(p.acts), At(p, w, l.from) < k, k < At(p, w, l.to)
  PROVE  PlacementAdmits(p.ord, l, w[k])
<1> DEFINE s == w[k]
<1>1. IsPlan(p)
  BY DEF Sound
<1>2. /\ s \in 1 .. Len(p.acts) /\ At(p, w, s) = k /\ s # InitId /\ s # GoalId
      /\ Len(p.acts) \in Nat /\ RealSteps(p.ord) = 1 .. Len(p.acts) /\ InitId # GoalId
  BY <1>1, Positions, Ids
<1>3. /\ At(p, w, l.from) \in Int /\ At(p, w, l.to) \in Int
      /\ l.from \in {InitId} \cup RealSteps(p.ord) /\ l.from # GoalId /\ l.to # InitId
      /\ l.to \in {GoalId} \cup RealSteps(p.ord)
  <2>1. l.from \in StepIds(p) \ {GoalId} /\ l.to \in StepIds(p) \ {InitId}
    BY <1>1 DEF IsPlan
  <2> QED BY <1>1, <1>2, <2>1, LinkSpans, Ids
<1> HIDE DEF s
<1>4. s # l.from /\ s # l.to
  BY <1>2, <1>3
<1>5. ~ OrderedBefore(p.ord, s, l.from)
  <2> SUFFICES ASSUME OrderedBefore(p.ord, s, l.from) PROVE FALSE
    OBVIOUS
  <2>1. l.from \in 1 .. Len(p.acts)
    BY <1>1, <1>2, <1>3 DEF OrderedBefore, IsPlan, IsOrderings, InitId
  <2>2. At(p, w, s) < At(p, w, l.from)
    BY <1>1, <1>2, <2>1, Positions
  <2> QED BY <1>2, <1>3, <2>2
<1>6. ~ OrderedBefore(p.ord, l.to, s)
  <2> SUFFICES ASSUME OrderedBefore(p.ord, l.to, s) PROVE FALSE
    OBVIOUS
  <2>1. l.to \in 1 .. Len(p.acts)
    BY <1>2 DEF OrderedBefore
  <2>2. At(p, w, l.to) < At(p, w, s)
    BY <1>1, <1>2, <2>1, Positions
  <2> QED BY <1>2, <1>3, <2>2
<1>7. PlacementAdmits(p.ord, l, s)
  BY <1>2, <1>3, <1>4, <1>5, <1>6
     DEF PlacementAdmits, PossiblyNotAfter, PossiblyNotBefore, PossiblyBefore, PossiblyAfter
<1> QED BY <1>7 DEF s

\* The producer of a link makes its condition true, if what it needs is true.
LEMMA ProducerMakesTrue ==
  ASSUME problem \in Problems, NEW p, Sound(p), p.open = EmptyBag, NEW w \in Linearizations(p),
         NEW l \in BagToSet(p.links),
         \A k \in BagToSet(p.links) :
           k.to = l.from => Holds(k.cond, States(InOrder(p, w))[At(p, w, l.from)])
  PROVE  Holds(l.cond, States(InOrder(p, w))[At(p, w, l.from) + 1])
<1> DEFINE st == States(InOrder(p, w))
           j == At(p, w, l.from)
<1>1. IsPlan(p) /\ Supported(p, l) /\ l.cond \in Literals
  BY DEF Sound, ConditionsCovered, IsPlan
<1>2. CASE l.from = InitId
  <2>1. j = 0 /\ st[j + 1] = InitAtoms
    BY <1>1, <1>2, Positions, Executions
  <2>2. CASE ClosedWorld(l.cond)
    BY <1>1, <2>1, <2>2, HoldsIff DEF ClosedWorld, Literals
  <2>3. CASE ~ ClosedWorld(l.cond)
    <3>1. PICK e \in ActionEffects(p, l.from) : e.lit = l.cond
      BY <1>1, <2>3 DEF Supported
    <3>2. l.from \in StepIds(p)
      BY <1>1 DEF IsPlan
    <3>3. l.cond.pos /\ l.cond.atom \in InitAtoms
      BY <1>1, <1>2, <3>1, <3>2, EffectTypes
    <3> QED BY <1>1, <2>1, <3>3, HoldsIff DEF Literals
  <2> QED BY <2>2, <2>3
<1>3. CASE l.from # InitId
  <2>1. l.from \in 1 .. Len(p.acts) /\ j \in 1 .. Len(p.acts)
    BY <1>3, LinkSpans
  <2>2. w[j] = l.from /\ l.from # GoalId
    BY <1>1, <2>1, Positions, Ids
  <2>3. st[j + 1] = Execute(p.acts[l.from], st[j]) /\ p.acts[l.from] \in Actions
    BY <1>1, <2>1, <2>2, Executions
  <2>4. /\ ActionEffects(p, l.from) = Effects[p.acts[l.from]]
        /\ ActionPre(p, l.from) = Pre[p.acts[l.from]]
    BY <1>3, <2>2 DEF ActionEffects, ActionPre
  <2>5. PICK e \in Effects[p.acts[l.from]] :
          /\ e.lit = l.cond
          /\ \A c \in StepGuard(p, l.from, e) : Covered(p, AsDisjunction(c), l.from)
    BY <1>1, <1>3, <2>4 DEF Supported
  <2>6. ASSUME NEW c \in StepGuard(p, l.from, e) PROVE HoldsClause(c, st[j])
    <3>1. HoldsDisjunction(AsDisjunction(c), st[j])
      BY <2>5, CoveredHolds
    <3> QED BY <3>1 DEF HoldsDisjunction, AsDisjunction, HoldsClause
  <2>7. StepGuard(p, l.from, e) = Guard(Pre[p.acts[l.from]], Effects[p.acts[l.from]], e)
    BY <2>4 DEF StepGuard
  <2> DEFINE a == p.acts[l.from]
  <2>8. /\ a \in Actions /\ e \in Effects[a] /\ st[j + 1] = Execute(a, st[j])
        /\ \A c \in Guard(Pre[a], Effects[a], e) : HoldsClause(c, st[j])
    BY <2>3, <2>6, <2>7
  <2> HIDE DEF a, st, j
  <2>9. Holds(e.lit, Execute(a, st[j]))
    BY <2>8, GuardedEffectHolds
  <2> QED BY <2>5, <2>8, <2>9 DEF st, j
<1> QED BY <1>2, <1>3

\* An action between producer and consumer leaves the condition alone, if
\* what its step needs is true.
LEMMA StepLeavesAlone ==
  ASSUME problem \in Problems, NEW p, Sound(p), Complete(p), NEW w \in Linearizations(p),
         NEW l \in BagToSet(p.links), NEW k \in 1 .. Len(p.acts),
         At(p, w, l.from) < k, k < At(p, w, l.to),
         Holds(l.cond, States(InOrder(p, w))[k]),
         \A m \in BagToSet(p.links) : m.to = w[k] => Holds(m.cond, States(InOrder(p, w))[k])
  PROVE  Holds(l.cond, States(InOrder(p, w))[k + 1])
<1> DEFINE st == States(InOrder(p, w))
           s == w[k]
           a == p.acts[s]
           state == st[k]
           L == l.cond
<1>1. IsPlan(p) /\ L \in Literals /\ p.open = EmptyBag /\ p.unsafes = EmptyBag
  BY DEF Sound, IsPlan, Complete
<1>2. s \in 1 .. Len(p.acts) /\ a \in Actions /\ st[k + 1] = Execute(a, state)
  BY <1>1, Positions, Executions DEF IsPlan
<1>3. s \in StepIds(p) /\ ActionPre(p, s) = Pre[a] /\ ActionEffects(p, s) = Effects[a]
  <2>1. s # InitId /\ s # GoalId
    BY <1>1, <1>2, Ids
  <2> QED BY <1>2, <2>1 DEF StepIds, ActionPre, ActionEffects
<1>4. \A d, t : t = s /\ Covered(p, d, t) => HoldsDisjunction(d, state)
  BY <1>1, CoveredHolds
<1>5. HoldsAll(Pre[a], state)
  <2>1. \A d \in ActionPre(p, s) : Covered(p, d, s)
    BY <1>3 DEF Sound, ConditionsCovered
  <2> QED BY <1>3, <1>4, <2>1 DEF HoldsAll
<1>6. ASSUME NEW e \in Effects[a], e.lit = Neg(L), {} \notin Guard(Pre[a], Effects[a], e)
      PROVE  HoldsDisjunction(Confrontation(Guard(Pre[a], Effects[a], e)), state)
  <2>1. StepGuard(p, s, e) = Guard(Pre[a], Effects[a], e)
    BY <1>3 DEF StepGuard
  <2>2. e \in Clobbering(p, s, l)
    BY <1>3, <1>6, <2>1 DEF Clobbering
  <2>3. PlacementAdmits(p.ord, l, s)
    BY BetweenIsAdmitted
  <2>4. BagToSet(p.unsafes) = {}
    BY <1>1 DEF EmptyBag, SetToBag, BagToSet
  <2>5. Covered(p, Confrontation(StepGuard(p, s, e)), s)
    BY <1>3, <2>2, <2>3, <2>4 DEF Sound, ThreatsAccounted
  <2> QED BY <1>4, <2>1, <2>5
<1>7. Holds(L, state)
  OBVIOUS
<1> HIDE DEF a, s, state, L, st
<1>8. Holds(L, Execute(a, state))
  BY <1>1, <1>2, <1>5, <1>6, <1>7, ConfrontedLiteralStays
<1> QED BY <1>2, <1>8 DEF st, L

\* By the smallest exception: every linked condition is true when its
\* consumer executes.
LEMMA LinkedHolds ==
  ASSUME problem \in Problems, NEW p, Sound(p), Complete(p), NEW w \in Linearizations(p)
  PROVE  \A l \in BagToSet(p.links) : Holds(l.cond, States(InOrder(p, w))[At(p, w, l.to)])
<1> DEFINE st == States(InOrder(p, w))
           n == Len(p.acts)
           T == {m \in 1 .. n + 1 :
                   \E l \in BagToSet(p.links) : At(p, w, l.to) = m /\ ~ Holds(l.cond, st[m])}
<1>1. n \in Nat /\ IsPlan(p) /\ p.open = EmptyBag
  BY Ids DEF Sound, Complete
<1>2. CASE T = {}
  <2>1. \A l \in BagToSet(p.links) : At(p, w, l.to) \in 1 .. n + 1
    BY LinkSpans
  <2> QED BY <1>2, <2>1
<1>3. CASE T # {}
  <2>1. PICK m \in T : \A k \in T : m <= k
    <3>1. T \subseteq Nat
      BY <1>1
    <3> HIDE DEF T
    <3> QED BY <1>3, <3>1, LeastNatural
  <2>2. m \in 1 .. n + 1
    OBVIOUS
  <2>3. PICK l \in BagToSet(p.links) : At(p, w, l.to) = m /\ ~ Holds(l.cond, st[m])
    OBVIOUS
  <2>4. ASSUME NEW i \in BagToSet(p.links), At(p, w, i.to) < m
        PROVE  Holds(i.cond, st[At(p, w, i.to)])
    <3>1. At(p, w, i.to) \in 1 .. n + 1
      BY LinkSpans
    <3>2. At(p, w, i.to) \notin T
      BY <1>1, <2>1, <2>2, <2>4, <3>1
    <3> QED BY <3>1, <3>2
  <2> HIDE DEF T
  <2> DEFINE j == At(p, w, l.from)
             D == {k \in j + 1 .. m : ~ Holds(l.cond, st[k])}
  <2>5. j \in 0 .. n /\ j < m
    BY <1>1, <2>3, LinkSpans
  <2>6. Holds(l.cond, st[j + 1])
    <3>1. \A k \in BagToSet(p.links) : k.to = l.from => Holds(k.cond, st[j])
      BY <2>4, <2>5
    <3> QED BY <1>1, <3>1, ProducerMakesTrue
  <2>7. m \in D
    BY <1>1, <2>2, <2>3, <2>5
  <2>8. PICK k \in D : \A i \in D : k <= i
    <3>1. D \subseteq Nat /\ D # {}
      BY <1>1, <2>2, <2>5, <2>7
    <3> HIDE DEF D
    <3> QED BY <3>1, LeastNatural
  <2> DEFINE b == k - 1
  <2>9. /\ k \in j + 1 .. m /\ ~ Holds(l.cond, st[k]) /\ k # j + 1
    BY <2>6
  <2>10. b \in 1 .. n /\ j < b /\ b < m /\ b \in j + 1 .. m /\ b + 1 = k
    BY <1>1, <2>2, <2>5, <2>9
  <2>11. Holds(l.cond, st[b])
    <3>1. b \notin D
      <4> HIDE DEF D
      <4> QED BY <1>1, <2>2, <2>5, <2>8, <2>9, <2>10
    <3> QED BY <2>10, <3>1
  <2>12. \A i \in BagToSet(p.links) : i.to = w[b] => Holds(i.cond, st[b])
    <3>1. At(p, w, w[b]) = b
      BY <1>1, <2>10, Positions
    <3> QED BY <2>4, <2>10, <3>1
  <2> HIDE DEF b, D
  <2>13. Holds(l.cond, st[b + 1])
    BY <2>3, <2>10, <2>11, <2>12, StepLeavesAlone
  <2> QED BY <2>9, <2>10, <2>13
<1> QED BY <1>2, <1>3

(* A plan without flaws is a solution: every order it allows can be executed *)
(* from the initial state and reaches the goal.                              *)
THEOREM CompletePlansExecute == Spec => []CompletePlanExecutes
<1>1. ASSUME problem \in Problems, Sound(plan), Complete(plan), NEW w \in Linearizations(plan)
      PROVE  IsSolution(InOrder(plan, w))
  <2> DEFINE acts == InOrder(plan, w)
             st == States(acts)
             n == Len(plan.acts)
  <2>1. IsPlan(plan) /\ plan.open = EmptyBag /\ n \in Nat
    BY <1>1, Ids DEF Sound, Complete
  <2>2. \A l \in BagToSet(plan.links) : Holds(l.cond, st[At(plan, w, l.to)])
    BY <1>1, LinkedHolds
  <2>3. ASSUME NEW s \in StepIds(plan) PROVE HoldsAll(ActionPre(plan, s), st[At(plan, w, s)])
    <3>1. \A d \in ActionPre(plan, s) : Covered(plan, d, s)
      BY <1>1 DEF Sound, ConditionsCovered
    <3>2. \A d \in ActionPre(plan, s) : HoldsDisjunction(d, st[At(plan, w, s)])
      BY <2>1, <2>2, <3>1, CoveredHolds
    <3> QED BY <3>2 DEF HoldsAll
  <2>4. /\ Len(acts) = n /\ At(plan, w, GoalId) = n + 1 /\ ActionPre(plan, GoalId) = Goal
        /\ GoalId \in StepIds(plan)
    BY <1>1, <2>1, Executions, Positions DEF ActionPre, StepIds
  <2>5. ASSUME NEW k \in 1 .. n PROVE HoldsAll(Pre[acts[k]], st[k])
    <3>1. w[k] \in 1 .. n /\ At(plan, w, w[k]) = k /\ acts[k] = plan.acts[w[k]]
      BY <1>1, <2>1, Positions, Executions
    <3>2. w[k] \in StepIds(plan) /\ ActionPre(plan, w[k]) = Pre[acts[k]]
      <4>1. w[k] # InitId /\ w[k] # GoalId
        BY <2>1, <3>1, Ids
      <4> QED BY <3>1, <4>1 DEF StepIds, ActionPre
    <3> QED BY <2>3, <3>1, <3>2
  <2>6. HoldsAll(Goal, st[Len(acts) + 1])
    BY <2>3, <2>4
  <2> QED BY <2>4, <2>5, <2>6 DEF IsSolution
<1> DEFINE Inv == problem \in Problems /\ Sound(plan)
<1>2. Inv => CompletePlanExecutes
  BY <1>1 DEF CompletePlanExecutes, InOrder
<1>3. Spec => []Inv
  BY PlansStaySound
<1> QED BY <1>2, <1>3, PTL

-----------------------------------------------------------------------------
(* Solutions that a plan stands for.                                        *)

\* The number of the state that step s reads in a solution.
Place(acts, at, s) ==
  IF s = InitId THEN 0 ELSE IF s = GoalId THEN Len(acts) + 1 ELSE at[s]

Respects(o, at) ==
  \A s, t \in RealSteps(o) : OrderedBefore(o, s, t) => at[s] < at[t]

LinkFits(l, acts, at) ==
  \A k \in Place(acts, at, l.from) + 1 .. Place(acts, at, l.to) : Holds(l.cond, States(acts)[k])

GoalFits(oc, acts, at) == HoldsDisjunction(oc.goal, States(acts)[Place(acts, at, oc.step)])

Fits(p, acts, at) ==
  /\ at \in Injection(1 .. Len(p.acts), 1 .. Len(acts))
  /\ \A s \in 1 .. Len(p.acts) : acts[at[s]] = p.acts[s]
  /\ Respects(p.ord, at)
  /\ \A l \in BagToSet(p.links) : LinkFits(l, acts, at)
  /\ \A oc \in BagToSet(p.open) : GoalFits(oc, acts, at)

LEMMA StandsForIff ==
  ASSUME NEW p, NEW acts, RealSteps(p.ord) = 1 .. Len(p.acts)
  PROVE  StandsFor(p, acts) <=> \E at : Fits(p, acts, at)
<1>1. ASSUME StandsFor(p, acts) PROVE \E at : Fits(p, acts, at)
  BY <1>1 DEF StandsFor, Fits, Place, Respects, LinkFits, GoalFits
<1>2. ASSUME NEW at, Fits(p, acts, at) PROVE StandsFor(p, acts)
  BY <1>2 DEF StandsFor, Fits, Place, Respects, LinkFits, GoalFits
<1> QED BY <1>1, <1>2

Solves(acts) ==
  acts \in Seq(Actions) /\ Len(acts) <= MaxSteps /\ IsSolution(acts)

LEMMA SolutionSteps ==
  ASSUME NEW acts, Solves(acts)
  PROVE  LET st == States(acts) IN
         /\ Len(acts) \in Nat /\ st[1] = InitAtoms /\ HoldsAll(Goal, st[Len(acts) + 1])
         /\ \A k \in 1 .. Len(acts) :
              /\ acts[k] \in Actions /\ HoldsAll(Pre[acts[k]], st[k])
              /\ st[k + 1] = Execute(acts[k], st[k])
<1>1. Len(acts) \in Nat /\ \A k \in 1 .. Len(acts) : acts[k] \in Actions
  BY DEF Solves
<1> QED BY <1>1, StatesRecursion DEF Solves, IsSolution

LEMMA Places ==
  ASSUME NEW p, IsPlan(p), NEW acts, Len(acts) \in Nat, NEW at, Fits(p, acts, at)
  PROVE  /\ Place(acts, at, InitId) = 0 /\ Place(acts, at, GoalId) = Len(acts) + 1
         /\ \A s \in 1 .. Len(p.acts) :
              Place(acts, at, s) = at[s] /\ at[s] \in 1 .. Len(acts)
         /\ \A s \in StepIds(p) : Place(acts, at, s) \in 0 .. Len(acts) + 1
         /\ \A s \in StepIds(p) \ {InitId} : Place(acts, at, s) \in 1 .. Len(acts) + 1
         /\ \A s, t \in StepIds(p) : Place(acts, at, s) = Place(acts, at, t) => s = t
<1>1. at \in [1 .. Len(p.acts) -> 1 .. Len(acts)]
      /\ \A s, t \in 1 .. Len(p.acts) : at[s] = at[t] => s = t
  BY DEF Fits, Injection, IsInjective
<1>2. /\ InitId # GoalId /\ \A s \in 1 .. Len(p.acts) : s # InitId /\ s # GoalId
  BY Ids
<1>3. /\ Place(acts, at, InitId) = 0 /\ Place(acts, at, GoalId) = Len(acts) + 1
      /\ \A s \in 1 .. Len(p.acts) : Place(acts, at, s) = at[s] /\ at[s] \in 1 .. Len(acts)
  BY <1>1, <1>2 DEF Place
<1>4. \A s \in StepIds(p) : s = InitId \/ s = GoalId \/ s \in 1 .. Len(p.acts)
  BY DEF StepIds
<1>5. \A s \in StepIds(p) : Place(acts, at, s) \in 0 .. Len(acts) + 1
  BY <1>3, <1>4
<1>6. \A s \in StepIds(p) \ {InitId} : Place(acts, at, s) \in 1 .. Len(acts) + 1
  BY <1>3, <1>4
<1>7. ASSUME NEW s \in StepIds(p), NEW t \in StepIds(p),
             Place(acts, at, s) = Place(acts, at, t)
      PROVE  s = t
  <2>1. CASE s \in 1 .. Len(p.acts) /\ t \in 1 .. Len(p.acts)
    BY <1>1, <1>3, <1>7, <2>1
  <2>2. CASE s \notin 1 .. Len(p.acts)
    BY <1>3, <1>4, <1>7, <2>2
  <2>3. CASE t \notin 1 .. Len(p.acts)
    BY <1>3, <1>4, <1>7, <2>3
  <2> QED BY <2>1, <2>2, <2>3
<1> QED BY <1>3, <1>5, <1>6, <1>7

\* A pair that the places agree with can be closed in.
LEMMA FillRespects ==
  ASSUME NEW o, IsOrderings(o), NEW a \in RealSteps(o), NEW b \in RealSteps(o),
         NEW at, \A s \in RealSteps(o) : at[s] \in Int, Respects(o, at), at[a] < at[b]
  PROVE  Respects(FillTransitive(o, a, b), at)
<1> DEFINE new == FillTransitive(o, a, b)
<1>1. CASE a = b \/ OrderedBefore(o, a, b)
  BY <1>1 DEF FillTransitive
<1>2. CASE ~ (a = b \/ OrderedBefore(o, a, b))
  <2>1. RealSteps(new) = RealSteps(o)
    BY FillType DEF RealSteps
  <2>2. \A k \in RealSteps(o) :
          new.succ[k] = IF k = a \/ a \in o.succ[k]
                        THEN o.succ[k] \cup {b} \cup o.succ[b]
                        ELSE o.succ[k]
    BY <1>2, FillRows DEF OrderedBefore
  <2> HIDE DEF new
  <2>3. ASSUME NEW s \in RealSteps(o), NEW t \in RealSteps(o), OrderedBefore(new, s, t)
        PROVE  at[s] < at[t]
    <3>1. s # t /\ t \in new.succ[s]
      BY <2>3 DEF OrderedBefore
    <3>2. CASE t \in o.succ[s]
      BY <3>1, <3>2 DEF Respects, OrderedBefore
    <3>3. CASE t \notin o.succ[s]
      <4>1. (s = a \/ a \in o.succ[s]) /\ (t = b \/ t \in o.succ[b])
        BY <2>2, <3>1, <3>3
      <4>2. s = a \/ at[s] < at[a]
        BY <4>1 DEF Respects, OrderedBefore
      <4>3. t = b \/ at[b] < at[t]
        BY <4>1 DEF Respects, OrderedBefore
      <4>4. at[s] \in Int /\ at[t] \in Int /\ at[a] \in Int /\ at[b] \in Int
        OBVIOUS
      <4> QED BY <4>2, <4>3, <4>4
    <3> QED BY <3>2, <3>3
  <2> QED BY <2>1, <2>3 DEF Respects, new
<1> QED BY <1>1, <1>2

LEMMA RefineRespects ==
  ASSUME NEW o, IsOrderings(o), NEW at, \A s \in RealSteps(o) : at[s] \in Int, Respects(o, at),
         NEW a \in {InitId} \cup RealSteps(o), NEW b \in {GoalId} \cup RealSteps(o),
         a = InitId \/ b = GoalId \/ at[a] < at[b]
  PROVE  Respects(Refine(o, a, b), at)
<1>1. CASE a = InitId \/ b = GoalId \/ OrderedBefore(o, a, b)
  BY <1>1 DEF Refine
<1>2. CASE ~ (a = InitId \/ b = GoalId \/ OrderedBefore(o, a, b))
  <2>1. Refine(o, a, b) = FillTransitive(o, a, b)
    BY <1>2 DEF Refine
  <2> QED BY <1>2, <2>1, FillRespects
<1> QED BY <1>1, <1>2

LEMMA ReuseRespects ==
  ASSUME NEW o, IsOrderings(o), o.high <= MaxSteps,
         NEW at, \A s \in RealSteps(o) : at[s] \in Int, Respects(o, at),
         NEW a \in {InitId} \cup RealSteps(o), NEW b \in {GoalId} \cup RealSteps(o),
         a = InitId \/ b = GoalId \/ at[a] < at[b]
  PROVE  Respects(RefineWithStep(o, a, b, a), at)
<1>1. CASE a = InitId
  BY <1>1 DEF RefineWithStep
<1>2. CASE a # InitId
  <2>1. a \in RealSteps(o) /\ a # GoalId /\ ~ (a > o.high)
    BY <1>2, MaxStepsAssumption DEF RealSteps, IsOrderings, GoalId
  <2>2. RefineWithStep(o, a, b, a) = IF b # GoalId THEN FillTransitive(o, a, b) ELSE o
    BY <1>2, <2>1 DEF RefineWithStep
  <2> QED BY <1>2, <2>1, <2>2, FillRespects
<1> QED BY <1>1, <1>2

LEMMA NewStepRespects ==
  ASSUME NEW o, IsOrderings(o), IsStrictOrder(o), o.high + 1 <= MaxSteps,
         NEW at, Respects(o, at), NEW b \in {GoalId} \cup RealSteps(o), NEW new,
         \A s \in RealSteps(o) : new[s] = at[s] /\ new[s] \in Int,
         new[o.high + 1] \in Int, b = GoalId \/ new[o.high + 1] < new[b]
  PROVE  Respects(RefineWithStep(o, o.high + 1, b, o.high + 1), new)
<1> DEFINE a == o.high + 1
           grown == Expanded(o, a)
<1>1. a \in Nat /\ a # InitId /\ a # GoalId /\ a > o.high /\ a \notin RealSteps(o)
  BY MaxStepsAssumption DEF IsOrderings, InitId, GoalId, RealSteps
<1>2. /\ IsOrderings(grown)
      /\ RealSteps(grown) = RealSteps(o) \cup {a} /\ grown.succ[a] = {}
      /\ \A k \in RealSteps(o) : grown.succ[k] = o.succ[k] /\ o.succ[k] \subseteq RealSteps(o)
  BY ExpandedOrder DEF IsOrderings
<1>3. RefineWithStep(o, a, b, a) = IF b # GoalId THEN FillTransitive(grown, a, b) ELSE grown
  BY <1>1 DEF RefineWithStep
<1> HIDE DEF grown
<1>4. Respects(grown, new)
  BY <1>1, <1>2 DEF Respects, OrderedBefore
<1>5. \A s \in RealSteps(grown) : new[s] \in Int
  BY <1>2
<1>6. a \in RealSteps(grown)
  BY <1>2
<1>7. b # GoalId => b \in RealSteps(grown) /\ new[a] < new[b]
  BY <1>2
<1> HIDE DEF a
<1>8. b # GoalId => Respects(FillTransitive(grown, a, b), new)
  BY <1>2, <1>4, <1>5, <1>6, <1>7, FillRespects
<1> QED BY <1>3, <1>4, <1>8 DEF a

\* Goals that are true at a step's place can be opened there.
LEMMA AddedGoalsFit ==
  ASSUME NEW B, NEW C \in SUBSET (SUBSET Cubes), NEW s, NEW acts, NEW at,
         \A d \in C : HoldsDisjunction(d, States(acts)[Place(acts, at, s)])
  PROVE  \A oc \in BagToSet(AddGoal(B, C, s)) : oc \in BagToSet(B) \/ GoalFits(oc, acts, at)
<1> DEFINE state == States(acts)[Place(acts, at, s)]
<1>1. ASSUME NEW d \in C, NEW oc \in BagToSet(Opened(d, s)) PROVE GoalFits(oc, acts, at)
  <2>1. HoldsDisjunction(d, state)
    OBVIOUS
  <2> HIDE DEF state
  <2>2. oc.step = s /\ HoldsDisjunction(oc.goal, state)
    <3>1. CASE oc = [step |-> s, goal |-> d]
      BY <2>1, <3>1
    <3>2. CASE oc # [step |-> s, goal |-> d]
      <4>1. PICK c : d = {c} /\ BagToSet(Opened(d, s)) =
                                  {[step |-> s, goal |-> LiteralGoal(l)] : l \in c}
        BY <3>2, OpenedGoal
      <4>2. PICK l \in c : oc = [step |-> s, goal |-> LiteralGoal(l)]
        BY <4>1
      <4>3. Holds(l, state)
        BY <2>1, <4>1 DEF HoldsDisjunction
      <4>4. oc.step = s /\ oc.goal = {{l}}
        BY <4>2 DEF LiteralGoal
      <4> QED BY <4>3, <4>4 DEF HoldsDisjunction
    <3> QED BY <3>1, <3>2
  <2> QED BY <2>2 DEF GoalFits, state
<1> QED BY <1>1, AddedGoals

\* A child with the steps and links of its parent stands for what its parent
\* stands for, if the places agree with what is new in it.
LEMMA RepairFits ==
  ASSUME NEW p, NEW q, NEW acts, NEW at, Fits(p, acts, at),
         q.acts = p.acts, q.links = p.links, Respects(q.ord, at),
         \A oc \in BagToSet(q.open) : oc \in BagToSet(p.open) \/ GoalFits(oc, acts, at)
  PROVE  Fits(q, acts, at)
BY DEF Fits

\* A threat: dropped when it is gone, confronted when the solution has the
\* step between producer and consumer, and ordered away when it has not.
LEMMA UnsafeKeepsSolution ==
  ASSUME problem \in Problems, NEW p, Sound(p), NEW acts, Solves(acts),
         NEW at, Fits(p, acts, at), NEW u \in BagToSet(p.unsafes)
  PROVE  \E child \in HandleUnsafe(p, u) : Fits(child, acts, at)
<1> DEFINE l == u.link
           s == u.step
           e == u.effect
           st == States(acts)
           guard == StepGuard(p, s, e)
           R == Resolved(p, u)
<1>1. IsPlan(p) /\ Len(acts) \in Nat
  BY SolutionSteps DEF Sound
<1>2. /\ l \in BagToSet(p.links) /\ s \in StepIds(p) /\ e \in ActionEffects(p, s)
      /\ e.lit = Neg(l.cond) /\ s # GoalId /\ InitId # GoalId
      /\ l.from \in StepIds(p) /\ l.to \in StepIds(p) /\ l.from # GoalId /\ l.to # InitId
      /\ l.cond \in Literals
  BY <1>1, EffectTypes, Ids DEF IsPlan
<1>3. /\ R = [acts |-> p.acts, ord |-> p.ord, links |-> p.links, open |-> p.open,
              unsafes |-> Chain!BagRemove(p.unsafes, u)]
      /\ R.acts = p.acts /\ R.ord = p.ord /\ R.links = p.links /\ R.open = p.open
  BY <1>1, ResolvedFields
<1>4. CASE ~ StillThreatens(p, u)
  <2>1. R \in HandleUnsafe(p, u)
    BY <1>4 DEF HandleUnsafe
  <2>2. Fits(R, acts, at)
    BY <1>3, RepairFits DEF Fits
  <2> QED BY <2>1, <2>2
<1>5. CASE StillThreatens(p, u)
  <2>1. s # l.to
    BY <1>5 DEF StillThreatens, PossiblyNotBefore, PossiblyAfter
  <2>2. HandleUnsafe(p, u) = Separate(p, u) \cup Promote(p, u) \cup Demote(p, u)
    BY <1>5 DEF HandleUnsafe
  <2> DEFINE k == Place(acts, at, s)
             i == Place(acts, at, l.from)
             j == Place(acts, at, l.to)
  <2>3. /\ k \in 0 .. Len(acts) /\ i \in 0 .. Len(acts) /\ j \in 1 .. Len(acts) + 1
        /\ k = 0 => s = InitId
        /\ k # 0 => s \in 1 .. Len(p.acts) /\ at[s] = k
        /\ i # 0 => l.from \in 1 .. Len(p.acts) /\ at[l.from] = i
        /\ j # Len(acts) + 1 => l.to \in 1 .. Len(p.acts) /\ at[l.to] = j
        /\ k = j => s = l.to
    <3>1. \A t \in StepIds(p) : t = InitId \/ t = GoalId \/ t \in 1 .. Len(p.acts)
      BY DEF StepIds
    <3> QED BY <1>1, <1>2, <3>1, Places
  <2>4. \A t \in RealSteps(p.ord) : at[t] \in Int
    BY <1>1, Places, Ids
  <2>5. /\ RealSteps(p.ord) = 1 .. Len(p.acts) /\ IsOrderings(p.ord) /\ Respects(p.ord, at)
        /\ \A t \in 1 .. Len(p.acts) : t # InitId /\ t # GoalId
    BY <1>1, Ids DEF Fits, IsPlan
  <2> HIDE DEF l, s, e, st, R, k, i, j
  <2>6. CASE k < i
    <3> DEFINE q == [R EXCEPT !.ord = Refine(p.ord, s, l.from)]
    <3>1. /\ l.from \in RealSteps(p.ord) /\ l.from # InitId
          /\ s \in {InitId} \cup RealSteps(p.ord) /\ s # l.from
          /\ s = InitId \/ at[s] < at[l.from]
      BY <1>1, <2>3, <2>5, <2>6
    <3>2. ~ OrderedBefore(p.ord, l.from, s)
      <4>1. CASE s = InitId
        <5>1. InitId \notin RealSteps(p.ord) /\ p.ord.succ[l.from] \subseteq RealSteps(p.ord)
          BY <2>5, <3>1 DEF IsOrderings
        <5> QED BY <4>1, <5>1 DEF OrderedBefore
      <4>2. CASE s # InitId
        BY <1>1, <2>3, <2>5, <2>6, <3>1, <4>2 DEF Respects
      <4> QED BY <4>1, <4>2
    <3>3. PossiblyBefore(p.ord, s, l.from) /\ Refinable(p.ord, s, l.from)
      BY <1>2, <3>1, <3>2 DEF PossiblyBefore, Refinable
    <3>4. q \in Demote(p, u)
      BY <3>3 DEF Demote, NewOrdering, R, s, l
    <3>5. Respects(Refine(p.ord, s, l.from), at)
      BY <2>4, <2>5, <3>1, RefineRespects
    <3>6. /\ q.acts = p.acts /\ q.links = p.links /\ q.open = p.open
          /\ q.ord = Refine(p.ord, s, l.from)
      BY <1>3
    <3> HIDE DEF q
    <3>7. Fits(q, acts, at)
      BY <3>5, <3>6, RepairFits
    <3> QED BY <2>2, <3>4, <3>7
  <2>7. CASE j < k
    <3> DEFINE q == [R EXCEPT !.ord = Refine(p.ord, l.to, s)]
    <3>1. /\ l.to \in RealSteps(p.ord) /\ l.to # GoalId /\ s \in RealSteps(p.ord) /\ s # InitId
          /\ at[l.to] < at[s]
      BY <1>1, <2>3, <2>5, <2>7
    <3>2. ~ OrderedBefore(p.ord, s, l.to)
      BY <1>1, <2>4, <2>5, <3>1 DEF Respects
    <3>3. PossiblyBefore(p.ord, l.to, s) /\ Refinable(p.ord, l.to, s)
      BY <1>2, <2>1, <3>1, <3>2 DEF PossiblyBefore, Refinable, l, s
    <3>4. q \in Promote(p, u)
      BY <3>3 DEF Promote, NewOrdering, R, s, l
    <3>5. Respects(Refine(p.ord, l.to, s), at)
      BY <2>4, <2>5, <3>1, RefineRespects
    <3>6. /\ q.acts = p.acts /\ q.links = p.links /\ q.open = p.open
          /\ q.ord = Refine(p.ord, l.to, s)
      BY <1>3
    <3> HIDE DEF q
    <3>7. Fits(q, acts, at)
      BY <3>5, <3>6, RepairFits
    <3> QED BY <2>2, <3>4, <3>7
  <2>8. CASE i <= k /\ k < j
    <3>1. Holds(l.cond, st[k + 1])
      <4>1. k + 1 \in i + 1 .. j
        BY <1>1, <2>3, <2>8
      <4>2. LinkFits(l, acts, at)
        BY <1>2 DEF Fits
      <4> QED BY <4>1, <4>2 DEF LinkFits, st, i, j
    <3>2. ~ Holds(e.lit, st[k + 1])
      BY <1>2, <3>1, Opposite
    <3>3. s # InitId
      <4> SUFFICES ASSUME s = InitId PROVE FALSE
        OBVIOUS
      <4>1. k = 0 /\ st[1] = InitAtoms
        BY <1>1, Places, SolutionSteps DEF st, k
      <4>2. e.lit.pos /\ e.lit.atom \in InitAtoms /\ e.lit \in Literals
        BY <1>1, <1>2, EffectTypes DEF IsEffect
      <4>3. Holds(e.lit, InitAtoms)
        BY <4>2, HoldsIff
      <4> QED BY <3>2, <4>1, <4>3
    <3> DEFINE a == p.acts[s]
    <3>4. /\ k \in 1 .. Len(acts) /\ acts[k] = a /\ a \in Actions
          /\ st[k + 1] = Execute(a, st[k]) /\ e \in Effects[a]
          /\ guard = Guard(Pre[a], Effects[a], e)
      <4>1. k # 0 /\ k \in 1 .. Len(acts) /\ s \in 1 .. Len(p.acts) /\ at[s] = k
        BY <1>1, <1>2, <2>3, <3>3, Places DEF k
      <4>2. acts[k] = a /\ acts[k] \in Actions /\ st[k + 1] = Execute(acts[k], st[k])
        BY <4>1, SolutionSteps DEF Fits, st
      <4>3. ActionEffects(p, s) = Effects[a] /\ ActionPre(p, s) = Pre[a]
        BY <1>2, <3>3 DEF ActionEffects, ActionPre
      <4>4. guard = Guard(ActionPre(p, s), ActionEffects(p, s), e)
        BY DEF StepGuard
      <4> QED BY <1>2, <4>1, <4>2, <4>3, <4>4
    <3> HIDE DEF a, guard
    <3>5. ~ \A c \in guard : HoldsClause(c, st[k])
      BY <3>2, <3>4, GuardedEffectHolds
    <3>6. guard # {} /\ HoldsDisjunction(Confrontation(guard), st[k])
          /\ Confrontation(guard) \in SUBSET Cubes
      BY <3>4, <3>5, GuardLiterals, ClauseOrConfrontation
    <3> DEFINE goal == Confrontation(guard)
               B == AddGoal(p.open, {goal}, s)
               q == [R EXCEPT !.open = B]
    <3>7. q \in Separate(p, u)
      BY <3>6 DEF Separate, R, s, guard, e
    <3> HIDE DEF B
    <3>8. q.acts = p.acts /\ q.links = p.links /\ q.open = B /\ q.ord = p.ord
      BY <1>3
    <3> HIDE DEF q
    <3>9. \A oc \in BagToSet(B) : oc \in BagToSet(p.open) \/ GoalFits(oc, acts, at)
      <4> DEFINE C == {goal}
      <4>1. /\ C \in SUBSET (SUBSET Cubes)
            /\ \A d \in C : HoldsDisjunction(d, States(acts)[Place(acts, at, s)])
        BY <3>6 DEF st, k
      <4>2. B = AddGoal(p.open, C, s)
        BY DEF B
      <4> HIDE DEF C
      <4> QED BY <4>1, <4>2, AddedGoalsFit
    <3>10. Fits(q, acts, at)
      BY <2>5, <3>8, <3>9, RepairFits
    <3> QED BY <2>2, <3>7, <3>10
  <2> QED BY <1>1, <2>1, <2>3, <2>6, <2>7, <2>8
<1> QED BY <1>4, <1>5

\* Where a literal that is true comes from: it has been true from the start, or
\* since an action with an effect whose whole guard held.
LEMMA LiteralHasSource ==
  ASSUME problem \in Problems, NEW acts, Solves(acts), NEW l \in Literals,
         NEW m \in 1 .. Len(acts) + 1, Holds(l, States(acts)[m])
  PROVE  \E j \in 0 .. m - 1 :
           /\ \A k \in j + 1 .. m : Holds(l, States(acts)[k])
           /\ \/ j = 0
              \/ \E e \in Effects[acts[j]] :
                   e.lit = l /\ \A c \in Guard(Pre[acts[j]], Effects[acts[j]], e) :
                                  HoldsClause(c, States(acts)[j])
<1> DEFINE st == States(acts)
           D == {j \in 0 .. m - 1 : \A k \in j + 1 .. m : Holds(l, st[k])}
<1>1. Len(acts) \in Nat /\ m \in Nat /\ m # 0
  BY SolutionSteps
<1>2. m - 1 \in D
  <2>1. m - 1 \in 0 .. m - 1 /\ \A k \in (m - 1) + 1 .. m : k = m
    BY <1>1
  <2> QED BY <2>1
<1>3. PICK j \in D : \A i \in D : j <= i
  <2>1. 0 .. m - 1 \subseteq Nat
    BY <1>1
  <2>2. D \subseteq 0 .. m - 1
    OBVIOUS
  <2> HIDE DEF D
  <2> QED BY <1>2, <2>1, <2>2, LeastNatural
<1>4. j \in 0 .. m - 1 /\ \A k \in j + 1 .. m : Holds(l, st[k])
  OBVIOUS
<1>5. CASE j # 0
  <2> DEFINE i == j - 1
  <2>1. i \in 0 .. m - 1 /\ i < j /\ i + 1 = j
    BY <1>1, <1>4, <1>5
  <2>2. i \notin D
    <3> HIDE DEF D
    <3> QED BY <1>1, <1>3, <1>4, <2>1
  <2>3. ~ Holds(l, st[j])
    <3>1. PICK k \in i + 1 .. m : ~ Holds(l, st[k])
      BY <2>1, <2>2
    <3>2. k = j \/ k \in j + 1 .. m
      BY <1>1, <1>4, <2>1, <3>1
    <3> QED BY <1>4, <3>1, <3>2
  <2>4. Holds(l, st[j + 1]) /\ j \in 1 .. Len(acts)
    BY <1>1, <1>4, <1>5
  <2> DEFINE a == acts[j]
  <2>5. a \in Actions /\ HoldsAll(Pre[a], st[j]) /\ st[j + 1] = Execute(a, st[j])
    BY <2>4, SolutionSteps
  <2> HIDE DEF a, st, D
  <2>6. \E e \in Effects[a] :
          e.lit = l /\ \A c \in Guard(Pre[a], Effects[a], e) : HoldsClause(c, st[j])
    BY <2>3, <2>4, <2>5, ChangeHasEffect
  <2> QED BY <1>4, <2>6 DEF a, st
<1> QED BY <1>4, <1>5

\* A guard that holds is a conjunction of goals that hold.
LEMMA GuardGoalsHold ==
  ASSUME NEW guard, NEW state, \A c \in guard : HoldsClause(c, state)
  PROVE  /\ \A d \in {AsDisjunction(c) : c \in guard} : HoldsDisjunction(d, state)
         /\ ~ Contradiction({AsDisjunction(c) : c \in guard})
<1>1. ASSUME NEW c \in guard PROVE HoldsDisjunction(AsDisjunction(c), state)
  <2>1. PICK l \in c : Holds(l, state)
    BY DEF HoldsClause
  <2>2. {l} \in AsDisjunction(c) /\ \A m \in {l} : Holds(m, state)
    BY <2>1 DEF AsDisjunction
  <2> QED BY <2>2 DEF HoldsDisjunction
<1>2. \A c \in guard : AsDisjunction(c) # {}
  BY <1>1 DEF HoldsDisjunction
<1> QED BY <1>1, <1>2 DEF Contradiction

\* The source is a step of the plan.
LEMMA ReuseKeepsSolution ==
  ASSUME problem \in Problems, NEW p, Sound(p), NEW acts, Solves(acts),
         NEW at, Fits(p, acts, at), NEW oc \in BagToSet(p.open), IsLiteral(oc.goal),
         NEW s \in StepIds(p), Place(acts, at, s) < Place(acts, at, oc.step),
         \A k \in Place(acts, at, s) + 1 .. Place(acts, at, oc.step) :
           Holds(TheLiteral(oc.goal), States(acts)[k]),
         NEW e \in ActionEffects(p, s), e.lit = TheLiteral(oc.goal),
         \A c \in StepGuard(p, s, e) : HoldsClause(c, States(acts)[Place(acts, at, s)])
  PROVE  \E child \in ReuseStep(p, oc) : Fits(child, acts, at)
<1> DEFINE t == oc.step
           G == {AsDisjunction(c) : c \in StepGuard(p, s, e)}
           link == [from |-> s, to |-> t, cond |-> e.lit]
           o == RefineWithStep(p.ord, s, t, s)
           L == Chain!BagAdd(p.links, link)
           R == Chain!BagRemove(p.open, oc)
           B == AddGoal(R, G, s)
           r == [p EXCEPT !.ord = o, !.links = L, !.open = B]
           U == p.unsafes (+) LinkThreats(r, link)
           q == [r EXCEPT !.unsafes = U]
<1>1. IsPlan(p) /\ Len(acts) \in Nat /\ p = Fields(p)
  BY SolutionSteps DEF Sound, IsPlan
<1>2. /\ s # GoalId /\ t \in StepIds(p) \ {InitId} /\ s # t /\ s \in StepIds(p) \ {GoalId}
      /\ RealSteps(p.ord) = 1 .. Len(p.acts) /\ InitId # GoalId
      /\ \A x \in RealSteps(p.ord) : x # InitId /\ x # GoalId
      /\ IsOrderings(p.ord) /\ p.ord.high <= MaxSteps /\ Respects(p.ord, at)
      /\ \A x \in RealSteps(p.ord) : Place(acts, at, x) = at[x] /\ at[x] \in Int
  <2>1. s # GoalId /\ t \in StepIds(p) \ {InitId} /\ s \in StepIds(p) \ {GoalId}
    BY <1>1, EffectTypes DEF IsPlan
  <2>2. s # t
    BY <1>1, Places
  <2>3. /\ RealSteps(p.ord) = 1 .. Len(p.acts) /\ InitId # GoalId
        /\ \A x \in RealSteps(p.ord) : x # InitId /\ x # GoalId
    BY <1>1, Ids
  <2>4. IsOrderings(p.ord) /\ p.ord.high <= MaxSteps /\ Respects(p.ord, at)
    BY <1>1 DEF Fits, IsPlan
  <2>5. \A x \in RealSteps(p.ord) : Place(acts, at, x) = at[x] /\ at[x] \in Int
    BY <1>1, <2>3, Places
  <2> QED BY <2>1, <2>2, <2>3, <2>4, <2>5
<1>3. s \in {InitId} \cup RealSteps(p.ord) /\ t \in {GoalId} \cup RealSteps(p.ord)
  BY <1>1, <1>2, Ids
<1>4. s = InitId \/ t = GoalId \/ at[s] < at[t]
  BY <1>2, <1>3
<1>5. PossiblyBefore(p.ord, s, t)
  <2>1. s # InitId /\ t # GoalId => ~ OrderedBefore(p.ord, t, s)
    BY <1>2, <1>3, <1>4 DEF Respects
  <2> QED BY <1>2, <2>1 DEF PossiblyBefore
<1>6. Respects(o, at)
  BY <1>2, <1>3, <1>4, ReuseRespects
<1>7. /\ \A d \in G : HoldsDisjunction(d, States(acts)[Place(acts, at, s)])
      /\ ~ Contradiction(G)
  BY GuardGoalsHold
<1>8. q \in ReuseStep(p, oc)
  <2>1. q \in LinkOld(p, s, e, oc)
    BY <1>7 DEF LinkOld
  <2> HIDE DEF q
  <2> QED BY <1>5, <2>1 DEF ReuseStep
<1>9. G \in SUBSET (SUBSET Cubes)
  BY <1>1, GuardGoalTypes
<1>10. /\ link.from = s /\ link.to = t /\ link.cond = TheLiteral(oc.goal)
       /\ BagToSet(L) = BagToSet(p.links) \cup {link}
  BY AddedToBag
<1>11. \A x \in BagToSet(R) : GoalFits(x, acts, at)
  BY RemovedFromBag DEF Fits
<1> HIDE DEF G, R
<1>12. \A x \in BagToSet(B) : GoalFits(x, acts, at)
  BY <1>7, <1>9, <1>11, AddedGoalsFit
<1> HIDE DEF link, o, L, B
<1>13. r = [acts |-> p.acts, ord |-> o, links |-> L, open |-> B, unsafes |-> p.unsafes]
  BY <1>1, ThreeUpdates
<1> HIDE DEF r, U
<1>14. q.acts = p.acts /\ q.ord = o /\ q.links = L /\ q.open = B
  BY <1>13
<1> HIDE DEF q
<1>15. LinkFits(link, acts, at)
  BY <1>10 DEF LinkFits
<1>16. Fits(q, acts, at)
  BY <1>6, <1>10, <1>12, <1>14, <1>15 DEF Fits
<1> QED BY <1>8, <1>16

\* The source is an action that the plan has no step for yet.
LEMMA NewStepKeepsSolution ==
  ASSUME problem \in Problems, NEW p, Sound(p), NEW acts, Solves(acts),
         NEW at, Fits(p, acts, at), NEW oc \in BagToSet(p.open), IsLiteral(oc.goal),
         NEW j \in 1 .. Len(acts), \A x \in 1 .. Len(p.acts) : at[x] # j,
         j < Place(acts, at, oc.step),
         \A k \in j + 1 .. Place(acts, at, oc.step) :
           Holds(TheLiteral(oc.goal), States(acts)[k]),
         NEW e \in Effects[acts[j]], e.lit = TheLiteral(oc.goal),
         \A c \in Guard(Pre[acts[j]], Effects[acts[j]], e) : HoldsClause(c, States(acts)[j])
  PROVE  \E child \in AddStep(p, oc) : StandsFor(child, acts)
<1> DEFINE n == Len(p.acts)
           s == Len(p.acts) + 1
           t == oc.step
           a == acts[j]
           A == Append(p.acts, a)
           grown == [p EXCEPT !.acts = A]
           G == {AsDisjunction(c) : c \in StepGuard(grown, s, e)}
           link == [from |-> s, to |-> t, cond |-> e.lit]
           o == RefineWithStep(p.ord, s, t, s)
           L == Chain!BagAdd(p.links, link)
           R == Chain!BagRemove(p.open, oc)
           C == AddGoal(R, G, s)
           B == AddGoal(C, Pre[a], s)
           r == [grown EXCEPT !.ord = o, !.links = L, !.open = B]
           U == p.unsafes (+) LinkThreats(r, link) (+) StepThreats(r, s, p.links)
           q == [r EXCEPT !.unsafes = U]
           new == [x \in 1 .. s |-> IF x = s THEN j ELSE at[x]]
<1>1. /\ IsPlan(p) /\ Len(acts) \in Nat /\ p = Fields(p) /\ a \in Actions
      /\ HoldsAll(Pre[a], States(acts)[j]) /\ n \in Nat /\ Len(acts) <= MaxSteps
  BY SolutionSteps, Ids DEF Sound, IsPlan, Solves
<1>2. /\ at \in [1 .. n -> 1 .. Len(acts)] /\ Respects(p.ord, at)
      /\ \A x, y \in 1 .. n : at[x] = at[y] => x = y
      /\ \A x \in 1 .. n : acts[at[x]] = p.acts[x]
  BY DEF Fits, Injection, IsInjective
<1>3. n < Len(acts)
  <2>1. at \in Injection(1 .. n, (1 .. Len(acts)) \ {j})
    BY <1>2 DEF Injection, IsInjective
  <2>2. /\ IsFiniteSet(1 .. Len(acts)) /\ Cardinality(1 .. Len(acts)) = Len(acts)
        /\ Cardinality(1 .. n) = n
    <3>1. ASSUME NEW m \in Nat PROVE IsFiniteSet(1 .. m) /\ Cardinality(1 .. m) = m
      <4>1. m \in Int /\ 1 \in Int /\ (1 > m => m = 0) /\ m - 1 + 1 = m
        OBVIOUS
      <4> QED BY ONLY <4>1, FS_Interval
    <3> QED BY <1>1, <3>1
  <2>3. /\ IsFiniteSet((1 .. Len(acts)) \ {j})
        /\ Cardinality((1 .. Len(acts)) \ {j}) = Len(acts) - 1
    BY <2>2, FS_RemoveElement
  <2>4. n <= Len(acts) - 1
    BY <2>1, <2>2, <2>3, FS_Injection
  <2> QED BY <1>1, <2>4
<1>4. n # MaxSteps /\ s \in Nat /\ s <= MaxSteps /\ s \notin 1 .. n /\ s \in 1 .. s
      /\ 1 .. s = (1 .. n) \cup {s} /\ n <= s
  BY <1>1, <1>3, MaxStepsAssumption
<1>5. /\ RealSteps(p.ord) = 1 .. n /\ IsOrderings(p.ord) /\ IsStrictOrder(p.ord)
      /\ p.ord.high = n /\ t \in StepIds(p) \ {InitId} /\ t \in {GoalId} \cup RealSteps(p.ord)
      /\ s # InitId /\ s # GoalId /\ t # s
  <2>1. t \in StepIds(p) \ {InitId} /\ IsOrderings(p.ord) /\ IsStrictOrder(p.ord)
        /\ p.ord.high = n
    BY <1>1 DEF IsPlan
  <2>2. s # InitId /\ s # GoalId
    BY <1>1, <1>4, MaxStepsAssumption DEF InitId, GoalId
  <2> QED BY <1>1, <1>4, <2>1, <2>2, Ids
<1>6. /\ new \in [1 .. s -> 1 .. Len(acts)] /\ new[s] = j
      /\ \A x \in 1 .. n : new[x] = at[x]
      /\ \A x, y \in 1 .. s : new[x] = new[y] => x = y
  BY <1>2, <1>4
<1> HIDE DEF new
<1>7. \A x \in StepIds(p) : Place(acts, new, x) = Place(acts, at, x)
  BY <1>6 DEF Place, StepIds
<1>8. Place(acts, new, s) = j
  BY <1>5, <1>6 DEF Place
<1>9. Respects(o, new)
  <2>1. t = GoalId \/ new[s] < new[t]
    <3>1. t # GoalId => Place(acts, at, t) = at[t] /\ new[t] = at[t]
      BY <1>1, <1>5, <1>6, Places
    <3> QED BY <1>6, <3>1
  <2>2. \A x \in RealSteps(p.ord) : new[x] = at[x] /\ new[x] \in Int
    BY <1>2, <1>5, <1>6
  <2>3. p.ord.high + 1 = s /\ p.ord.high + 1 <= MaxSteps /\ new[s] \in Int
    BY <1>4, <1>5, <1>6
  <2> DEFINE b == p.ord
  <2>4. /\ IsOrderings(b) /\ IsStrictOrder(b) /\ b.high + 1 <= MaxSteps /\ Respects(b, at)
        /\ t \in {GoalId} \cup RealSteps(b) /\ new[b.high + 1] \in Int
        /\ \A x \in RealSteps(b) : new[x] = at[x] /\ new[x] \in Int
        /\ t = GoalId \/ new[b.high + 1] < new[t]
    BY <1>2, <1>5, <2>1, <2>2, <2>3
  <2> HIDE DEF b, t
  <2>5. Respects(RefineWithStep(b, b.high + 1, t, b.high + 1), new)
    BY ONLY <2>4, NewStepRespects
  <2>6. o = RefineWithStep(b, b.high + 1, t, b.high + 1)
    BY <2>3 DEF b
  <2> QED BY <2>5, <2>6
<1>10. /\ grown = [acts |-> A, ord |-> p.ord, links |-> p.links, open |-> p.open,
                   unsafes |-> p.unsafes]
       /\ grown = Fields(grown) /\ grown.acts = A
  <2>1. p = [acts |-> p.acts, ord |-> p.ord, links |-> p.links, open |-> p.open,
             unsafes |-> p.unsafes]
    BY <1>1 DEF Fields
  <2> HIDE DEF A
  <2>2. grown = [acts |-> A, ord |-> p.ord, links |-> p.links, open |-> p.open,
                 unsafes |-> p.unsafes]
    BY <2>1
  <2> QED BY <2>2 DEF Fields
<1>11. Grown(p, grown, a, s)
  <2> DEFINE g == grown
  <2>1. g.acts = Append(p.acts, a) /\ s = Len(p.acts) + 1
    BY <1>10
  <2>2. problem \in Problems /\ Len(p.acts) # MaxSteps /\ a \in Actions /\ IsPlan(p)
    BY <1>1, <1>4
  <2> HIDE DEF g, a, s
  <2>3. Grown(p, g, a, s)
    BY ONLY <2>1, <2>2, GrownActs
  <2> QED BY <2>3 DEF g
<1>12. StepGuard(grown, s, e) = Guard(Pre[a], Effects[a], e)
  BY <1>11 DEF StepGuard, Grown
<1>13. /\ \A d \in G : HoldsDisjunction(d, States(acts)[j])
       /\ ~ Contradiction(G) /\ G \in SUBSET (SUBSET Cubes)
  <2> DEFINE guard == Guard(Pre[a], Effects[a], e)
  <2>1. \A c \in guard : HoldsClause(c, States(acts)[j])
    OBVIOUS
  <2>2. G = {AsDisjunction(c) : c \in guard}
    BY <1>12
  <2>3. \A c \in guard : AsDisjunction(c) \in SUBSET Cubes
    BY <1>1, GuardLiterals
  <2> HIDE DEF guard, G
  <2> QED BY <2>1, <2>2, <2>3, GuardGoalsHold
<1>14. ~ Contradiction(Pre[a]) /\ Pre[a] \in SUBSET (SUBSET Cubes)
       /\ \A d \in Pre[a] : HoldsDisjunction(d, States(acts)[j])
  BY <1>1, TaskTypes DEF HoldsAll, HoldsDisjunction, Contradiction
<1>15. q \in AddStep(p, oc)
  <2>1. q \in LinkNew(p, a, e, oc)
    BY <1>13, <1>14 DEF LinkNew
  <2> HIDE DEF q
  <2>2. e \in {f \in Effects[a] : f.lit = TheLiteral(oc.goal)}
    OBVIOUS
  <2> HIDE DEF a
  <2> QED BY <1>1, <1>4, <2>1, <2>2 DEF AddStep
<1>16. /\ link.from = s /\ link.to = t /\ link.cond = TheLiteral(oc.goal)
       /\ BagToSet(L) = BagToSet(p.links) \cup {link}
  BY AddedToBag
<1>17. \A x \in BagToSet(R) : x \in BagToSet(p.open)
  BY RemovedFromBag
<1> HIDE DEF G, R
<1>18. \A x \in BagToSet(B) : x \in BagToSet(p.open) \/ GoalFits(x, acts, new)
  <2> DEFINE P == Pre[a]
  <2>1. /\ P \in SUBSET (SUBSET Cubes)
        /\ \A d \in P : HoldsDisjunction(d, States(acts)[Place(acts, new, s)])
        /\ \A d \in G : HoldsDisjunction(d, States(acts)[Place(acts, new, s)])
    BY <1>8, <1>13, <1>14
  <2> HIDE DEF P
  <2>2. \A x \in BagToSet(C) : x \in BagToSet(R) \/ GoalFits(x, acts, new)
    BY <1>13, <2>1, AddedGoalsFit
  <2>3. B = AddGoal(C, P, s)
    BY DEF P
  <2> HIDE DEF C, B, s
  <2>4. \A x \in BagToSet(B) : x \in BagToSet(C) \/ GoalFits(x, acts, new)
    BY <2>1, <2>3, AddedGoalsFit
  <2> QED BY <1>17, <2>2, <2>4
<1> HIDE DEF link, o, L, B, C, grown
<1>19. r = [acts |-> grown.acts, ord |-> o, links |-> L, open |-> B, unsafes |-> grown.unsafes]
  <2>1. grown = Fields(grown)
    BY <1>10
  <2> QED BY ONLY <2>1, ThreeUpdates
<1> HIDE DEF r, U
<1>20. q.acts = A /\ q.ord = o /\ q.links = L /\ q.open = B
  BY <1>10, <1>19
<1> HIDE DEF q
<1>21. /\ Len(A) = s /\ RealSteps(q.ord) = 1 .. s
       /\ \A x \in 1 .. s : acts[new[x]] = q.acts[x]
  <2>1. Len(A) = s /\ \A x \in 1 .. n : A[x] = p.acts[x]
    BY <1>10, <1>11 DEF Grown
  <2>2. A[s] = a
    BY <1>1 DEF IsPlan
  <2>3. o.high = s
    <3>1. p.ord.high + 1 = s /\ p.ord.high + 1 <= MaxSteps
      BY <1>4, <1>5
    <3> QED BY <1>5, <3>1, NewStepRefines DEF o
  <2> QED BY <1>2, <1>4, <1>6, <1>20, <2>1, <2>2, <2>3 DEF RealSteps
<1>22. \A l \in BagToSet(L) : LinkFits(l, acts, new)
  <2>1. ASSUME NEW l \in BagToSet(p.links) PROVE LinkFits(l, acts, new)
    <3>1. l.from \in StepIds(p) /\ l.to \in StepIds(p) /\ LinkFits(l, acts, at)
      BY <1>1 DEF Fits, IsPlan
    <3> QED BY <1>7, <3>1 DEF LinkFits
  <2>2. LinkFits(link, acts, new)
    BY <1>5, <1>7, <1>8, <1>16 DEF LinkFits
  <2> QED BY <1>16, <2>1, <2>2
<1>23. \A x \in BagToSet(B) : GoalFits(x, acts, new)
  <2>1. ASSUME NEW x \in BagToSet(p.open) PROVE GoalFits(x, acts, new)
    <3>1. x.step \in StepIds(p) /\ GoalFits(x, acts, at)
      BY <1>1 DEF Fits, IsPlan
    <3> QED BY <1>7, <3>1 DEF GoalFits
  <2> QED BY <1>18, <2>1
<1>24. Fits(q, acts, new)
  <2>1. new \in Injection(1 .. s, 1 .. Len(acts))
    BY <1>6 DEF Injection, IsInjective
  <2> QED BY <1>9, <1>20, <1>21, <1>22, <1>23, <2>1 DEF Fits
<1>25. StandsFor(q, acts)
  BY <1>20, <1>21, <1>24, StandsForIff
<1> QED BY <1>15, <1>25

\* The source is the closed world.
LEMMA ClosedWorldKeepsSolution ==
  ASSUME problem \in Problems, NEW p, Sound(p), NEW acts, Solves(acts),
         NEW at, Fits(p, acts, at), NEW oc \in BagToSet(p.open), IsLiteral(oc.goal),
         ClosedWorld(TheLiteral(oc.goal)),
         \A k \in 1 .. Place(acts, at, oc.step) : Holds(TheLiteral(oc.goal), States(acts)[k])
  PROVE  \E child \in NewCwLink(p, oc) : Fits(child, acts, at)
<1> DEFINE link == [from |-> InitId, to |-> oc.step, cond |-> TheLiteral(oc.goal)]
           L == Chain!BagAdd(p.links, link)
           B == Chain!BagRemove(p.open, oc)
           r == [p EXCEPT !.links = L, !.open = B]
           U == p.unsafes (+) LinkThreats(r, link)
           q == [r EXCEPT !.unsafes = U]
<1>1. p = Fields(p) /\ Place(acts, at, InitId) = 0
  BY DEF Sound, IsPlan, Place
<1>2. q \in NewCwLink(p, oc)
  BY DEF NewCwLink
<1>3. /\ link.from = InitId /\ link.to = oc.step /\ link.cond = TheLiteral(oc.goal)
      /\ BagToSet(L) = BagToSet(p.links) \cup {link}
      /\ \A x \in BagToSet(B) : x \in BagToSet(p.open)
  BY AddedToBag, RemovedFromBag
<1> HIDE DEF link, L, B
<1>4. r = [acts |-> p.acts, ord |-> p.ord, links |-> L, open |-> B, unsafes |-> p.unsafes]
  BY <1>1, TwoUpdates
<1> HIDE DEF r, U
<1>5. q.acts = p.acts /\ q.ord = p.ord /\ q.links = L /\ q.open = B
  BY <1>4
<1> HIDE DEF q
<1>6. LinkFits(link, acts, at)
  BY <1>1, <1>3 DEF LinkFits
<1>7. Fits(q, acts, at)
  BY <1>3, <1>5, <1>6 DEF Fits
<1> QED BY <1>2, <1>7

\* A disjunct of the goal holds where the goal does.
LEMMA DisjunctKeepsSolution ==
  ASSUME problem \in Problems, NEW p, Sound(p), NEW acts,
         NEW at, Fits(p, acts, at), NEW oc \in BagToSet(p.open)
  PROVE  \E child \in HandleDisjunction(p, oc) : Fits(child, acts, at)
<1> DEFINE state == States(acts)[Place(acts, at, oc.step)]
<1>1. HoldsDisjunction(oc.goal, state) /\ oc.goal \in SUBSET Cubes /\ p = Fields(p)
  BY DEF Fits, GoalFits, Sound, IsPlan
<1>2. PICK c \in oc.goal : \A l \in c : Holds(l, state)
  BY <1>1 DEF HoldsDisjunction
<1> DEFINE R == Chain!BagRemove(p.open, oc)
           C == {{c}}
           B == AddGoal(R, C, oc.step)
           q == [p EXCEPT !.open = B]
<1>3. q \in HandleDisjunction(p, oc)
  BY DEF HandleDisjunction
<1>4. \A x \in BagToSet(R) : x \in BagToSet(p.open)
  BY RemovedFromBag
<1>5. C \in SUBSET (SUBSET Cubes) /\ \A d \in C : HoldsDisjunction(d, state)
  BY <1>1, <1>2 DEF HoldsDisjunction
<1> HIDE DEF R, C
<1>6. \A x \in BagToSet(B) : x \in BagToSet(R) \/ GoalFits(x, acts, at)
  BY <1>5, AddedGoalsFit
<1> HIDE DEF B
<1>7. q.acts = p.acts /\ q.ord = p.ord /\ q.links = p.links /\ q.open = B
  BY <1>1 DEF Fields
<1> HIDE DEF q
<1>8. Fits(q, acts, at)
  BY <1>4, <1>6, <1>7 DEF Fits
<1> QED BY <1>3, <1>8

\* Places say what a child stands for, since its orderings have its steps.
LEMMA FitsStandsFor ==
  ASSUME NEW p, Sound(p), NEW acts
  PROVE  StandsFor(p, acts) <=> \E at : Fits(p, acts, at)
BY Ids, StandsForIff DEF Sound

\* An open condition: linked to its source in the solution, be that an
\* atom of the initial state, the closed world, a step of the plan or an
\* action the plan has no step for; or a disjunct that holds is chosen.
LEMMA OpenKeepsSolution ==
  ASSUME problem \in Problems, NEW p, Sound(p), NEW acts, Solves(acts),
         NEW at, Fits(p, acts, at), NEW oc \in BagToSet(p.open)
  PROVE  \E child \in HandleOpenCondition(p, oc) : StandsFor(child, acts)
<1> DEFINE l == TheLiteral(oc.goal)
           m == Place(acts, at, oc.step)
           st == States(acts)
<1>1. IsPlan(p) /\ Len(acts) \in Nat /\ st[1] = InitAtoms
  BY SolutionSteps DEF Sound
<1>2. ASSUME NEW q \in HandleOpenCondition(p, oc), Fits(q, acts, at) PROVE StandsFor(q, acts)
  BY <1>2, OpenChildIsSound, FitsStandsFor
<1>3. CASE ~ IsLiteral(oc.goal)
  BY <1>2, <1>3, DisjunctKeepsSolution DEF HandleOpenCondition
<1>4. CASE IsLiteral(oc.goal)
  <2>1. HandleOpenCondition(p, oc) = AddStep(p, oc) \cup ReuseStep(p, oc) \cup NewCwLink(p, oc)
    BY <1>4 DEF HandleOpenCondition
  <2>2. m \in 1 .. Len(acts) + 1
    BY <1>1, Places DEF IsPlan
  <2>3. l \in Literals /\ Holds(l, st[m])
    <3>1. oc.goal = {{l}} /\ l \in Literals
      BY <1>4, TheLiteralOf DEF LiteralGoal
    <3>2. HoldsDisjunction(oc.goal, st[m])
      BY DEF Fits, GoalFits
    <3> QED BY <3>1, <3>2 DEF HoldsDisjunction
  <2>4. PICK j \in 0 .. m - 1 :
          /\ \A k \in j + 1 .. m : Holds(l, st[k])
          /\ \/ j = 0
             \/ \E e \in Effects[acts[j]] :
                  e.lit = l /\ \A c \in Guard(Pre[acts[j]], Effects[acts[j]], e) :
                                 HoldsClause(c, st[j])
    <3> DEFINE x == l
    <3>1. x \in Literals /\ m \in 1 .. Len(acts) + 1 /\ Holds(x, States(acts)[m])
      BY <2>2, <2>3
    <3> HIDE DEF x, m
    <3>2. \E j \in 0 .. m - 1 :
            /\ \A k \in j + 1 .. m : Holds(x, States(acts)[k])
            /\ \/ j = 0
               \/ \E e \in Effects[acts[j]] :
                    e.lit = x /\ \A c \in Guard(Pre[acts[j]], Effects[acts[j]], e) :
                                   HoldsClause(c, States(acts)[j])
      BY <3>1, LiteralHasSource
    <3> QED BY <3>2 DEF x
  <2>5. CASE j = 0
    <3>1. /\ \A k \in 1 .. m : Holds(l, st[k])
          /\ Holds(l, InitAtoms) /\ l.pos \in BOOLEAN
      BY <1>1, <2>2, <2>3, <2>4, <2>5 DEF Literals
    <3>2. CASE l.pos
      <4> DEFINE e == [cond |-> {}, lit |-> Lit(l.atom)]
      <4>1. l.atom \in InitAtoms /\ l = Lit(l.atom)
        BY <2>3, <3>1, <3>2 DEF Holds, Lit, Literals
      <4>2. InitId \in StepIds(p) /\ Place(acts, at, InitId) = 0
        BY DEF StepIds, Place
      <4>3. e \in ActionEffects(p, InitId) /\ e.lit = l
        BY <1>1, <4>1, Ids DEF ActionEffects
      <4>4. StepGuard(p, InitId, e) = {}
        BY <1>1, <4>2, <4>3, EffectTypes
      <4> HIDE DEF e
      <4>5. \E child \in ReuseStep(p, oc) : Fits(child, acts, at)
        <5>1. /\ Place(acts, at, InitId) < Place(acts, at, oc.step)
              /\ \A k \in Place(acts, at, InitId) + 1 .. Place(acts, at, oc.step) :
                   Holds(TheLiteral(oc.goal), States(acts)[k])
              /\ \A c \in StepGuard(p, InitId, e) :
                   HoldsClause(c, States(acts)[Place(acts, at, InitId)])
          BY <2>2, <3>1, <4>2, <4>4
        <5> QED BY <1>4, <4>2, <4>3, <5>1, ReuseKeepsSolution
      <4> QED BY <1>2, <2>1, <4>5
    <3>3. CASE ~ l.pos
      <4>1. ClosedWorld(l)
        BY <3>1, <3>3 DEF ClosedWorld, Holds
      <4>2. \E child \in NewCwLink(p, oc) : Fits(child, acts, at)
        BY <1>4, <3>1, <4>1, ClosedWorldKeepsSolution
      <4> QED BY <1>2, <2>1, <4>2
    <3> QED BY <3>2, <3>3
  <2>6. CASE j # 0
    <3>1. PICK e \in Effects[acts[j]] :
            e.lit = l /\ \A c \in Guard(Pre[acts[j]], Effects[acts[j]], e) : HoldsClause(c, st[j])
      BY <2>4, <2>6
    <3>2. j \in 1 .. Len(acts) /\ j < m
      BY <1>1, <2>2, <2>4, <2>6
    <3>3. CASE \E s \in 1 .. Len(p.acts) : at[s] = j
      <4>1. PICK s \in 1 .. Len(p.acts) : at[s] = j
        BY <3>3
      <4>2. /\ s \in StepIds(p) /\ s # InitId /\ s # GoalId /\ Place(acts, at, s) = j
            /\ p.acts[s] = acts[j]
        <5>1. Place(acts, at, s) = j /\ acts[at[s]] = p.acts[s]
          <6>1. Place(acts, at, s) = at[s]
            BY <1>1, <4>1, Places
          <6> QED BY <4>1, <6>1 DEF Fits
        <5>2. s \in StepIds(p) /\ s # InitId /\ s # GoalId
          BY <1>1, <4>1, Ids DEF StepIds
        <5> QED BY <4>1, <5>1, <5>2
      <4>3. /\ ActionEffects(p, s) = Effects[acts[j]]
            /\ StepGuard(p, s, e) = Guard(Pre[acts[j]], Effects[acts[j]], e)
        BY <4>2 DEF ActionEffects, ActionPre, StepGuard
      <4>4. \E child \in ReuseStep(p, oc) : Fits(child, acts, at)
        <5>1. /\ Place(acts, at, s) < Place(acts, at, oc.step)
              /\ \A k \in Place(acts, at, s) + 1 .. Place(acts, at, oc.step) :
                   Holds(TheLiteral(oc.goal), States(acts)[k])
              /\ e \in ActionEffects(p, s) /\ e.lit = TheLiteral(oc.goal)
              /\ \A c \in StepGuard(p, s, e) : HoldsClause(c, States(acts)[Place(acts, at, s)])
          BY <2>4, <3>1, <3>2, <4>2, <4>3
        <5> QED BY <1>4, <4>2, <5>1, ReuseKeepsSolution
      <4> QED BY <1>2, <2>1, <4>4
    <3>4. CASE \A s \in 1 .. Len(p.acts) : at[s] # j
      <4>1. \E child \in AddStep(p, oc) : StandsFor(child, acts)
        BY <1>4, <2>4, <3>1, <3>2, <3>4, NewStepKeepsSolution
      <4> QED BY <2>1, <4>1
    <3> QED BY <3>3, <3>4
  <2> QED BY <2>5, <2>6
<1> QED BY <1>3, <1>4

\* Every solution is one of the plan the search starts from: its goal holds
\* in the end.
LEMMA InitialStandsForAll ==
  ASSUME problem \in Problems, NEW acts, Solves(acts)
  PROVE  StandsFor(InitialPlan, acts)
<1> DEFINE p == InitialPlan
           at == [x \in {} |-> 0]
           C == Goal
<1>1. Sound(p) /\ Len(acts) \in Nat /\ HoldsAll(Goal, States(acts)[Len(acts) + 1])
  BY InitialIsSound, SolutionSteps
<1>2. /\ p.acts = <<>> /\ p.links = EmptyBag /\ p.open = AddGoal(EmptyBag, C, GoalId)
      /\ BagToSet(EmptyBag) = {} /\ p.ord = NewOrderings
  BY DEF InitialPlan, EmptyBag, SetToBag, BagToSet
<1> HIDE DEF p
<1>3. Len(p.acts) = 0 /\ 1 .. 0 = {} /\ RealSteps(p.ord) = {}
  BY <1>2 DEF RealSteps, NewOrderings
<1>4. Place(acts, at, GoalId) = Len(acts) + 1
  BY MaxStepsAssumption DEF Place, GoalId, InitId
<1>5. /\ C \in SUBSET (SUBSET Cubes)
      /\ \A d \in C : HoldsDisjunction(d, States(acts)[Place(acts, at, GoalId)])
  BY <1>1, <1>4, TaskTypes DEF HoldsAll
<1>6. at \in Injection({}, 1 .. Len(acts))
  BY DEF Injection, IsInjective
<1> HIDE DEF C, at
<1>7. \A oc \in BagToSet(p.open) : GoalFits(oc, acts, at)
  BY <1>2, <1>5, AddedGoalsFit
<1>8. Fits(p, acts, at)
  BY <1>2, <1>3, <1>6, <1>7 DEF Fits, Respects
<1> QED BY <1>1, <1>8, FitsStandsFor DEF p

\* What is to be kept are solutions, and the task stays the same.
LEMMA SolutionsSolve ==
  ASSUME NEW acts \in SolutionsUpTo(MaxSteps)
  PROVE  Solves(acts)
<1>1. IsSolution(acts) /\ acts \in BoundedSeq(Actions, MaxSteps)
  BY DEF SolutionsUpTo
<1>2. PICK m \in 0 .. MaxSteps : acts \in [1 .. m -> Actions]
  BY <1>1 DEF BoundedSeq, SeqOf
<1>3. acts \in Seq(Actions) /\ Len(acts) = m
  BY <1>2, MaxStepsAssumption
<1> QED BY <1>1, <1>2, <1>3, MaxStepsAssumption DEF Solves

LEMMA SolvesStays ==
  ASSUME problem' = problem, NEW acts, Solves(acts)
  PROVE  Solves(acts)'
<1>1. Actions' = Actions /\ Pre' = Pre /\ Effects' = Effects /\ InitAtoms' = InitAtoms
      /\ Goal' = Goal
  BY DEF Actions, Pre, Effects, InitAtoms, Goal
<1>2. ASSUME NEW a, NEW state PROVE Execute(a, state)' = Execute(a, state)
  BY <1>1 DEF Execute, Fired
<1>3. States(acts)' = States(acts)
  BY <1>1, <1>2 DEF States
<1> QED BY <1>1, <1>3 DEF Solves, IsSolution

(* Refinement loses no solution: whichever flaw is selected, one of the     *)
(* children generated for it still stands for each solution that the plan   *)
(* stood for.                                                               *)
THEOREM SolutionsAreKept == Spec => []NoSolutionLost
<1> DEFINE Inv == \A acts \in solutions : Solves(acts)
<1>1. problem \in Problems /\ Sound(plan) /\ Inv => NoSolutionLost
  <2> SUFFICES ASSUME problem \in Problems, Sound(plan), NEW acts \in solutions, Solves(acts),
                      StandsFor(plan, acts)
               PROVE  /\ \A u \in BagToSet(plan.unsafes) :
                           \E child \in HandleUnsafe(plan, u) : StandsFor(child, acts)
                      /\ \A oc \in BagToSet(plan.open) :
                           \E child \in HandleOpenCondition(plan, oc) : StandsFor(child, acts)
    BY DEF NoSolutionLost
  <2>1. PICK at : Fits(plan, acts, at)
    BY FitsStandsFor
  <2>2. ASSUME NEW u \in BagToSet(plan.unsafes)
        PROVE  \E child \in HandleUnsafe(plan, u) : StandsFor(child, acts)
    <3>1. PICK child \in HandleUnsafe(plan, u) : Fits(child, acts, at)
      BY <2>1, UnsafeKeepsSolution
    <3>2. Sound(child)
      BY UnsafeChildIsSound
    <3> QED BY <3>1, <3>2, FitsStandsFor
  <2> QED BY <2>1, <2>2, OpenKeepsSolution
<1>2. Init => Inv
  BY SolutionsSolve DEF Init
<1>3. Inv /\ [Next]_vars => Inv'
  BY SolvesStays DEF Next, vars
<1>4. Spec => [](problem \in Problems /\ Sound(plan))
  BY PlansStaySound
<1> QED BY <1>1, <1>2, <1>3, <1>4, PTL DEF Spec
=============================================================================
