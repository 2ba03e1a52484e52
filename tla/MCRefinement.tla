---------------------------- MODULE MCRefinement ----------------------------
(* Two small tasks for PartialPlan, and flaw orders.                        *)
EXTENDS FlawOrders

CONSTANTS atomP, atomQ, atomR, make, swap, lift, enter, clear

P == Lit(atomP)
Q == Lit(atomQ)
R == Lit(atomR)

MCAtoms == {atomP, atomQ, atomR}

Plain(l) == [cond |-> {}, lit |-> l]
When(c, l) == [cond |-> c, lit |-> l]

\* Conditional effects.  `make` deletes p only when r holds, and `swap`
\* deletes r unless q lets it add r again in the same step, so threats can be
\* confronted as well as ordered away.
Confront ==
  [acts |-> {make, swap, lift},
   pre |-> (make :> {{{P}}} @@ swap :> {} @@ lift :> {{{Neg(R)}}}),
   effects |-> (make :> {Plain(Q), When({R}, Neg(P))}
             @@ swap :> {When({Q}, R), Plain(Neg(R)), When({R, Q}, Neg(Q))}
             @@ lift :> {Plain(P), Plain(R)}),
   init |-> {atomP, atomR},
   goal |-> {{{P}}, {{Q}}, {{R}}}]

\* Disjunctive and negative conditions.  `enter` needs either both atoms of a
\* closed-world conjunction false or r, and adds r again: that effect counts
\* only when the other disjunct held.  `clear` needs p or q and undoes p; the
\* goal asks for one of two conjunctions.
Disjunctive ==
  [acts |-> {enter, clear},
   pre |-> (enter :> {{{Neg(P), Neg(Q)}, {R}}} @@ clear :> {{{P}, {Q}}}),
   effects |-> (enter :> {Plain(Q), Plain(R)} @@ clear :> {Plain(Neg(P)), Plain(R)}),
   init |-> {atomP},
   goal |-> {{{Q}}, {{R, Neg(P)}}}]

MCProblems == {Confront, Disjunctive}

\* Estimates that differ between steps and between conditions.
MCValue(oc) == oc.step + Cardinality(UNION oc.goal)

Tier(flaws, max, order) == [flaws |-> flaws, max |-> max, order |-> order]

\* Predefined orders: dsep-fifo, dunf-lc, dunf-gen, lcfr, zlifo, zlifo*, static,
\* lcfr-loc, lcfr-conf and mc-loc-conf.
MCOrders == {
  <<Tier({"n"}, NoLimit, "LIFO"), Tier({"o"}, NoLimit, "FIFO"), Tier({"s"}, NoLimit, "LIFO")>>,
  <<Tier({"n", "s"}, 0, "LIFO"), Tier({"n", "s"}, 1, "LIFO"), Tier({"o"}, NoLimit, "LR"),
    Tier({"n", "s"}, NoLimit, "LIFO")>>,
  <<Tier({"n", "s", "o"}, 0, "LIFO"), Tier({"n", "s", "o"}, 1, "LIFO"),
    Tier({"n", "s", "o"}, NoLimit, "LIFO")>>,
  <<Tier({"n", "s", "o"}, NoLimit, "LR")>>,
  <<Tier({"n"}, NoLimit, "LIFO"), Tier({"o"}, 0, "LIFO"), Tier({"o"}, 1, "NEW"),
    Tier({"o"}, NoLimit, "LIFO"), Tier({"s"}, NoLimit, "LIFO")>>,
  <<Tier({"o"}, 0, "LIFO"), Tier({"n", "s"}, NoLimit, "LIFO"), Tier({"o"}, 1, "NEW"),
    Tier({"o"}, NoLimit, "LIFO")>>,
  <<Tier({"t"}, NoLimit, "LIFO"), Tier({"n", "s"}, NoLimit, "LIFO"), Tier({"o"}, NoLimit, "LIFO")>>,
  <<Tier({"n", "s", "l"}, NoLimit, "LR")>>,
  <<Tier({"n", "s", "u"}, NoLimit, "LR"), Tier({"o"}, NoLimit, "LR")>>,
  <<Tier({"n", "s"}, NoLimit, "LR"), Tier({"u"}, NoLimit, "MC"), Tier({"l"}, NoLimit, "MC")>>}
=============================================================================
