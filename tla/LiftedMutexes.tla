--------------------------- MODULE LiftedMutexes ---------------------------
(***************************************************************************)
(* Lifted fact-alternating mutex groups (src/src/lifted_mutex.rs): guessed *)
(* from the predicates, tested against the initial state, balanced against *)
(* every schema and refined with a part where an add is unaccounted for.   *)
(*                                                                         *)
(* A part is a predicate followed by a slot for every argument.  The limit *)
(* on candidates (4000) is out of reach of the tasks and left out.         *)
(***************************************************************************)
EXTENDS LiftedTask, FiniteSetsExt

CONSTANT MaxParts   \* MAX_PARTS

Arity(p) == task.preds[p]

Param(n) == <<"param", n>>
Const(o) == <<"const", o>>
Counted == <<"counted">>

Group(arity, parts) == [arity |-> arity, parts |-> parts]

\* Extending an assignment of the parameters; <<>> when part and atom clash.
\* The assignments are functions from the parameters bound so far.
MatchTerm(assigned, slot, term) ==
  CASE assigned = <<>> -> <<>>
    [] slot = Counted -> assigned
    [] slot[1] = "const" -> IF slot[2] = term THEN assigned ELSE <<>>
    [] slot[2] \in DOMAIN assigned[1] -> IF assigned[1][slot[2]] = term THEN assigned ELSE <<>>
    [] OTHER -> <<Bind(assigned[1], slot[2], term)>>

\* match_ground and match_lifted: the terms are objects or a schema's variables.
Match(part, atom, assigned) ==
  IF part[1] # atom[1] THEN <<>>
  ELSE FoldLeft(LAMBDA acc, i : MatchTerm(acc, part[i], atom[i]), <<assigned>>,
                [i \in 1 .. Len(atom) - 1 |-> i + 1])

Matches(part, atom) == Match(part, atom, Nothing) # <<>>

\* One part over each predicate, counting over one argument.
Seeds ==
  UNION {{Group(Arity(p) - 1,
                {[i \in 1 .. Arity(p) + 1 |->
                    CASE i = 1 -> p [] i = c -> Counted [] i < c -> Param(i - 1)
                      [] OTHER -> Param(i - 2)]}) :
            c \in 2 .. Arity(p) + 1} : p \in DOMAIN task.preds}

Clash(group, l, r) ==
  \E lp, rp \in group.parts :
     LET m == Match(lp, l, Nothing) IN m # <<>> /\ Match(rp, r, m[1]) # <<>>

InitiallyTrue(group) == \A l, r \in task.init : l = r \/ ~Clash(group, l, r)

-----------------------------------------------------------------------------
(* Balance.                                                                 *)

Certain(k, neg) ==
  {e.atom : e \in {e \in Range(Schema(k).effects) : e.neg = neg /\ e.cond = Truth /\ e.params = <<>>}}

\* The predicates a conditional or quantified effect may touch.
Uncertain(k) ==
  {e.atom[1] : e \in {e \in Range(Schema(k).effects) : e.cond # Truth \/ e.params # <<>>}}

\* The ways a schema adds into the group.
Entering(group, k) ==
  {<<a, part>> \in Certain(k, FALSE) \X group.parts : Matches(part, a)}

Assignment(entry) == Match(entry[2], entry[1], Nothing)[1]

\* Mutant of Required: a delete balances an add whether or not it had to be true.
Required_AnyDelete(k) == Certain(k, TRUE)

Required(k) == Certain(k, TRUE) \cap Entailed(Schema(k).pre)

Paired(group, k, sigma) ==
  \E d \in Required(k), part \in group.parts : Match(part, d, sigma) = <<sigma>>

DerivedPart(k, d, sigma) ==
  [i \in DOMAIN d |->
     LET bound == {j \in DOMAIN sigma : sigma[j] = d[i]}
     IN  CASE i = 1 -> d[1]
           [] bound # {} -> Param(Min(bound))
           [] d[i] \in DOMAIN Schema(k).types -> Counted
           [] OTHER -> Const(d[i])]

\* Two ways in at once, a parameter left open or an uncertain effect: declined.
Declined(group, k) ==
  \/ \E part \in group.parts : part[1] \in Uncertain(k)
  \/ Cardinality(Entering(group, k)) > 1
  \/ \E e \in Entering(group, k) : DOMAIN Assignment(e) # 1 .. group.arity

Unbalanced(group, k) ==
  \E e \in Entering(group, k) : ~Paired(group, k, Assignment(e))

Rejected(group) == \E k \in Schemas : Declined(group, k)
Preserved(group) == \A k \in Schemas : ~Declined(group, k) /\ ~Unbalanced(group, k)

Refinements(group) ==
  IF Rejected(group) \/ Cardinality(group.parts) >= MaxParts THEN {}
  ELSE {Group(group.arity, group.parts \cup {part}) :
          part \in UNION {UNION {{DerivedPart(k, d, Assignment(e)) : d \in Required(k)} :
                                   e \in Entering(group, k)} :
                            k \in {k \in Schemas : Unbalanced(group, k)}}}

\* synthesise: every candidate is tested once, whatever the order.
RECURSIVE Synthesised(_, _, _)
Synthesised(queue, seen, groups) ==
  IF queue = {} THEN groups
  ELSE LET held == {group \in queue : InitiallyTrue(group)}
           kept == {group \in held : Preserved(group)}
       IN  The({Synthesised(next, seen \cup next, groups \cup kept) :
                  next \in {UNION {Refinements(group) : group \in held \ kept} \ seen}})

MutexGroups == Synthesised(Seeds, Seeds, {})

-----------------------------------------------------------------------------
(* Queries.                                                                 *)

Mutex(groups, l, r) == l # r /\ \E group \in groups : Clash(group, l, r)

\* group_keys: the group instances an atom belongs to.
GroupKeys(groups, a) ==
  UNION {{<<group, m[1]>> : m \in {m \in {Match(part, a, Nothing) : part \in group.parts} :
                                     m # <<>> /\ DOMAIN m[1] = 1 .. group.arity}} :
           group \in groups}

Inconsistent(groups, atoms) == \E l, r \in atoms : Mutex(groups, l, r)
===========================================================================
