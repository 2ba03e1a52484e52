---------------------------- MODULE JointDomains ----------------------------
(***************************************************************************)
(* Joint operator parameter domains (src/src/joint_domains.rs), the opt-in *)
(* rule of the search that filters the complete argument tuples of every   *)
(* step by the bindings of a plan, propagates supports through equality    *)
(* classes to a fixpoint, and turns singleton domains into bindings.       *)
(*                                                                         *)
(* A behaviour is a branch of the search, and then another.  An expansion  *)
(* may build the snapshot of the parent, which its children share; a child *)
(* adds the bindings of one refinement, and perhaps a step, and is         *)
(* propagated from the snapshot or from nothing.  A row domain is a set of *)
(* rows; row ids, postings, indexed scans and products that are deferred   *)
(* are left out, and the budgets of factors and remembered rows suffice.   *)
(***************************************************************************)
EXTENDS Bindings

CONSTANTS
  Schemas,      \* action schemas, all with the parameters of TermsOf
  TermsOf,      \* step id -> its argument list: variables, or objects when ground
  TableSets,    \* the relations a task may have: [Schemas -> a set of rows or None]
  BranchBindings,  \* bound on the bindings added on each branch
  MinRows       \* the least rows that are factored or cached, 64 in the code

ASSUME JointAssumption ==
  /\ \A k \in DOMAIN TermsOf : ToSet(TermsOf[k]) \subseteq Terms
  /\ \A tab \in TableSets : \A s \in Schemas : tab[s] # None =>
        \A k \in DOMAIN TermsOf, r \in tab[s] :
          /\ DOMAIN r = DOMAIN TermsOf[k]
          /\ \A j \in DOMAIN r : Subtype(ObjType[r[j]], TermType(TermsOf[k][j]))
  /\ MinRows \in Nat

VARIABLES
  tables,     \* the relation of each schema, None when it has none
  steps,      \* the schemas of the plan's steps, oldest first
  cache,      \* the snapshot of the plan under expansion, or None
  memo,       \* rows remembered for a whole table under one pattern
  requested,  \* the bindings refinements asked for (history)
  branch,     \* which branch of the search is followed
  last        \* the last child: [steps, coll, kept] (history)

jointVars == <<coll, asserted, added, tables, steps, cache, memo, requested, branch, last>>

The(S) == CHOOSE v \in S : TRUE

-----------------------------------------------------------------------------
(* Factorization.  A part is an ascending sequence of columns.              *)

Arity(rows) == Len(The(rows))
InOrder(columns) == SelectSeq([i \in 1 .. Max(columns) |-> i], LAMBDA i : i \in columns)
Project(rows, part) == {[j \in DOMAIN part |-> r[part[j]]] : r \in rows}
Projection(rows, i) == {r[i] : r \in rows}

\* As many rows as the product of the two projections has: it is the product.
Splits(rows, left) ==
  LET right == (1 .. Arity(rows)) \ left
      Count(columns) == IF columns = {} THEN 1 ELSE Cardinality(Project(rows, InOrder(columns)))
  IN  Count(left) * Count(right) = Cardinality(rows)

\* split_factors ends at the finest parts; {} stands for a table left whole.
Factors(rows) ==
  IF Cardinality(rows) < MinRows \/ Arity(rows) \notin 2 .. 8 THEN {}
  ELSE LET sides == {s \in SUBSET (1 .. Arity(rows)) : s # {} /\ Splits(rows, s)}
           least == {s \in sides : \A t \in sides : t \subseteq s => t = s}
       IN  IF Cardinality(least) < 2 THEN {} ELSE {InOrder(s) : s \in least}

Whole(rows) == InOrder(1 .. Arity(rows))

\* unifier_possible: the columns of two terms that become equal must overlap.
UnifierPossible(c, unifier, n) ==
  LET Typed(t) == t \in Objects \/ (StepOf[t] \in 1 .. n /\ tables[steps[StepOf[t]]] # None)
      Values(t) == IF t \in Objects THEN {t}
                   ELSE {r[j] : r \in tables[steps[StepOf[t]]],
                                j \in {i \in DOMAIN TermsOf[StepOf[t]] : TermsOf[StepOf[t]][i] = t}}
      Possible(l, r) == Typed(l) /\ Typed(r) /\ ~ {l, r} \subseteq Objects =>
                          Values(l) \cap Values(r) # {}
  IN  \A b \in ToSet(unifier) : b.eq => Possible(Binding(c, b.var), Binding(c, b.term))

-----------------------------------------------------------------------------
(* filter_bindings.  An answer is [rows, memo]; no rows reject the plan.    *)

\* table_cache_key, with the table it is looked up in.
CacheKey(schema, part, pat) ==
  [table |-> <<schema, part>>,
   terms |-> [i \in DOMAIN pat.terms |->
                IF pat.terms[i] \in Objects THEN pat.terms[i]
                ELSE <<FirstOf(pat, pat.terms[i]), pat.type[pat.terms[i]]>>],
   excluded |-> {<<FirstOf(pat, k), pat.excluded[k]>> : k \in DOMAIN pat.excluded},
   apart |-> {{FirstOf(pat, k) : k \in pair} : pair \in pat.apart}]

\* Mutant of Cacheable: what an inherited domain leaves is remembered too.
Cacheable_Inherited(full, base) == Cardinality(full) >= MinRows

\* An inherited domain carries restrictions that the key does not show.
Cacheable(full, base) == Cardinality(full) >= MinRows /\ base = full

Filtered(c, table, terms, full, base, known) ==
  LET Supports == [i \in 1 .. Len(terms) |-> Projection(base, i)]
      Declared == [i \in 1 .. Len(terms) |-> TermType(terms[i])]
      Keep(rows, key) ==
        [rows |-> rows,
         memo |-> IF Cacheable(full, base) /\ rows # {} /\ rows # base THEN known @@ (key :> rows) ELSE known]
      Left(tp) == IF tp = None THEN {} ELSE {r \in base : TableMatches(tp, r)}
      Matched(pat) == UNION {Left(tp) : tp \in {TablePattern(pat, Supports, Declared)}}
      With(pat, key) ==
        IF Cacheable(full, base) /\ key \in DOMAIN known THEN [rows |-> known[key], memo |-> known]
        ELSE The({Keep(rows, key) : rows \in {Matched(pat)}})
  IN  The({With(pat, CacheKey(table[1], table[2], pat)) : pat \in {ResolvePattern(c, terms)}})

-----------------------------------------------------------------------------
(* run.  A snapshot is [steps, coll, domains]; the key of a domain is a     *)
(* step and a part.                                                         *)

\* The snapshot when it is of an ancestor, and the classes changed since.
ExtendsSteps(base, plan) == SubSeq(plan.steps, 1, Len(base.steps)) = base.steps

Extends(base, plan, c) ==
  /\ base # None /\ ExtendsSteps(base, plan)
  /\ LET n == Len(c.chain) - Len(base.coll.chain) IN
     n >= 0 /\ SubSeq(c.chain, n + 1, Len(c.chain)) = base.coll.chain

\* Mutant of Dirty: only newly pinned terms are looked at.
Dirty_PinnedOnly(base, c, k) ==
  \E t \in ToSet(TermsOf[k]) : Binding(c, t) \in Objects /\ Binding(base.coll, t) # Binding(c, t)

\* The pattern of the step's arguments may have changed since the snapshot.
Dirty(base, c, k) ==
  LET changed == ChangedClassesSince(c, base.coll) IN
  \E t \in ToSet(TermsOf[k]) :
    IF Binding(c, t) \in Objects THEN Binding(base.coll, t) # Binding(c, t)
    ELSE Representative(c, t) \in changed

\* The parts that step k is filtered by: its factors, or all of its columns.
\* More than one part has to be unbound, unless the factors are inherited.
Parts(base, c, k, rows, dirty) ==
  LET factors == Factors(rows)
      group == [i \in 1 .. Arity(rows) |-> The({f \in factors : i \in ToSet(f)})]
      inherited == base # None /\ \E f \in factors : <<k, f>> \in DOMAIN base.domains
      unbound == {group[i] : i \in {j \in 1 .. Arity(rows) : Binding(c, TermsOf[k][j]) \notin Objects}}
      coupled == CouplesGroups(ResolvePattern(c, TermsOf[k]), group)
  IN  IF /\ factors # {} /\ (inherited \/ Cardinality(unbound) > 1)
         /\ IF dirty THEN ~ coupled ELSE inherited
      THEN factors ELSE {Whole(rows)}

\* One step's constraints added to the others: acc is [domains, memo, ok].
Constrain(base, c, plan, acc, k) ==
  LET rows == tables[plan.steps[k]]
      held(part) == base # None /\ <<k, part>> \in DOMAIN base.domains
      missing == base = None \/ ~ \E part \in {Whole(rows)} \cup Factors(rows) : held(part)
      Part(acc1, part, dirty) ==
        LET full == Project(rows, part)
            terms == [j \in DOMAIN part |-> TermsOf[k][part[j]]]
            From(known) ==
              IF held(part) /\ ~ dirty THEN [rows |-> base.domains[<<k, part>>], memo |-> known]
              ELSE Filtered(c, <<plan.steps[k], part>>, terms, full,
                            IF held(part) THEN base.domains[<<k, part>>] ELSE full, known)
            Put(f) == [domains |-> acc1.domains @@ (<<k, part>> :> f.rows),
                       memo |-> f.memo, ok |-> f.rows # {}]
        IN  IF acc1.ok THEN The({Put(f) : f \in {From(acc1.memo)}}) ELSE acc1
      All(dirty) == FoldLeft(LAMBDA a, part : Part(a, part, dirty), acc,
                             SetToSeq(Parts(base, c, k, rows, dirty)))
  IN  IF rows = None \/ ~ acc.ok THEN acc
      ELSE IF rows = {} THEN [acc EXCEPT !.ok = FALSE]
      ELSE The({All(dirty) : dirty \in {missing \/ Dirty(base, c, k)}})

Constraints(base, c, plan, known) ==
  FoldLeft(LAMBDA acc, k : Constrain(base, c, plan, acc, k),
           [domains |-> <<>>, memo |-> known, ok |-> TRUE],
           Reverse([k \in 1 .. Len(plan.steps) |-> k]))

\* The class of each column of a constraint, None where it is bound.
ClassAt(c, key, j) ==
  LET t == TermsOf[key[1]][key[2][j]] IN
  IF Binding(c, t) \in Objects THEN None ELSE Representative(c, t)

\* Constraints on a class that shrank are queued once.
Wake(classes, queue, shrunk) ==
  LET woken == {key \in DOMAIN classes : ToSet(classes[key]) \cap shrunk # {}}
  IN  queue \o SetToSeq(woken \ ToSet(queue))

\* The worklist; st is [rows, values, queue], rows by constraint and values by
\* class.  The answer is the rows and values left, None when some are empty.
RECURSIVE Settled(_, _)
Settled(classes, st) ==
  LET key == Head(st.queue)
      columns == {j \in DOMAIN classes[key] : classes[key][j] # None}
      kept == {r \in st.rows[key] : \A j \in columns : r[j] \in st.values[classes[key][j]]}
      left(v) == st.values[v] \cap
                 {o \in Objects : \A j \in columns : classes[key][j] = v => \E r \in kept : r[j] = o}
      values == [v \in DOMAIN st.values |-> left(v)]
      Go(vals) ==
        IF \E v \in DOMAIN vals : vals[v] = {} THEN None
        ELSE Settled(classes,
               [rows |-> [st.rows EXCEPT ![key] = kept], values |-> vals,
                queue |-> Wake(classes, Tail(st.queue),
                               {v \in DOMAIN vals : vals[v] # st.values[v]})])
  IN  IF st.queue = <<>> THEN st
      ELSE IF kept = {} THEN None
      ELSE IF kept = st.rows[key] THEN Settled(classes, [st EXCEPT !.queue = Tail(@)])
      ELSE The({Go(vals) : vals \in {values}})

\* The intersected projections, and the constraints that they narrow.
Propagated(classes, domains) ==
  LET keys == DOMAIN domains
      Support(key, v) == UNION {Projection(domains[key], j) : j \in {i \in DOMAIN classes[key] : classes[key][i] = v}}
      Shared(v) == {o \in Objects : \A key \in keys : \A j \in DOMAIN classes[key] :
                      classes[key][j] = v => o \in Projection(domains[key], j)}
      values == [v \in UNION {ToSet(classes[key]) : key \in keys} \ {None} |-> Shared(v)]
      Start(vals) ==
        IF \E v \in DOMAIN vals : vals[v] = {} THEN None
        ELSE Settled(classes,
               [rows |-> domains, values |-> vals,
                queue |-> SetToSeq({key \in keys : \E v \in ToSet(classes[key]) \ {None} :
                                      vals[v] # Support(key, v)})])
  IN  The({Start(vals) : vals \in {values}})

\* The bindings of the classes with one value; their order tells nothing apart.
Forced(values) ==
  SetToSeq({[var |-> v, term |-> The(values[v]), eq |-> TRUE] :
              v \in {u \in DOMAIN values : Cardinality(values[u]) = 1}})

Snapshot(plan, c, rows) == [steps |-> plan.steps, coll |-> c, domains |-> rows]

\* The loop.  The answer is [ok, coll, snapshot, memo].
RECURSIVE Run(_, _, _, _)
Run(plan, c, base, known) ==
  LET Fail(m) == [ok |-> FALSE, coll |-> c, snapshot |-> None, memo |-> m]
      Strengthen(forced, rows, m) ==
        IF forced = <<>> THEN [ok |-> TRUE, coll |-> c, snapshot |-> Snapshot(plan, c, rows), memo |-> m]
        ELSE IF ~ Consistent(c, forced) THEN Fail(m)
        ELSE The({Run(plan, child, Snapshot(plan, c, rows), m) : child \in {Added(c, forced)}})
      After(st, m) ==
        IF st = None THEN Fail(m)
        ELSE The({Strengthen(forced, st.rows, m) : forced \in {Forced(st.values)}})
      Classes(acc) == [key \in DOMAIN acc.domains |-> [j \in DOMAIN key[2] |-> ClassAt(c, key, j)]]
      Filter(acc) ==
        IF ~ acc.ok THEN Fail(acc.memo)
        ELSE The({After(st, acc.memo) : st \in {Propagated(Classes(acc), acc.domains)}})
      ancestor == IF Extends(base, plan, c) THEN base ELSE None
  IN  The({Filter(acc) : acc \in {Constraints(ancestor, c, plan, known)}})

Prepare(plan, known) == Run(plan, plan.coll, None, known)

-----------------------------------------------------------------------------
(* propagate_reference: whole tables, whole patterns, every row again.      *)

\* Rows that lack support in some other constraint leave, until none does;
\* free is the set of unbound columns, [step, column, class].
RECURSIVE Consistently(_, _)
Consistently(free, rows) ==
  LET Shared == [v \in {f[3] : f \in free} |->
                   {o \in Objects : \A f \in free : f[3] = v => \E r \in rows[f[1]] : r[f[2]] = o}]
      Kept(shared) ==
        [k \in DOMAIN rows |->
           {r \in rows[k] : \A f \in free : f[1] = k => r[f[2]] \in shared[f[3]]}]
  IN  The({IF next = rows THEN rows ELSE Consistently(free, next) : next \in {Kept(v) : v \in {Shared}}})

RECURSIVE Reference(_, _)
Reference(plan, c) ==
  LET placed == {k \in DOMAIN plan.steps : tables[plan.steps[k]] # None}
      Matching(k, pat) == {r \in tables[plan.steps[k]] : Matches(pat, r)}
      Start == [k \in placed |-> UNION {Matching(k, pat) : pat \in {ResolvePattern(c, TermsOf[k])}}]
      Free == {<<k, j, Representative(c, TermsOf[k][j])>> : <<k, j>> \in
                 {kj \in placed \X (1 .. 8) :
                    kj[2] \in DOMAIN TermsOf[kj[1]] /\ Binding(c, TermsOf[kj[1]][kj[2]]) \notin Objects}}
      Singles(free, rows) ==
        {f \in free : Cardinality(Projection(rows[f[1]], f[2])) = 1}
      Pins(singles, rows) ==
        SetToSeq({[var |-> f[3], term |-> The(Projection(rows[f[1]], f[2])), eq |-> TRUE] : f \in singles})
      Strengthen(pins) ==
        IF pins = <<>> THEN c
        ELSE IF ~ Consistent(c, pins) THEN None
        ELSE The({Reference(plan, child) : child \in {Added(c, pins)}})
      Loop(free, rows) ==
        IF \E k \in DOMAIN rows : rows[k] = {} THEN None
        ELSE The({Strengthen(pins) : pins \in {Pins(Singles(free, rows), rows)}})
  IN  The({The({Loop(free, rows) : rows \in {Consistently(free, Start)}}) : free \in {Free}})

-----------------------------------------------------------------------------

Plan == [steps |-> steps, coll |-> coll]

JointInit ==
  /\ Init
  /\ tables \in TableSets
  /\ steps = <<>> /\ cache = None /\ memo = <<>> /\ requested = {} /\ branch = 1
  /\ last = [steps |-> <<>>, coll |-> coll, kept |-> TRUE]

\* Two children or more that change bindings or add a step share a snapshot.  A
\* plan of no steps has nothing to reconstruct.
PrepareParent ==
  /\ cache = None /\ last.kept /\ steps # <<>>
  /\ \E r \in {Prepare(Plan, memo)} :
       /\ cache' = r.snapshot
       /\ memo' = r.memo
  /\ UNCHANGED <<coll, asserted, added, tables, steps, requested, branch, last>>

\* A child plan goes through propagate_incremental; it is queued or discarded.
Child(bs, child) ==
  /\ last.kept
  /\ added + Len(bs) <= BranchBindings[branch]
  /\ \A b \in ToSet(bs) : \A t \in {b.var, b.term} \cap StepVars : StepOf[t] <= Len(child)
  /\ Consistent(coll, bs)
  /\ \E c \in {Added(coll, bs)} :
     \E r \in {Run([steps |-> child, coll |-> c], c, cache, memo)} :
       /\ last' = [steps |-> child, coll |-> c, kept |-> r.ok]
       /\ coll' = r.coll
       /\ memo' = r.memo
       /\ asserted' = asserted \cup ToSet(bs) \cup
            IF r.ok THEN {b \in [var : StepVars, term : Objects, eq : {TRUE}] :
                            Binding(r.coll, b.var) = b.term} ELSE {}
  /\ requested' = requested \cup ToSet(bs)
  /\ added' = added + Len(bs)
  /\ steps' = child
  /\ cache' = None
  /\ UNCHANGED <<tables, branch>>

\* make_link turns away a unifier the columns refute.
Link(bs) ==
  /\ bs # <<>> /\ UnifierPossible(coll, bs, Len(steps))
  /\ Child(bs, steps)

AddStep(schema, bs) ==
  /\ Len(steps) + 1 \in DOMAIN TermsOf
  /\ Child(bs, Append(steps, schema))

\* The search turns to a plan of another branch, here the initial one; the
\* tables and what they remember are those of the whole search.  A branch is
\* left once its bindings are spent, which bounds how often.
TurnTo ==
  /\ branch < Len(BranchBindings) /\ added = BranchBindings[branch] /\ memo # <<>>
  /\ branch' = branch + 1
  /\ coll' = [chain |-> <<>>, high |-> 0, index |-> None]
  /\ asserted' = {} /\ added' = 0 /\ steps' = <<>> /\ cache' = None /\ requested' = {}
  /\ last' = [steps |-> <<>>, coll |-> coll', kept |-> TRUE]
  /\ UNCHANGED <<tables, memo>>

JointNext ==
  \/ TurnTo
  \/ PrepareParent
  \/ \E bs \in Batches : Link(bs)
  \/ \E bs \in Batches \cup {<<>>}, schema \in Schemas : AddStep(schema, bs)

JointSpec == JointInit /\ [][JointNext]_jointVars

-----------------------------------------------------------------------------

\* Assignments that satisfy bindings and give every step a row of its table.
Allowed(bs) ==
  {f \in Solutions(bs) : \A k \in DOMAIN steps : tables[steps[k]] # None =>
     [j \in DOMAIN TermsOf[k] |-> Value(f, TermsOf[k][j])] \in tables[steps[k]]}

\* Nothing that could be executed is lost: a plan that propagation strengthens
\* keeps every assignment of its refinements that gives each step a complete
\* reachable tuple, what it forces holds in all of them, and a plan that is
\* discarded, or a unifier refused before the child exists, has none.
PropagationIsSound ==
  /\ IF last.kept THEN Allowed(requested) = Allowed(asserted) ELSE Allowed(requested) = {}
  /\ last.kept => \A bs \in Batches :
       (\A b \in ToSet(bs) : \A t \in {b.var, b.term} \cap StepVars : StepOf[t] \in DOMAIN steps)
         /\ ~ UnifierPossible(coll, bs, Len(steps)) => Allowed(requested \cup ToSet(bs)) = {}

\* Starting from the domains of the parent, from factors, and from remembered
\* rows gives what whole tables filtered from nothing give: the same plans are
\* kept, with the same forced bindings, and a plan that was kept is propagated:
\* to reconstruct its domains changes nothing.
IncrementalIsReference ==
  /\ \A expected \in {Reference([steps |-> last.steps], last.coll)} :
       IF last.kept
       THEN expected # None /\ \A v \in StepVars : Binding(coll, v) = Binding(expected, v)
       ELSE expected = None
  /\ cache # None => cache.coll = coll

=============================================================================
