------------------------------ MODULE Bindings ------------------------------
(***************************************************************************)
(* The collection of variable bindings of a lifted plan                    *)
(* (src/src/bindings.rs).  A collection is a chain of varsets, newest      *)
(* first; a newer varset shadows the older ones that hold the same         *)
(* variable or constant, and only the newest counts.  Past a length a      *)
(* table answers for the older part of the chain, and a child inherits the *)
(* table of its parent behind a scan of what it added.                     *)
(*                                                                         *)
(* A behaviour is one branch of the search: each step adds the bindings of *)
(* one refinement, or asks a question, which may build the table.  The     *)
(* reference is the set of assignments of objects to variables that        *)
(* satisfy every binding that was accepted.                                *)
(***************************************************************************)
EXTENDS Integers, Sequences, FiniteSets, SequencesExt, FiniteSetsExt, Functions

CONSTANTS
  StepVars,       \* variables of steps
  Objects,
  Types,
  Sub,            \* the subtype relation, reflexive and transitive
  VarType,        \* step variable -> type
  ObjType,        \* object -> type
  StepOf,         \* step variable -> the id of its step
  Threshold,      \* INDEX_THRESHOLD
  MaxPrefix,      \* MAX_INDEX_PREFIX
  MaxMembers,     \* MAX_PREFIX_MEMBERS
  Batches,        \* the sequences of bindings a refinement may add
  Patterns,       \* argument lists of lifted atoms, each of one step
  Rows,           \* argument lists of ground atoms
  Columns,        \* the known values of the columns of a parameter table
  MaxBindings,    \* bound on the bindings added in a behaviour
  None            \* Option::None

Terms == StepVars \cup Objects

BindingSet == [var : StepVars, term : Terms, eq : BOOLEAN]

ASSUME BindingsAssumption ==
  /\ Sub \subseteq Types \X Types
  /\ \A t \in Types : <<t, t>> \in Sub
  /\ \A r, s, t \in Types : <<r, s>> \in Sub /\ <<s, t>> \in Sub => <<r, t>> \in Sub
  /\ VarType \in [StepVars -> Types] /\ ObjType \in [Objects -> Types]
  /\ StepOf \in [StepVars -> Nat]
  /\ Batches \subseteq Seq(BindingSet)
  /\ \A batch \in Batches : \A k \in DOMAIN batch : batch[k].term # batch[k].var
  /\ Patterns \subseteq Seq(Terms) /\ Rows \subseteq Seq(Objects)
  /\ \A p \in Patterns, q \in Patterns \cup Rows : Len(p) = Len(q)

\* What is kept for a class (its members are described below).
Varsets == [constant : Objects \cup {None}, cd : Seq(StepVars), ncd : SUBSET StepVars,
            type : Types]

\* None is not a value of any option.
ASSUME NoneAssumption ==
  /\ StepVars \cap Objects = {}
  /\ None \notin Terms \cup Types \cup Varsets \cup [pos : Nat, set : Varsets]
                  \cup Seq(BindingSet)

VARIABLES
  coll,       \* the collection: [chain, high, index]
  asserted,   \* the bindings accepted so far, on this branch
  added       \* how many bindings were added

vars == <<coll, asserted, added>>

Subtype(s, t) == <<s, t>> \in Sub
TermType(t) == IF t \in Objects THEN ObjType[t] ELSE VarType[t]

MostSpecific(s, t) == IF Subtype(s, t) THEN s ELSE IF Subtype(t, s) THEN t ELSE None

CompatibleObjects(t) == {o \in Objects : Subtype(ObjType[o], t)}

-----------------------------------------------------------------------------
(* Varsets.  [constant, cd, ncd, type]: cd is a sequence, newest member     *)
(* first, since the first one stands for the class.                         *)

Varset(c, cd, ncd, t) == [constant |-> c, cd |-> cd, ncd |-> ncd, type |-> t]

Holds(vs, t) == IF t \in Objects THEN vs.constant = t ELSE t \in ToSet(vs.cd)

AddObject(vs, o) ==
  IF vs.constant = o THEN vs
  ELSE IF vs.constant = None /\ Subtype(ObjType[o], vs.type)
       THEN [vs EXCEPT !.constant = o, !.type = ObjType[o]]
       ELSE None

AddVar(vs, v) ==
  LET t == IF vs.constant # None
           THEN IF Subtype(vs.type, VarType[v]) THEN vs.type ELSE None
           ELSE MostSpecific(vs.type, VarType[v])
  IN  IF v \in vs.ncd \/ t = None THEN None
      ELSE [vs EXCEPT !.cd = <<v>> \o @, !.type = t]

AddTerm(vs, t) == IF t \in Objects THEN AddObject(vs, t) ELSE AddVar(vs, t)

\* Mutant of Combine: the separations of the second class are lost.
Combine_DropsNcd(a, b) ==
  LET c == IF a.constant # None THEN a.constant ELSE b.constant
      t == MostSpecific(a.type, b.type)
      clash == \/ a.constant # None /\ b.constant # None /\ a.constant # b.constant
               \/ a.ncd \cap ToSet(b.cd) # {} \/ ToSet(a.cd) \cap b.ncd # {}
  IN  IF clash \/ t = None THEN None
      ELSE Varset(c, Reverse(b.cd) \o a.cd, a.ncd, t)

\* The constant of a pinned class has to fit the type of the other class.
CombinedType(a, b) ==
  CASE a.constant # None /\ b.constant # None ->
         IF a.constant = b.constant THEN a.type ELSE None
    [] a.constant # None /\ b.constant = None ->
         IF Subtype(a.type, b.type) THEN a.type ELSE None
    [] a.constant = None /\ b.constant # None ->
         IF Subtype(b.type, a.type) THEN b.type ELSE None
    [] OTHER -> MostSpecific(a.type, b.type)

Combine(a, b) ==
  LET t == CombinedType(a, b) IN
  IF t = None \/ a.ncd \cap ToSet(b.cd) # {} \/ ToSet(a.cd) \cap b.ncd # {} THEN None
  ELSE Varset(IF a.constant # None THEN a.constant ELSE b.constant,
              Reverse(b.cd) \o a.cd, a.ncd \cup b.ncd, t)

\* make: the class of a first equality, of the variable of an inequality
\* (its term is a variable), and of the term of one.
MakeEqual(b) ==
  IF b.term \in Objects
  THEN Varset(b.term, <<b.var>>, {}, ObjType[b.term])
  ELSE LET t == MostSpecific(VarType[b.var], VarType[b.term]) IN
       IF t = None THEN None ELSE Varset(None, <<b.term, b.var>>, {}, t)

MakeForward(b) ==
  IF b.term \in Objects THEN None
  ELSE Varset(None, <<b.var>>, {b.term}, VarType[b.var])

MakeReverse(b) ==
  IF b.term \in Objects
  THEN Varset(b.term, <<>>, {b.var}, ObjType[b.term])
  ELSE Varset(None, <<b.term>>, {b.var}, VarType[b.term])

\* restrict, guarded by excludes_var; None when there is nothing to record.
Separate(vs, v) == IF v \in vs.ncd THEN None ELSE [vs EXCEPT !.ncd = @ \cup {v}]

-----------------------------------------------------------------------------
(* Lookup.  An answer is a position from the head and the varset there.     *)

At(ch, p) == [pos |-> p, set |-> ch[p]]

Scan(ch, t, limit) ==
  LET hits == {p \in 1 .. Len(ch) : p <= limit /\ Holds(ch[p], t)} IN
  IF hits = {} THEN None ELSE At(ch, Min(hits))

Shift(found, n) == IF found = None THEN None ELSE [found EXCEPT !.pos = @ + n]

\* A key that is there keeps its entry.
InsertNew(table, keys, entry) ==
  [t \in DOMAIN table \cup keys |-> IF t \in DOMAIN table THEN table[t] ELSE entry]

\* The walk of build_index, head first: the first entry of a variable or of a
\* constant is kept, and the constant of a pinned varset is noted for every
\* variable it is separated from.
EmptyIndex ==
  [prefix |-> 0, members |-> 0, table |-> <<>>, ncd |-> [v \in StepVars |-> {}]]

Entered(ix, vs, p) ==
  LET pinned == {vs.constant} \ {None} IN
  [prefix |-> 0, members |-> 0,
   table |-> InsertNew(ix.table, ToSet(vs.cd) \cup pinned, [pos |-> p, set |-> vs]),
   ncd |-> [v \in StepVars |-> ix.ncd[v] \cup IF v \in vs.ncd THEN pinned ELSE {}]]

BuildIndex(ch) ==
  LET walked[p \in 0 .. Len(ch)] ==
        IF p = 0 THEN EmptyIndex ELSE Entered(walked[p - 1], ch[p], p)
  IN  walked[Len(ch)]

\* with_index_state: None stands for IndexState::Small.
IndexState(c) ==
  IF Len(c.chain) < Threshold THEN None
  ELSE IF c.index = None THEN BuildIndex(c.chain) ELSE c.index

Indexed(c) == [c EXCEPT !.index = IndexState(c)]

\* lookup_var_in and lookup_obj_in: the prefix first, then the table.
LookupIn(ix, ch, t) ==
  LET Else(recent) ==
        IF recent # None \/ ix = None THEN recent
        ELSE IF t \in DOMAIN ix.table THEN Shift(ix.table[t], ix.prefix) ELSE None
  IN  Else(Scan(ch, t, IF ix = None THEN Len(ch) ELSE ix.prefix))

Lookup(c, t) == LookupIn(IndexState(c), c.chain, t)

-----------------------------------------------------------------------------
(* try_add and add.  The loop carries the chain, how many varsets were      *)
(* pushed, and whether the bindings are consistent so far.                  *)

\* A collection answers for no variable above its high step.
Known(c, t) == IF t \in StepVars /\ StepOf[t] > c.high THEN None ELSE Lookup(c, t)

Resolve(c, acc, t) ==
  LET Else(recent) == IF recent # None THEN recent ELSE Shift(Known(c, t), acc.delta)
  IN  Else(Scan(acc.chain, t, acc.delta))

Push(acc, vs) ==
  IF vs = None THEN acc
  ELSE [acc EXCEPT !.chain = <<vs>> \o @, !.delta = @ + 1]

SameClass(vs1, vs2) == vs1 # None /\ vs2 # None /\ vs1.pos = vs2.pos

Equate(acc, b, vs1, vs2) ==
  LET Both == IF vs1 = None
              THEN IF vs2 = None THEN MakeEqual(b) ELSE AddVar(vs2.set, b.var)
              ELSE IF vs2 = None THEN AddTerm(vs1.set, b.term) ELSE Combine(vs1.set, vs2.set)
      With(both) == IF both = None THEN [acc EXCEPT !.ok = FALSE] ELSE Push(acc, both)
  IN  IF SameClass(vs1, vs2) THEN acc ELSE With(Both)

\* Each side notes the other; an object is separated in its own class only.
Distinguish(acc, b, vs1, vs2) ==
  LET first  == IF vs1 = None THEN MakeForward(b)
                ELSE IF b.term \in Objects THEN None ELSE Separate(vs1.set, b.term)
      second == IF vs2 = None THEN MakeReverse(b) ELSE Separate(vs2.set, b.var)
  IN  IF SameClass(vs1, vs2) THEN [acc EXCEPT !.ok = FALSE]
      ELSE Push(Push(acc, first), second)

AddOne(c, acc, b) ==
  LET Record(vs1, vs2) ==
        IF b.eq THEN Equate(acc, b, vs1, vs2) ELSE Distinguish(acc, b, vs1, vs2)
  IN  IF acc.ok THEN Record(Resolve(c, acc, b.var), Resolve(c, acc, b.term)) ELSE acc

HighStep(c, bs) ==
  Max({c.high} \cup {StepOf[b.var] : b \in ToSet(bs)}
               \cup {StepOf[b.term] : b \in {d \in ToSet(bs) : d.term \in StepVars}})

TryAdd(c, bs) ==
  LET after[k \in 0 .. Len(bs)] ==
        IF k = 0 THEN [chain |-> c.chain, delta |-> 0, ok |-> TRUE]
        ELSE AddOne(c, after[k - 1], bs[k])
  IN  after[Len(bs)]

Consistent(c, bs) == TryAdd(c, bs).ok

Members(ch) ==
  FoldLeft(LAMBDA n, vs : n + Len(vs.cd) + IF vs.constant = None THEN 0 ELSE 1, 0, ch)

\* Mutant of Inherited: the varsets of the child are not put before the table.
Inherited_OldPrefix(ix, new) == ix

\* The parent's table behind the varsets that were pushed, within both caps.
Inherited(ix, new) ==
  LET next == [prefix |-> ix.prefix + Len(new), members |-> ix.members + Members(new),
               table |-> ix.table, ncd |-> ix.ncd] IN
  IF ix = None \/ next.prefix > MaxPrefix \/ next.members > MaxMembers THEN None ELSE next

Added(c, bs) ==
  LET Child(r, high) ==
        IF r.delta = 0 /\ high = c.high THEN Indexed(c)
        ELSE [chain |-> r.chain, high |-> high,
              index |-> Inherited(IndexState(c), SubSeq(r.chain, 1, r.delta))]
  IN  Child(TryAdd(c, bs), HighStep(c, bs))

-----------------------------------------------------------------------------
(* Questions.                                                               *)

Binding(c, t) ==
  LET ConstantOf(vs) ==
        IF vs = None THEN t ELSE IF vs.set.constant = None THEN t ELSE vs.set.constant
  IN  ConstantOf(Known(c, t))

Representative(c, v) ==
  LET Of(vs) == IF vs = None THEN v ELSE Head(vs.set.cd) IN Of(Lookup(c, v))


\* For a descendant: the classes of every variable of a pushed varset.
ChangedClassesSince(c, ancestor) ==
  {Representative(c, v) :
     v \in UNION {ToSet(c.chain[p].cd) \cup c.chain[p].ncd :
                    p \in 1 .. Len(c.chain) - Len(ancestor.chain)}}

TermsEqual(c, t1, t2) ==
  LET Same(l, r) ==
        \/ l = r
        \/ {l, r} \subseteq StepVars /\ \E vs \in {Lookup(c, l)} \ {None} : Holds(vs.set, r)
  IN  Same(Binding(c, t1), Binding(c, t2))

\* The equality of two terms, of which one is a variable.
Equated(s, t) ==
  IF s \in StepVars THEN [var |-> s, term |-> t, eq |-> TRUE]
  ELSE [var |-> t, term |-> s, eq |-> TRUE]

TermsCanEqual(c, t1, t2) ==
  LET Can(l, r) ==
        IF {l, r} \subseteq Objects THEN l = r ELSE Consistent(c, <<Equated(l, r)>>)
  IN  Can(Binding(c, t1), Binding(c, t2))

Domain(c, v) ==
  CompatibleObjects(VarType[v]) \
    UNION {{n.set.constant : n \in {Lookup(c, u) : u \in vs.set.ncd} \ {None}} :
             vs \in {Known(c, v)} \ {None}}

ConsistentWithInequality(c, v, t) ==
  \A vs \in {Known(c, t)} \ {None} : ~ Holds(vs.set, v) \/ v \in vs.set.ncd

-----------------------------------------------------------------------------
(* Unification of two argument lists of one predicate.                      *)

Ground(args) == ToSet(args) \subseteq Objects

Earlier(args, i) == {j \in 1 .. i - 1 : args[j] = args[i]}

\* Mutant of FitsObject: a repeated variable is not compared with its first
\* object.
FitsObject_FirstWins(c, args, objs, i) ==
  IF Earlier(args, i) # {} THEN TRUE
  ELSE IF Binding(c, args[i]) \in Objects THEN Binding(c, args[i]) = objs[i]
  ELSE Subtype(ObjType[objs[i]], VarType[args[i]])

\* One list is ground: a bound or repeated variable must agree with it, any
\* other is bound to its object.
FitsObject(c, args, objs, i) ==
  IF Earlier(args, i) # {} THEN objs[Min(Earlier(args, i))] = objs[i]
  ELSE IF Binding(c, args[i]) \in Objects THEN Binding(c, args[i]) = objs[i]
  ELSE Subtype(ObjType[objs[i]], VarType[args[i]])

BindsObject(c, args, objs, i) ==
  IF Earlier(args, i) # {} \/ Binding(c, args[i]) \in Objects THEN <<>>
  ELSE <<[var |-> args[i], term |-> objs[i], eq |-> TRUE]>>

\* The answer is a unifier, or None at the first position that does not fit.
UnifyGround(c, args, objs) ==
  LET positions == 1 .. Len(args) IN
  IF \E i \in positions : ~ FitsObject(c, args, objs, i) THEN None
  ELSE FlattenSeq([i \in positions |-> BindsObject(c, args, objs, i)])

\* Neither is ground: position by position, checked by type only.
FitsTerm(s, t) ==
  IF {s, t} \subseteq Objects THEN s = t
  ELSE IF s \in Objects THEN Subtype(ObjType[s], VarType[t])
  ELSE IF t \in Objects THEN Subtype(ObjType[t], VarType[s])
  ELSE Subtype(VarType[s], VarType[t]) \/ Subtype(VarType[t], VarType[s])

BindsTerm(s, t) == IF {s, t} \subseteq Objects THEN <<>> ELSE <<Equated(s, t)>>

UnifyLifted(a1, a2) ==
  LET positions == 1 .. Len(a1) IN
  IF \E i \in positions : ~ FitsTerm(a1[i], a2[i]) THEN None
  ELSE FlattenSeq([i \in positions |-> BindsTerm(a1[i], a2[i])])

\* The unifier, or None when the atoms do not unify under the bindings.
Unify(c, a1, a2) ==
  LET Mgu == IF Ground(a1) /\ Ground(a2) THEN IF a1 = a2 THEN <<>> ELSE None
             ELSE IF Ground(a1) \/ Ground(a2)
             THEN UnifyGround(c, IF Ground(a1) THEN a2 ELSE a1, IF Ground(a1) THEN a1 ELSE a2)
             ELSE UnifyLifted(a1, a2)
      Checked(mgu) == IF mgu = None \/ ~ Consistent(c, mgu) THEN None ELSE mgu
  IN  Checked(Mgu)

-----------------------------------------------------------------------------
(* Patterns: an argument list resolved once and matched with many rows.     *)
(* A term is an object or the key of a class: the position of its varset,   *)
(* or the variable itself when no varset holds it.                          *)

ClassKey(c, v) ==
  LET Of(vs) == IF vs = None THEN v ELSE vs.pos IN Of(Known(c, v))

\* Mutant of ExcludedConstants: the table is not asked about the older part.
ExcludedConstants_Recent(c, members) ==
  LET Of(ix) ==
        LET recent == SubSeq(c.chain, 1, IF ix = None THEN Len(c.chain) ELSE ix.prefix) IN
        {vs.constant : vs \in {w \in ToSet(recent) : w.ncd \cap members # {}}} \ {None}
  IN  Of(IndexState(c))

\* The constants of pinned varsets separated from a member of the class.
ExcludedConstants(c, members) ==
  LET Of(ix) ==
        LET recent == SubSeq(c.chain, 1, IF ix = None THEN Len(c.chain) ELSE ix.prefix) IN
        ({vs.constant : vs \in {w \in ToSet(recent) : w.ncd \cap members # {}}} \ {None})
          \cup IF ix = None THEN {} ELSE UNION {ix.ncd[u] : u \in members}
  IN  Of(IndexState(c))

\* What one class contributes: its members, its type, and its separations.
ResolvedClass(c, v) ==
  LET Of(vs) == IF vs = None THEN [cd |-> {v}, ncd |-> {}, type |-> VarType[v]]
                ELSE [cd |-> ToSet(vs.set.cd), ncd |-> vs.set.ncd, type |-> vs.set.type]
  IN  Of(Known(c, v))

ResolvePattern(c, args) ==
  LET Pattern(bound, key, class) ==      \* by position; by free variable
        LET First(k) == CHOOSE v \in DOMAIN key : key[v] = k
            keys == {key[v] : v \in DOMAIN key}
        IN  [terms |-> [i \in DOMAIN args |->
                          IF bound[i] \in Objects THEN bound[i] ELSE key[bound[i]]],
             type |-> [k \in keys |-> class[First(k)].type],
             excluded |-> [k \in keys |-> ExcludedConstants(c, class[First(k)].cd)],
             apart |-> {{key[e[1]], key[e[2]]} : e \in
                          {uv \in (DOMAIN key) \X (DOMAIN key) :
                             class[uv[1]].ncd \cap class[uv[2]].cd # {}}}]
      Free(bound) == ToSet(bound) \cap StepVars
      With(bound) == Pattern(bound, [v \in Free(bound) |-> ClassKey(c, v)],
                             [v \in Free(bound) |-> ResolvedClass(c, v)])
  IN  With([i \in 1 .. Len(args) |-> Binding(c, args[i])])

\* The first position of a class.
FirstOf(pat, k) == Min({i \in 1 .. Len(pat.terms) : pat.terms[i] = k})

Matches(pat, row) ==
  /\ \A i \in 1 .. Len(row) :
        IF pat.terms[i] \in Objects THEN pat.terms[i] = row[i]
        ELSE IF i = FirstOf(pat, pat.terms[i])
             THEN /\ Subtype(ObjType[row[i]], pat.type[pat.terms[i]])
                  /\ row[i] \notin pat.excluded[pat.terms[i]]
             ELSE row[i] = row[FirstOf(pat, pat.terms[i])]
  /\ \A pair \in pat.apart : \A j, k \in pair :
        j # k => row[FirstOf(pat, j)] # row[FirstOf(pat, k)]

\* admitted_tuples.
AdmittedTuples(pat) ==
  LET choices(k) == Cardinality(CompatibleObjects(pat.type[k]) \ pat.excluded[k])
      keys == DOMAIN pat.type
  IN  FoldSet(LAMBDA k, n : n * choices(k), 1, keys)

\* for_object_table: what is left to check on the rows of a table whose
\* columns hold known values and obey declared types.
TablePattern(pat, cols, declared) ==
  LET positions == 1 .. Len(cols)
      Fits(i, o) == \/ Subtype(declared[i], pat.type[pat.terms[i]])
                    \/ Subtype(ObjType[o], pat.type[pat.terms[i]])
      Allowed(i) == {o \in cols[i] : Fits(i, o) /\ o \notin pat.excluded[pat.terms[i]]}
      free == {i \in positions : pat.terms[i] \notin Objects}
  IN  IF \/ \E i \in positions \ free : pat.terms[i] \notin cols[i]
         \/ \E i \in free : Allowed(i) = {}
      THEN None
      ELSE [bound |-> {<<i, pat.terms[i]>> : i \in {j \in positions \ free : Cardinality(cols[j]) > 1}},
            allowed |-> {<<i, Allowed(i)>> : i \in {j \in free : Allowed(j) # cols[j]}},
            equal |-> {<<FirstOf(pat, pat.terms[i]), i>> : i \in {j \in free : FirstOf(pat, pat.terms[j]) < j}},
            unequal |-> {{FirstOf(pat, k) : k \in pair} : pair \in pat.apart}]

TableMatches(tp, row) ==
  /\ \A b \in tp.bound : row[b[1]] = b[2]
  /\ \A a \in tp.allowed : row[a[1]] \in a[2]
  /\ \A e \in tp.equal : row[e[1]] = row[e[2]]
  /\ \A u \in tp.unequal : \A i, j \in u : i # j => row[i] # row[j]

\* A class in two groups, or separated classes of two groups.
CouplesGroups(pat, groups) ==
  \/ \E i, j \in 1 .. Len(pat.terms) :
       pat.terms[i] = pat.terms[j] /\ pat.terms[i] \notin Objects /\ groups[i] # groups[j]
  \/ \E pair \in pat.apart : \E j, k \in pair :
       groups[FirstOf(pat, j)] # groups[FirstOf(pat, k)]

-----------------------------------------------------------------------------

Init ==
  /\ coll = [chain |-> <<>>, high |-> 0, index |-> None]
  /\ asserted = {}
  /\ added = 0

\* A refinement: the branch goes on with the child when it is consistent.
Add(bs) ==
  /\ added + Len(bs) <= MaxBindings
  /\ Consistent(coll, bs)
  /\ coll' = Added(coll, bs)
  /\ asserted' = asserted \cup ToSet(bs)
  /\ added' = added + Len(bs)

\* Any question leaves the table behind.
Ask ==
  /\ coll.index # IndexState(coll)
  /\ coll' = Indexed(coll)
  /\ UNCHANGED <<asserted, added>>

Next == (\E bs \in Batches : Add(bs)) \/ Ask

Spec == Init /\ [][Next]_vars

-----------------------------------------------------------------------------
(* What the collection promises.                                            *)

Assignments ==
  {f \in [StepVars -> Objects] : \A v \in StepVars : Subtype(ObjType[f[v]], VarType[v])}

Value(f, t) == IF t \in Objects THEN t ELSE f[t]
Satisfies(f, b) == (f[b.var] = Value(f, b.term)) = b.eq
Solutions(bs) == {f \in Assignments : \A b \in bs : Satisfies(f, b)}

\* Whichever part of the chain the table covers and however often it was
\* inherited, a lookup finds the varset a scan from the head would find: an
\* entry that a newer varset of the child shadows never answers.
IndexAgreesWithScan ==
  \A t \in Terms : Lookup(coll, t) = Scan(coll.chain, t, Len(coll.chain))

\* The newest varsets together still say exactly what was asserted: merging
\* classes, pinning them and separating them neither loses nor invents a
\* constraint.
Tells(vs, f) ==
  /\ \A u, v \in ToSet(vs.cd) : f[u] = f[v]
  /\ vs.constant # None => \A v \in ToSet(vs.cd) : f[v] = vs.constant
  /\ \A u \in vs.ncd :
       /\ vs.constant # None => f[u] # vs.constant
       /\ \A v \in ToSet(vs.cd) : f[u] # f[v]

Told(ch) ==
  LET newest == {Scan(ch, t, Len(ch)) : t \in Terms} \ {None} IN
  {f \in Assignments : \A n \in newest : Tells(n.set, f)}

NothingForgotten == Told(coll.chain) = Solutions(asserted)

\* No object lies in two types of which neither includes the other, as is so
\* when every type has one supertype and unions do not overlap.
TypesNested ==
  \A o \in Objects, s, t \in Types :
    Subtype(ObjType[o], s) /\ Subtype(ObjType[o], t) => Subtype(s, t) \/ Subtype(t, s)

\* Bindings that are refused have no solution together with what was asserted
\* before: a refinement the code drops stood for no plan.
RejectionsAreSound ==
  \A bs \in Batches : ~ Consistent(coll, bs) => Solutions(asserted \cup ToSet(bs)) = {}

\* A unifier makes the two atoms equal wherever it holds, and atoms that do
\* not unify are equal in no solution.
UnifierIsExact(c, solutions) ==
  \A a1 \in Patterns, a2 \in Patterns \cup Rows :
    LET Equal(f) == \A i \in 1 .. Len(a1) : Value(f, a1[i]) = Value(f, a2[i]) IN
    \A mgu \in {Unify(c, a1, a2)} : \A f \in solutions :
      IF mgu = None THEN ~ Equal(f) ELSE (\A b \in ToSet(mgu) : Satisfies(f, b)) => Equal(f)

\* Every answer about terms holds in every solution: bindings that are refused,
\* the constant a variable is bound to, an equality, an equality that is
\* impossible, the values a variable may take, an inequality that is
\* inconsistent; and unifiers are exact.
AnswersAreEntailed ==
  \A c \in {Indexed(coll)}, solutions \in {Solutions(asserted)} :
    /\ RejectionsAreSound
    /\ UnifierIsExact(c, solutions)
    /\ \A v \in StepVars : \A f \in solutions :
         /\ f[v] \in Domain(c, v)
         /\ f[v] = Value(f, Binding(c, v))
         /\ \A o \in Objects : f[v] # o => ConsistentWithInequality(c, v, o)
    /\ \A s, t \in Terms :
         LET Agrees(equal, can) ==
               \A f \in solutions : /\ equal => Value(f, s) = Value(f, t)
                                    /\ Value(f, s) = Value(f, t) => can
         IN  Agrees(TermsEqual(c, s, t), TermsCanEqual(c, s, t))

\* A pattern resolved once accepts a row exactly when unification accepts it,
\* and the bound on the rows it admits is one.
PatternIsUnify(args, pat, c) ==
  LET accepted == {row \in Rows : Matches(pat, row)} IN
  /\ accepted = {row \in Rows : Unify(c, args, row) # None}
  /\ Cardinality(accepted) <= AdmittedTuples(pat)

\* The reduced checks on a parameter table accept the rows of the table that
\* the whole pattern accepts, and None means that it accepts none.
TablePatternIsPattern(args, pat) ==
  LET declared == [i \in 1 .. Len(args) |-> TermType(args[i])] IN
  \A cols \in Columns :
    (\A i \in 1 .. Len(args) : \A o \in cols[i] : Subtype(ObjType[o], declared[i])) =>
      LET rows == {row \in Rows : \A i \in 1 .. Len(row) : row[i] \in cols[i]}
          tp == TablePattern(pat, cols, declared)
      IN  {row \in rows : Matches(pat, row)} =
            IF tp = None THEN {} ELSE {row \in rows : TableMatches(tp, row)}

\* A pattern that couples no two groups of positions can be answered group by
\* group: what it accepts is the product of its projections.
UncoupledIsProduct(args, pat) ==
  LET accepted == {row \in Rows : Matches(pat, row)} IN
  ~ CouplesGroups(pat, [i \in 1 .. Len(args) |-> i]) =>
    \A row \in Rows :
      (\A i \in 1 .. Len(row) : \E r \in accepted : r[i] = row[i]) => row \in accepted

\* Matching a ground row never needs more than the pattern: the whole pattern,
\* its reduction to a table, and its parts all agree with unification.
PatternsAreExact ==
  \A c \in {Indexed(coll)} : \A args \in Patterns : \A pat \in {ResolvePattern(c, args)} :
    /\ PatternIsUnify(args, pat, c)
    /\ TablePatternIsPattern(args, pat)
    /\ UncoupledIsProduct(args, pat)

\* The classes reported as changed since the parent include every variable
\* whose constant, class, exclusions or separations the step changed, so that what was
\* computed for the others may be reused.
View(c, v) ==
  [value |-> Binding(c, v), excluded |-> ExcludedConstants(c, ResolvedClass(c, v).cd),
   same |-> {u \in StepVars : TermsEqual(c, u, v)},
   apart |-> {u \in StepVars : ~ TermsCanEqual(c, u, v)}]


=============================================================================
