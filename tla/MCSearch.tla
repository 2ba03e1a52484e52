------------------------------ MODULE MCSearch ------------------------------
(* Small refinement spaces.  Every leaf is a dead end, a complete plan that *)
(* cannot be instantiated, a solution of cost 1 or 2, or a complete plan of *)
(* schema cost 1 that costs 2 when it is instantiated.                      *)
EXTENDS Search, TLC

MaxRank == 9

LeafKinds == {"dead", "void", "cheap", "dear", "schema"}

LeafRank(kind) ==
  CASE kind = "dead" -> MaxRank [] kind = "dear" -> 2 [] OTHER -> 1

\* The space with the given trees; leaf n instantiates to plan inst[n] when its
\* kind is "schema".  inner gives the f of the plans that are not leaves.
Space(children, kinds, inst, inner, upside) ==
  LET n    == Len(children[1])
      ends == {inst[k] : k \in DOMAIN kinds}
      f    == [k \in 1 .. n |-> IF k \in DOMAIN kinds THEN LeafRank(kinds[k])
                                ELSE IF k \in ends THEN 2 ELSE inner[k]]
      done == {k \in DOMAIN kinds : kinds[k] # "dead"} \cup ends
      under(tree) ==
        LET b[k \in 1 .. n] == {k} \cup UNION {b[c] : c \in ToSet(tree[k])} IN b
  IN  [children |-> children,
       below |-> [o \in 1 .. Len(children) |-> [k \in 1 .. n |-> under(children[o])[k]]],
       f     |-> f,
       h     |-> [k \in 1 .. n |-> IF f[k] = MaxRank THEN MaxRank
                                   ELSE IF upside THEN 2 - f[k] ELSE f[k]],
       steps |-> [k \in 1 .. n |-> IF k = 1 THEN 0 ELSE IF upside THEN 1 ELSE k \div 3],
       inst  |-> [k \in done |->
                    IF k \in ends THEN k
                    ELSE CASE kinds[k] = "void" -> 0
                           [] kinds[k] = "schema" -> inst[k]
                           [] OTHER -> k]]

NoChildren(n) == [k \in 1 .. n |-> <<>>]

\* One flaw order: 1 -> 2 3, 3 -> 4 5.  Plans 6, 7 and 8 are instances.
OneTree == << [NoChildren(8) EXCEPT ![1] = <<2, 3>>, ![3] = <<4, 5>>] >>
OneInst == 2 :> 6 @@ 4 :> 7 @@ 5 :> 8
OneNames == [kinds : [{2, 4, 5} -> LeafKinds], root : {0, 1}, upside : BOOLEAN]
OneSpace(name) ==
  Space(OneTree, name.kinds, OneInst, 1 :> name.root @@ 3 :> name.root + 1, name.upside)

OneOrderSpaces ==
  {space \in {OneSpace(name) : name \in OneNames} : Safe(space)}

\* Two flaw orders: 1 -> 2 3, 3 -> 4, and 1 -> 5, 5 -> 6 7.
TwoTrees == << [NoChildren(11) EXCEPT ![1] = <<2, 3>>, ![3] = <<4>>],
               [NoChildren(11) EXCEPT ![1] = <<5>>, ![5] = <<6, 7>>] >>
TwoInst == 2 :> 8 @@ 4 :> 9 @@ 6 :> 10 @@ 7 :> 11
TwoNames == [kinds : [{2, 4, 6, 7} -> LeafKinds], inner : {0, 2}]
TwoSpace(name) ==
  Space(TwoTrees, name.kinds, TwoInst, 1 :> 0 @@ 3 :> name.inner @@ 5 :> name.inner, FALSE)

TwoOrderSpaces ==
  {space \in {TwoSpace(name) : name \in TwoNames} : Safe(space)}

AllAlgorithms == {"A", "Bfs", "Ida", "Gbfs", "LazyGbfs", "LazyGbfsDual", "Alt"}

Calls(algs, spaces, limits, maxQueued, stops) ==
  [alg : algs, space : spaces, limits : limits, maxQueued : maxQueued,
   canTimeOut : {stops}, memoryBound : {stops}, memoryStop : {stops}]

\* Every algorithm, nothing bounded; with every bound and stop; and two flaw
\* orders taking turns at their node limits.
MCTasks ==
  Calls(AllAlgorithms, OneOrderSpaces, {<<20>>}, {MaxRank}, FALSE)
    \cup Calls(AllAlgorithms, OneOrderSpaces, {<<20>>, <<3>>, <<0>>}, {2}, TRUE)
    \cup Calls(AllAlgorithms \ {"Ida"}, TwoOrderSpaces,
               {<<20, 20>>, <<3, 20>>, <<2, 3>>, <<1, 1>>, <<3, 0>>, <<0, 3>>, <<0, 0>>},
               {MaxRank}, FALSE)

\* A second flaw order whose limit is zero.
ZeroLimitTasks == Calls({"A", "LazyGbfs"}, TwoOrderSpaces, {<<3, 0>>}, {MaxRank}, FALSE)

\* IDA* with two flaw orders.
IdaOrderTasks == Calls({"Ida"}, TwoOrderSpaces, {<<20, 20>>}, {MaxRank}, FALSE)
=============================================================================
