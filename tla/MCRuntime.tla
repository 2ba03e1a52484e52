------------------------------ MODULE MCRuntime ------------------------------
(* Command lines of one or two stages with shares and limits of a few       *)
(* ticks, most of them with heuristics of the program's own; two reachable  *)
(* tasks and a dead end, whose values are distinct.                         *)
EXTENDS Runtime, TLC

CONSTANTS taskA, taskB, taskC
MCTasks == {taskA, taskB, taskC}
MCTruth == taskA :> 1 @@ taskB :> 2 @@ taskC :> Infinite
AllFaults == {"garbled", "noise"}

Shares == {1, 2, None}
\* Only the finite-domain representation validates a stage against the task.
OwnStages == [share : Shares, evaluable : BOOLEAN, compiled : {FALSE}]
OwnLists == UNION {[1 .. n -> OwnStages] : n \in 1 .. 2}

OwnCommandLines ==
  [stages : OwnLists, limit : {3, None}, fdr : BOOLEAN, ceiling : {1, None},
   trims : BOOLEAN, nodes : {2, None}, space : {3, None}, solvable : BOOLEAN]

\* Fast Downward ranks the plans of the first stage, of both or of the second.
Asking(share, compiled) == [share |-> share, evaluable |-> TRUE, compiled |-> compiled]
CompiledLists ==
  {<<Asking(1, TRUE), Asking(None, TRUE)>>, <<Asking(1, TRUE), Asking(1, FALSE)>>,
   <<Asking(1, FALSE), Asking(2, TRUE)>>}

CompiledCommandLines ==
  [stages : CompiledLists, limit : {None}, fdr : BOOLEAN, ceiling : {None},
   trims : {TRUE}, nodes : {None}, space : {2}, solvable : BOOLEAN]

MCCommandLines == OwnCommandLines \cup CompiledCommandLines
=============================================================================
