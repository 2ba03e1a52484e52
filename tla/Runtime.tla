------------------------------ MODULE Runtime ------------------------------
(***************************************************************************)
(* One process of the planner: the portfolio of a problem (module          *)
(* Portfolio) whose compiled stages ask Fast Downward for the rank of      *)
(* every plan (module HeuristicServer).  The memo table and the planner    *)
(* process are statics and outlive a stage; the list of evaluators that    *)
(* have failed is in the SearchContext and does not.                       *)
(*                                                                         *)
(* The program is one thread: a search waits for the rank of each plan it  *)
(* has generated.  Only the other process runs beside it, and may die at   *)
(* any moment.  The clock is the portfolio's: the time of an expansion     *)
(* includes the evaluations that it asks for.                              *)
(***************************************************************************)
EXTENDS Portfolio, HeuristicServer

CONSTANT MaxChildren  \* bound on the plans that one step of a search generates

ASSUME RuntimeAssumption == MaxChildren \in Nat \ {0}

VARIABLE due  \* the compiled tasks of the plans generated and not yet ranked

runtimeVars == <<vars, serverVars, due>>

RuntimeInit == Init /\ ServerInit /\ due = {}

\* Nothing is being ranked: the search, or the portfolio, goes on.
Quiet == At("idle") /\ due = {}

\* The plans that a step of a compiled stage generates, while it has no answer.
Generated ==
  IF phase' = "search" /\ cli.stages[index].compiled /\ stage'.answer = None
  THEN {D \in SUBSET Tasks : Cardinality(D) <= MaxChildren}
  ELSE {{}}

\* A stage begins: a new context, and the initial plan is ranked.
Begin ==
  /\ Quiet /\ StartStage
  /\ IF phase' = "search" THEN NewSearch ELSE UNCHANGED serverVars
  /\ due' \in Generated

Grow == Quiet /\ Expand /\ due' \in Generated /\ UNCHANGED serverVars

Pass ==
  /\ Quiet
  /\ Translate \/ StopAtDeadline \/ StopForMemory \/ EndStage
  /\ UNCHANGED <<serverVars, due>>

\* A plan whose task can be solved has been given an infinite rank.
WronglyPruned(t) == call'.at = "idle" /\ ranked'[t] = Infinite /\ Truth[t] # Infinite

\* What the rank of task t does to the search.
Ranked(t) == IF WronglyPruned(t) /\ cli.solvable THEN Mislead ELSE UNCHANGED vars

\* The rank of the next plan is asked for; it may be known.
Rank ==
  \E t \in due :
    /\ Evaluate(t) /\ due' = due \ {t}
    /\ Ranked(t)

\* The evaluation goes on, and may end.
Reply == Client /\ Ranked(call.task) /\ UNCHANGED due

PlannerDies == Crash /\ UNCHANGED <<vars, due>>

Over == Quiet /\ Ended /\ UNCHANGED <<serverVars, due>>

Program == Begin \/ Grow \/ Pass \/ Rank \/ Reply

RuntimeNext == Program \/ PlannerDies \/ Over

\* The program always goes on; nothing is asked of the other process, which
\* answers or dies.
RuntimeSpec == RuntimeInit /\ [][RuntimeNext]_runtimeVars /\ WF_runtimeVars(Program)

-----------------------------------------------------------------------------

\* A solvable problem is answered "no solution" only after the planner wrote a
\* value that is not a number, or was asked again after a call had given its
\* process up with lines unread.  Crashes, failed starts, retries, evaluators
\* that are given up and asked again in the next stage, and values remembered
\* from an earlier stage cost no answer.
NoAnswerIsLost ==
  phase = "done" /\ last = "no solution" /\ cli.solvable => spoilt \cup misled # {}

=============================================================================
