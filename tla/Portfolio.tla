------------------------------ MODULE Portfolio ------------------------------
(***************************************************************************)
(* The restart portfolio of the command line (src/src/bin/potoroo.rs): the *)
(* stages of one problem run one after the other, each a whole search with *)
(* its own share of the clock, until one of them solves the problem or     *)
(* exhausts the search space.  A plain run is a portfolio of one stage.    *)
(*                                                                         *)
(* Time is counted in ticks and memory in pages.  A search is the sequence *)
(* of its expansions; what it finds is what a search may answer (module    *)
(* Search): a plan only if there is one, exhaustion only if there is none  *)
(* or the heuristic of the stage, evaluated by another program, was wrong  *)
(* about a plan that leads to one (module HeuristicServer).                *)
(***************************************************************************)
EXTENDS Integers, Sequences, FiniteSetsExt

CONSTANTS
  CommandLines,   \* records [stages, limit, fdr, ceiling, trims, nodes, space, solvable]
  None,           \* an option that is not given
  Grain,          \* the longest time one uninterruptible piece of work takes
  CheckInterval,  \* memory.rs CHECK_INTERVAL
  MaxTime,        \* where the model's clock stops, beyond every deadline
  MaxPages        \* bound on the pages of a stage, beyond every ceiling

\* How a stage may end.
Outcomes == {"solved", "no solution", "limit reached", "time limit reached", "memory bound reached"}

ASSUME PortfolioAssumption ==
  /\ Grain \in Nat \ {0} /\ CheckInterval \in Nat \ {0} /\ MaxTime \in Nat /\ MaxPages \in Nat
  /\ None \notin Nat /\ None \notin Outcomes
  /\ \A c \in CommandLines :
       /\ c.stages \in Seq([share : Nat \cup {None}, evaluable : BOOLEAN, compiled : BOOLEAN])
       /\ c.stages # <<>>
       /\ {c.limit, c.ceiling, c.nodes, c.space} \subseteq Nat \cup {None}
       /\ {c.fdr, c.trims, c.solvable} \subseteq BOOLEAN

VARIABLES
  cli,    \* the accepted command line and whether its problem is solvable
  now,    \* the clock
  phase,  \* "translate", "start", "search", "done" or "aborted"
  index,  \* the stage in turn
  stage,  \* what the search of the stage keeps
  held,   \* pages freed to the allocator but not to the kernel
  last,   \* the outcome run_portfolio would return now
  total,  \* RunStats summed over the stages
  ran     \* history: one record per stage that ended

vars == <<cli, now, phase, index, stage, held, last, total, ran>>

Earliest(a, b) == IF a = None THEN b ELSE IF b = None THEN a ELSE Min({a, b})
Plus(t, share) == IF share = None THEN None ELSE t + share

Stages == Len(cli.stages)

\* The clock after a piece of work.
Later(t) == IF now < MaxTime THEN now + t ELSE now

-----------------------------------------------------------------------------
(* The command line.                                                         *)

\* Mutant of Accepted: an unbounded stage is accepted anywhere.
Accepted_Always(c) == TRUE

\* parse_args: a stage that never gives up is only allowed at the end, and a
\* compiled heuristic has no place over the finite-domain representation.
Accepted(c) ==
  /\ \A i \in 1 .. Len(c.stages) - 1 : c.stages[i].share # None
  /\ c.fdr => \A i \in 1 .. Len(c.stages) : ~ c.stages[i].compiled

\* Mutant of StageDeadline: the problem's limit is forgotten.
StageDeadline_OwnShare(s, t) == Plus(t, s.share)

\* stage_parameters, at time t: the earlier of the stage's own share, counted
\* from t, and the problem's limit, which counts from 0.
StageDeadline(s, t) == Earliest(Plus(t, s.share), cli.limit)

\* validate_all looks at every stage before the first one runs.
Preflight == Stages > 1 => \A i \in 1 .. Stages : cli.stages[i].evaluable

Idle == [deadline |-> None, begun |-> 0, expanded |-> 0, check |-> 0, live |-> 0,
         answer |-> None, misled |-> FALSE]

Init ==
  /\ cli \in {c \in CommandLines : Accepted(c)}
  /\ now = 0 /\ index = 1 /\ held = 0
  /\ phase = IF cli.fdr THEN "translate" ELSE "start"
  /\ stage = Idle
  /\ last = "no solution"
  /\ total = [generated |-> 0, peak |-> 0]
  /\ ran = <<>>

-----------------------------------------------------------------------------
(* One problem.                                                              *)

\* run_fdr_portfolio: one translation for all stages, then the preflight.
Translate ==
  /\ phase = "translate"
  /\ \E t \in 1 .. Grain : now' = Later(t)
  /\ phase' = IF Preflight THEN "start" ELSE "aborted"
  /\ UNCHANGED <<cli, index, stage, held, last, total, ran>>

\* run_portfolio, up to the search: the parameters of the stage, then the
\* planner or the context, which nothing interrupts.
StartStage ==
  /\ phase = "start"
  /\ IF cli.fdr /\ ~ cli.stages[index].evaluable
     THEN phase' = "aborted" /\ UNCHANGED <<now, stage>>
     ELSE /\ phase' = "search"
          /\ \E t \in 1 .. Grain : now' = Later(t)
          /\ stage' = [deadline |-> StageDeadline(cli.stages[index], now), begun |-> now,
                       expanded |-> 0, check |-> CheckInterval, live |-> 1,
                       answer |-> None, misled |-> FALSE]
  /\ UNCHANGED <<cli, index, held, last, total, ran>>

Searching == phase = "search" /\ stage.answer = None

\* The resident set: freed pages are used again before the kernel gives more.
Resident == Max({stage.live, held})

Late == stage.deadline # None /\ now >= stage.deadline
DueForMemory == cli.ceiling # None /\ stage.expanded >= stage.check

\* SearchStop::expired finds the deadline passed.
StopAtDeadline ==
  /\ Searching /\ Late
  /\ stage' = [stage EXCEPT !.answer = "time limit reached"]
  /\ UNCHANGED <<cli, now, phase, index, held, last, total, ran>>

\* SearchStop::expired reads the resident set, which includes held pages.
StopForMemory ==
  /\ Searching /\ ~ Late /\ DueForMemory
  /\ Resident > cli.ceiling
  /\ stage' = [stage EXCEPT !.answer = "memory bound reached"]
  /\ UNCHANGED <<cli, now, phase, index, held, last, total, ran>>

\* Mutant of Answers: reaching the node limit reads as exhaustion.
Answers_LimitIsProof(n) ==
  IF n = cli.space \/ n = cli.nodes THEN {IF cli.solvable /\ n = cli.space THEN "solved" ELSE "no solution"}
  ELSE {None}

\* What a search may find: a plan if there is one, and that there is none if
\* that is so or a plan that leads to one was pruned.
Found == (IF cli.solvable THEN {"solved"} ELSE {})
         \cup (IF cli.solvable /\ ~ stage.misled THEN {} ELSE {"no solution"})

\* What a search may answer after its n-th expansion.  A finite space of
\* cli.space plans is exhausted, with a plan or with the answer that there is
\* none; an infinite one is exhausted only for what was pruned.
Answers(n) ==
  IF n = cli.space THEN Found
  ELSE IF n = cli.nodes THEN {"limit reached"}
  ELSE {None} \cup (IF cli.solvable \/ cli.space # None THEN Found ELSE {})

\* A plan of this search that leads to a solution is given an infinite rank: in
\* a stage whose heuristic asks Fast Downward, which may answer wrongly.
Mislead ==
  /\ Searching /\ cli.stages[index].compiled /\ cli.solvable
  /\ stage' = [stage EXCEPT !.misled = TRUE]
  /\ UNCHANGED <<cli, now, phase, index, held, last, total, ran>>

\* One expansion when neither stop fires.
Expand ==
  /\ Searching /\ ~ Late
  /\ ~ (DueForMemory /\ Resident > cli.ceiling)
  /\ \E t \in 1 .. Grain, pages \in 0 .. 1, answer \in Answers(stage.expanded + 1) :
       /\ now' = Later(t)
       /\ stage' = [stage EXCEPT
                      !.expanded = Min({@ + 1, MaxTime}), !.live = Min({@ + pages, MaxPages}), !.answer = answer,
                      !.check = IF DueForMemory THEN stage.expanded + CheckInterval ELSE @]
  /\ UNCHANGED <<cli, phase, index, held, last, total, ran>>

\* RunStats::add: counters add up, peaks take a maximum.
AddStats(sum, s) == [generated |-> sum.generated + s.expanded, peak |-> Max({sum.peak, s.live})]

EndsThePortfolio(outcome) == outcome \in {"solved", "no solution"}

\* release_free_memory: the pages the kernel still counts once a stage's queues
\* have been freed; malloc_trim exists with glibc only (cli.trims).
HeldBetweenStages(pages) == IF cli.trims THEN 0 ELSE pages

IsLast(i) == i = Stages

\* The context is dropped, the statistics are added, and either the portfolio
\* ends or the freed pages are released and the next stage has its turn.
EndStage ==
  /\ phase = "search" /\ stage.answer # None
  /\ total' = AddStats(total, stage)
  /\ last' = stage.answer
  /\ ran' = Append(ran, [outcome |-> stage.answer, begun |-> stage.begun, ended |-> now,
                         expanded |-> stage.expanded, peak |-> stage.live, misled |-> stage.misled])
  /\ stage' = Idle
  /\ IF EndsThePortfolio(stage.answer) \/ IsLast(index)
     THEN phase' = "done" /\ UNCHANGED <<index, held>>
     ELSE /\ phase' = "start" /\ index' = index + 1
          /\ held' = HeldBetweenStages(Resident)
  /\ UNCHANGED <<cli, now>>

Ended == phase \in {"done", "aborted"} /\ UNCHANGED vars

Next == Translate \/ StartStage \/ StopAtDeadline \/ StopForMemory \/ Expand \/ Mislead \/ EndStage \/ Ended

Spec == Init /\ [][Next]_vars

-----------------------------------------------------------------------------
(* Properties.                                                               *)

\* A portfolio answers "no solution" only for an unsolvable problem, although
\* that is the value run_portfolio starts from, and stages that run out of
\* time, nodes or memory come before or after; the one exception is a last
\* stage that an evaluator misled, whatever happened in the stages before it.
AnswerIsTrue ==
  phase = "done" => /\ last = "no solution" => ~ cli.solvable \/ ran[Len(ran)].misled
                    /\ last = "solved" => cli.solvable

\* A portfolio that gives up has given every stage its turn.
GivesUpLast ==
  phase = "done" /\ last \notin {"solved", "no solution"} => Len(ran) = Stages

\* A stage stopped by the clock has had its whole share, counted from its own
\* start, unless the problem's limit passed.
ShareIsHonoured ==
  \A i \in DOMAIN ran :
    ran[i].outcome = "time limit reached" =>
      \/ cli.stages[i].share # None /\ ran[i].ended - ran[i].begun >= cli.stages[i].share
      \/ cli.limit # None /\ ran[i].ended >= cli.limit

\* What "a stage never outlives the problem's budget" (stage_parameters) comes
\* to.  A stage that begins within the limit outlives it by less than one
\* uninterruptible piece of work, its construction or one expansion, and so for
\* its share.  A stage whose turn comes after the limit is not passed over: it
\* is built, expands nothing and stops.  So a portfolio outlives the limit by
\* up to one such piece per stage, and one for the translation.
StageStopsInTime ==
  \A i \in DOMAIN ran :
    LET s == cli.stages[i]
        r == ran[i] IN
    /\ s.share # None => r.ended < r.begun + Max({s.share, 1}) + Grain
    /\ cli.limit # None =>
         /\ r.begun < cli.limit => r.ended < cli.limit + Grain
         /\ r.begun >= cli.limit => /\ r.outcome = "time limit reached" /\ r.expanded = 0
                                    /\ r.ended <= r.begun + Grain
         /\ r.ended < Max({cli.limit, 1}) + Grain * (IF cli.fdr THEN i + 1 ELSE i)

\* A stage is stopped for memory only by its own pages, never by the ones its
\* predecessors freed (where malloc_trim exists), and never before its first CheckInterval expansions.
MemoryStopIsItsOwn ==
  \A i \in DOMAIN ran :
    ran[i].outcome = "memory bound reached" =>
      (cli.trims => ran[i].peak > cli.ceiling) /\ ran[i].expanded >= CheckInterval

\* A run that aborts because a stage cannot be evaluated has spent no stage's
\* share: it has searched nothing.
AbortSpendsNothing == phase = "aborted" => ran = <<>> /\ total.generated = 0

\* No stage is stopped early, for another one's pages or by another one's
\* clock, none outstays its share, none is passed over, and a run that aborts
\* has spent nothing.
StopsAreEarned ==
  GivesUpLast /\ ShareIsHonoured /\ StageStopsInTime /\ MemoryStopIsItsOwn /\ AbortSpendsNothing

\* A problem gets its answer when something bounds its last stage: its space,
\* a node limit, a share or the problem's limit.  The stages before it cannot
\* keep the portfolio for themselves, whatever the space.
Terminates ==
  (\/ cli.space # None \/ cli.nodes # None
   \/ cli.stages[Stages].share # None \/ cli.limit # None)
  => <>(phase \in {"done", "aborted"})

=============================================================================
