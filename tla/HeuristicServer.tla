--------------------------- MODULE HeuristicServer ---------------------------
(***************************************************************************)
(* Evaluation of a compiled task by an external planner: the memo table,   *)
(* the persistent `downward --h-server' process with its retry, the        *)
(* one-shot process it falls back to (src/src/external/mod.rs, sas.rs),    *)
(* and the rank that compile_rank (heuristics.rs) makes of the answer.     *)
(*                                                                         *)
(* The planner is external: it may die at any moment, fail to start, and   *)
(* write lines that the client cannot read.  What it has written stays in  *)
(* the pipe when it dies.  The table and the process are the program's; the  *)
(* list of evaluators that have failed is one search's.                    *)
(***************************************************************************)
EXTENDS Naturals, Sequences

CONSTANTS
  Tasks,     \* compiled tasks, one evaluator
  Truth,     \* the value of the evaluator on each task, Infinite for a dead end
  Infinite,  \* HResult::Infinite
  Miss,      \* no value
  Absent,    \* no process
  Faults,    \* the lines a faulty planner writes: subset of {"garbled", "noise"}
  MaxCrashes \* bound on the crashes of a behaviour

\* The rank of a plan whose evaluation failed is not the dead end's.
ASSUME HeuristicServerAssumption ==
  /\ Tasks # {} /\ Miss \notin {Truth[t] : t \in Tasks}
  /\ Infinite \notin {0, Miss}
  /\ Faults \subseteq {"garbled", "noise"}
  /\ MaxCrashes \in Nat

VARIABLES
  memo,     \* cache(): task -> value or Miss
  server,   \* h_servers(): Absent or [alive, out], out the unread lines
  call,     \* the evaluation in progress: [task, at, attempt]
  disabled, \* failed_compile_backends holds the evaluator
  ranked,   \* history: what the last evaluation of each task answered
  crashes,  \* history
  givenUp,  \* history: the process is one that a call has given up
  spoilt,   \* history: the tasks whose value was written as something else
  misled    \* history: the tasks asked of a given-up process with unread lines

serverVars == <<memo, server, call, disabled, ranked, crashes, givenUp, spoilt, misled>>
history == <<givenUp, spoilt, misled>>

Line(kind, t) == [kind |-> kind, task |-> t]
Fresh == [alive |-> TRUE, out |-> <<>>]

At(place) == call.at = place

ServerInit ==
  /\ memo = [t \in Tasks |-> Miss]
  /\ server = Absent
  /\ call = [task |-> CHOOSE t \in Tasks : TRUE, at |-> "idle", attempt |-> 0]
  /\ disabled = FALSE
  /\ ranked = [t \in Tasks |-> Miss]
  /\ crashes = 0
  /\ givenUp = FALSE /\ spoilt = {} /\ misled = {}

-----------------------------------------------------------------------------
(* Answers.  compile_rank prunes the plan on Infinite and takes h = 0 when the  *)
(* evaluator has failed.                                                     *)

Answer(t, value) ==
  /\ ranked' = [ranked EXCEPT ![t] = value]
  /\ call' = [call EXCEPT !.at = "idle"]

\* Only successful results are cached.
Remember(t, value) == memo' = IF value = Miss THEN memo ELSE [memo EXCEPT ![t] = value]

\* Mutant of FailedRank: a failure prunes.
FailedRank_DeadEnd == Infinite

FailedRank == 0

Asks(t) == ~ disabled /\ memo[t] = Miss

\* The evaluation of a task begins: a disabled evaluator is not asked, a known
\* task is answered from the table.
Evaluate(t) ==
  /\ At("idle")
  /\ IF Asks(t)
     THEN call' = [task |-> t, at |-> "server", attempt |-> 0] /\ UNCHANGED ranked
     ELSE ranked' = [ranked EXCEPT ![t] = IF disabled THEN FailedRank ELSE memo[t]] /\ UNCHANGED call
  /\ UNCHANGED <<memo, server, disabled, crashes, history>>

\* A search begins with a SearchContext of its own: it asks an evaluator again
\* that failed an earlier one.
NewSearch ==
  /\ At("idle")
  /\ disabled' = FALSE
  /\ UNCHANGED <<memo, server, call, ranked, crashes, history>>

-----------------------------------------------------------------------------
(* run_h_server_eval.                                                        *)

\* spawn_h_server; when it fails the one-shot process is the next to be tried.
Spawn ==
  /\ At("server") /\ server = Absent
  /\ \/ server' = Fresh /\ UNCHANGED call
     \/ UNCHANGED server /\ call' = [call EXCEPT !.at = "one shot"]
  /\ UNCHANGED <<memo, disabled, ranked, crashes, history>>

\* Mutant of AfterFailure: every failure starts another process.
AfterFailure_RetryAgain(left) ==
  /\ server' = Absent /\ givenUp' = FALSE
  /\ call' = [call EXCEPT !.at = "server", !.attempt = 1]

\* Mutant of AfterFailure: the process is kept for the second attempt.
AfterFailure_KeepsProcess(left) ==
  /\ server' = left /\ UNCHANGED givenUp
  /\ call' = [call EXCEPT !.at = IF call.attempt = 0 THEN "server" ELSE "one shot", !.attempt = 1]

\* A request that failed: the first time the process is killed, reaped and
\* replaced; the second time it stays in the table, as left, and the call fails.
AfterFailure(left) ==
  IF call.attempt = 0
  THEN /\ server' = Absent /\ givenUp' = FALSE
       /\ call' = [call EXCEPT !.at = "server", !.attempt = 1]
  ELSE /\ call' = [call EXCEPT !.at = "one shot"]
       /\ server' = left /\ givenUp' = TRUE

\* h_server_request, the request: a living process writes its answer, or a
\* line that is not text before it, or a value that is not a number.
Send ==
  /\ At("server") /\ server # Absent
  /\ IF server.alive
     THEN /\ \E before \in {"none"} \cup Faults :
               LET t == call.task IN
               /\ server' = [server EXCEPT !.out = @ \o
                    CASE before = "none"    -> <<Line("value", t)>>
                      [] before = "noise"   -> <<Line("noise", t), Line("value", t)>>
                      [] before = "garbled" -> <<Line("garbled", t)>>]
               /\ spoilt' = IF before = "garbled" THEN spoilt \cup {t} ELSE spoilt
               /\ misled' = IF givenUp /\ server.out # <<>> THEN misled \cup {t} ELSE misled
          /\ call' = [call EXCEPT !.at = "reply"] /\ UNCHANGED givenUp
     ELSE AfterFailure(server) /\ UNCHANGED <<spoilt, misled>>
  /\ UNCHANGED <<memo, disabled, ranked, crashes>>

\* h_server_request, the reply.  An answer is taken for the task in hand,
\* whatever task it was written for.
ReadLine ==
  /\ At("reply") /\ server.out # <<>>
  /\ LET line == Head(server.out)
         rest == [server EXCEPT !.out = Tail(@)]
     IN  \/ /\ line.kind = "value"
            /\ server' = rest
            /\ Remember(call.task, Truth[line.task]) /\ Answer(call.task, Truth[line.task])
            /\ UNCHANGED givenUp
         \/ /\ line.kind = "garbled"   \* rest.parse().unwrap_or(INFINITY)
            /\ server' = rest
            /\ Remember(call.task, Infinite) /\ Answer(call.task, Infinite)
            /\ UNCHANGED givenUp
         \/ /\ line.kind = "noise"     \* the line is gone, the answer is not
            /\ AfterFailure(rest)
            /\ UNCHANGED <<memo, ranked>>
  /\ UNCHANGED <<disabled, crashes, spoilt, misled>>

\* The end of the pipe of a dead process.
ReadEnd ==
  /\ At("reply") /\ server.out = <<>> /\ ~ server.alive
  /\ AfterFailure(server)
  /\ UNCHANGED <<memo, disabled, ranked, crashes, spoilt, misled>>

\* The process dies; an answer it has not written yet is never written.
Crash ==
  /\ crashes < MaxCrashes
  /\ server # Absent /\ server.alive
  /\ \E kept \in 0 .. Len(server.out) :
       server' = [alive |-> FALSE, out |-> SubSeq(server.out, 1, kept)]
  /\ crashes' = crashes + 1
  /\ UNCHANGED <<memo, call, disabled, ranked, history>>

-----------------------------------------------------------------------------
(* run_downward_sas, the one-shot process.                                   *)

OneShotAnswers ==
  /\ At("one shot")
  /\ Remember(call.task, Truth[call.task]) /\ Answer(call.task, Truth[call.task])
  /\ UNCHANGED <<server, disabled, crashes, history>>

\* It cannot be started, or its output has no value: the evaluator is disabled
\* for the rest of the search and the plan keeps h = 0.
OneShotFails ==
  /\ At("one shot")
  /\ disabled' = TRUE
  /\ Remember(call.task, Miss)
  /\ ranked' = [ranked EXCEPT ![call.task] = FailedRank]
  /\ call' = [call EXCEPT !.at = "idle"]
  /\ UNCHANGED <<server, crashes, history>>

Client == Spawn \/ Send \/ ReadLine \/ ReadEnd \/ OneShotAnswers \/ OneShotFails
ServerNext == NewSearch \/ (\E t \in Tasks : Evaluate(t)) \/ Client \/ Crash

ServerSpec == ServerInit /\ [][ServerNext]_serverVars

-----------------------------------------------------------------------------
(* Properties.                                                               *)

\* A remembered value is the value of the task it is remembered for, whatever
\* the process answered before it died or was replaced, with two exceptions.
\* The task's own value was not a number: `unwrap_or(INFINITY)' makes that a
\* dead end.  Or the request went to a process that an earlier call gave up
\* after two failures without reaping it or reading on: its first line is then
\* the answer to another task.
MemoIsTrue ==
  \A t \in Tasks :
    \/ memo[t] \in {Miss, Truth[t]}
    \/ t \in spoilt /\ memo[t] = Infinite
    \/ t \in misled

\* A failure of the planner prunes no plan, with the same exceptions.  They are
\* exceptions to heuristics.rs, "failure to evaluate a heuristic says nothing
\* about solvability": every other failure keeps to it.
FailureNeverPrunes ==
  \A t \in Tasks : ranked[t] = Infinite => Truth[t] = Infinite \/ t \in spoilt \/ t \in misled

\* What a failing planner spoils is told task by task: crashes, failed starts
\* and unreadable lines harm no other task than those whose own value could not
\* be read or that met a process given up with lines unread.
FailureIsContained == MemoIsTrue /\ FailureNeverPrunes

\* Every evaluation returns, however the planner fails.
CallReturns == ~ At("idle") ~> At("idle")
=============================================================================
