---------------------------- MODULE RuntimeProofs ----------------------------
(***************************************************************************)
(* Proofs about the evaluation by an external planner, for every set of    *)
(* tasks and every number of crashes, and about the whole process.         *)
(*                                                                         *)
(* A remembered value is right because of what the pipe holds: nothing     *)
(* before a request is written, and no line about any other task until the *)
(* request is answered, whenever the process dies.  The exception is a     *)
(* process that a call has given up; the inductive invariant says that     *)
(* nothing else leaves a line behind.  The process as a whole does what    *)
(* the portfolio and the evaluation may do, step by step.                  *)
(***************************************************************************)
EXTENDS Runtime, PortfolioProofs

ServerTypeOK ==
  /\ DOMAIN memo = Tasks
  /\ call \in [task : Tasks, at : {"idle", "server", "reply", "one shot"}, attempt : {0, 1}]
  /\ disabled \in BOOLEAN
  /\ DOMAIN ranked = Tasks
  /\ givenUp \in BOOLEAN

\* What may be left in the pipe of the answer to task t.
Orderly(t) ==
  {<<>>, <<Line("value", t)>>, <<Line("noise", t)>>, <<Line("noise", t), Line("value", t)>>}
  \cup (IF t \in spoilt THEN {<<Line("garbled", t)>>} ELSE {})

\* While an answer is waited for the pipe holds that answer, or the task is
\* known to be misled; at other times nothing, or the process is given up.
PipeInOrder ==
  IF At("reply") THEN server.out \in Orderly(call.task) \/ (givenUp /\ call.task \in misled)
  ELSE server = Absent \/ server.out = <<>> \/ givenUp

ServerInv == ServerTypeOK /\ MemoIsTrue /\ FailureNeverPrunes /\ PipeInOrder

-----------------------------------------------------------------------------
LEMMA ServerInvInit == ServerInit => ServerInv
<1> SUFFICES ASSUME ServerInit PROVE ServerInv
  OBVIOUS
<1>1. /\ memo = [t \in Tasks |-> Miss] /\ server = Absent
      /\ call = [task |-> CHOOSE t \in Tasks : TRUE, at |-> "idle", attempt |-> 0]
      /\ disabled = FALSE /\ ranked = [t \in Tasks |-> Miss] /\ givenUp = FALSE
  BY DEF ServerInit
<1>2. (CHOOSE t \in Tasks : TRUE) \in Tasks
  BY HeuristicServerAssumption
<1>3. ServerTypeOK
  BY <1>1, <1>2 DEF ServerTypeOK
<1>4. MemoIsTrue /\ FailureNeverPrunes
  BY <1>1, HeuristicServerAssumption DEF MemoIsTrue, FailureNeverPrunes
<1>5. ~ At("reply") /\ server = Absent
  BY <1>1 DEF At
<1>6. PipeInOrder
  BY <1>5 DEF PipeInOrder
<1> QED BY <1>3, <1>4, <1>6 DEF ServerInv

\* What a task may be answered: its value, a failure, or what the exceptions
\* allow.
MayBeTold(t, value) ==
  \/ value \in {Truth[t], FailedRank}
  \/ t \in spoilt /\ value = Infinite
  \/ t \in misled

LEMMA TrueAnswer ==
  ASSUME ServerTypeOK, MemoIsTrue, FailureNeverPrunes, NEW t \in Tasks, NEW value,
         MayBeTold(t, value), spoilt' = spoilt, misled' = misled,
         \/ memo' = memo
         \/ (value # FailedRank \/ value = Truth[t]) /\ memo' = [memo EXCEPT ![t] = value],
         ranked' = [ranked EXCEPT ![t] = value]
  PROVE  MemoIsTrue' /\ FailureNeverPrunes'
<1>1. ASSUME NEW u \in Tasks
      PROVE  \/ memo'[u] \in {Miss, Truth[u]}
             \/ u \in spoilt /\ memo'[u] = Infinite
             \/ u \in misled
  BY <1>1 DEF ServerTypeOK, MemoIsTrue, MayBeTold
<1>2. ASSUME NEW u \in Tasks, ranked'[u] = Infinite
      PROVE  Truth[u] = Infinite \/ u \in spoilt \/ u \in misled
  BY <1>2, HeuristicServerAssumption DEF ServerTypeOK, FailureNeverPrunes, MayBeTold, FailedRank
<1> QED BY <1>1, <1>2 DEF MemoIsTrue, FailureNeverPrunes

\* A step that answers nothing leaves the answers as right as they were.
LEMMA NoAnswer ==
  ASSUME MemoIsTrue, FailureNeverPrunes, UNCHANGED <<memo, ranked>>,
         spoilt \subseteq spoilt', misled \subseteq misled'
  PROVE  MemoIsTrue' /\ FailureNeverPrunes'
  BY DEF MemoIsTrue, FailureNeverPrunes

LEMMA EvaluateKeeps == \A t \in Tasks : ServerInv /\ Evaluate(t) => ServerInv'
<1> SUFFICES ASSUME NEW t \in Tasks, ServerInv, Evaluate(t) PROVE ServerInv'
  OBVIOUS
<1>1. At("idle") /\ UNCHANGED <<memo, server, disabled, crashes, givenUp, spoilt, misled>>
  BY DEF Evaluate, history
<1>2. CASE Asks(t)
  <2>1. call' = [task |-> t, at |-> "server", attempt |-> 0] /\ UNCHANGED ranked
    BY <1>2 DEF Evaluate
  <2>2. ServerTypeOK'
    BY <1>1, <2>1 DEF ServerInv, ServerTypeOK
  <2>3. PipeInOrder'
    <3>1. ~ At("reply") /\ ~ At("reply")'
      BY <1>1, <2>1 DEF At
    <3> QED BY <1>1, <3>1 DEF ServerInv, PipeInOrder
  <2> QED BY <1>1, <2>1, <2>2, <2>3, NoAnswer DEF ServerInv
<1>3. CASE ~ Asks(t)
  <2>1. /\ ranked' = [ranked EXCEPT ![t] = IF disabled THEN FailedRank ELSE memo[t]]
        /\ UNCHANGED call
    BY <1>3 DEF Evaluate
  <2>2. ServerTypeOK'
    BY <1>1, <2>1 DEF ServerInv, ServerTypeOK
  <2>3. MayBeTold(t, IF disabled THEN FailedRank ELSE memo[t])
    BY <1>3 DEF ServerInv, MemoIsTrue, Asks, MayBeTold
  <2>4. MemoIsTrue' /\ FailureNeverPrunes'
    <3> DEFINE value == IF disabled THEN FailedRank ELSE memo[t]
    <3>1. /\ ranked' = [ranked EXCEPT ![t] = value] /\ MayBeTold(t, value)
          /\ memo' = memo /\ spoilt' = spoilt /\ misled' = misled
      BY <1>1, <2>1, <2>3
    <3>2. ServerTypeOK /\ MemoIsTrue /\ FailureNeverPrunes
      BY DEF ServerInv
    <3> HIDE DEF value
    <3> QED BY <3>1, <3>2, TrueAnswer
  <2>5. PipeInOrder'
    BY <1>1, <2>1 DEF ServerInv, PipeInOrder, At, Orderly
  <2> QED BY <2>2, <2>4, <2>5 DEF ServerInv
<1> QED BY <1>2, <1>3

LEMMA NewSearchKeeps == ServerInv /\ NewSearch => ServerInv'
<1> SUFFICES ASSUME ServerInv, NewSearch PROVE ServerInv'
  OBVIOUS
<1>1. disabled' = FALSE /\ UNCHANGED <<memo, server, call, ranked, crashes, givenUp, spoilt, misled>>
  BY DEF NewSearch, history
<1>2. ServerTypeOK'
  BY <1>1 DEF ServerInv, ServerTypeOK
<1>3. PipeInOrder'
  BY <1>1 DEF ServerInv, PipeInOrder, At, Orderly
<1> QED BY <1>1, <1>2, <1>3, NoAnswer DEF ServerInv

LEMMA SpawnKeeps == ServerInv /\ Spawn => ServerInv'
<1> SUFFICES ASSUME ServerInv, Spawn PROVE ServerInv'
  OBVIOUS
<1>1. /\ server = Absent /\ UNCHANGED <<memo, disabled, ranked, crashes, givenUp, spoilt, misled>>
      /\ \/ server' = Fresh /\ UNCHANGED call
         \/ UNCHANGED server /\ call' = [call EXCEPT !.at = "one shot"]
  BY DEF Spawn, history
<1>2. ServerTypeOK'
  BY <1>1 DEF ServerInv, ServerTypeOK
<1>3. Fresh.out = <<>>
  BY DEF Fresh
<1>4. ~ At("reply")'
  BY <1>1 DEF At, Spawn, ServerInv, ServerTypeOK
<1>5. PipeInOrder'
  BY <1>1, <1>3, <1>4 DEF PipeInOrder
<1> QED BY <1>1, <1>2, <1>5, NoAnswer DEF ServerInv

\* After a failure no process is left, or one that is given up.
LEMMA FailureKeeps ==
  ASSUME ServerInv, NEW left, AfterFailure(left),
         UNCHANGED <<memo, disabled, ranked, crashes, spoilt, misled>>
  PROVE  ServerInv'
<1>1. \/ /\ server' = Absent /\ givenUp' = FALSE
         /\ call' = [call EXCEPT !.at = "server", !.attempt = 1]
      \/ /\ server' = left /\ givenUp' = TRUE
         /\ call' = [call EXCEPT !.at = "one shot"]
  BY DEF AfterFailure
<1>2. ServerTypeOK'
  BY <1>1 DEF ServerInv, ServerTypeOK
<1>3. ~ At("reply")'
  BY <1>1 DEF At, ServerInv, ServerTypeOK
<1>4. PipeInOrder'
  BY <1>1, <1>3 DEF PipeInOrder
<1> QED BY <1>2, <1>4, NoAnswer DEF ServerInv

LEMMA SendKeeps == ServerInv /\ Send => ServerInv'
<1> SUFFICES ASSUME ServerInv, Send PROVE ServerInv'
  OBVIOUS
<1>1. At("server") /\ server # Absent /\ UNCHANGED <<memo, disabled, ranked, crashes>>
  BY DEF Send
<1>2. server.out = <<>> \/ givenUp
  BY <1>1 DEF ServerInv, PipeInOrder, At
<1>3. CASE server.alive
  <2> DEFINE t == call.task
  <2>1. PICK before \in {"none"} \cup Faults :
          /\ server' = [server EXCEPT !.out = @ \o
               CASE before = "none"    -> <<Line("value", t)>>
                 [] before = "noise"   -> <<Line("noise", t), Line("value", t)>>
                 [] before = "garbled" -> <<Line("garbled", t)>>]
          /\ spoilt' = IF before = "garbled" THEN spoilt \cup {t} ELSE spoilt
          /\ misled' = IF givenUp /\ server.out # <<>> THEN misled \cup {t} ELSE misled
    BY <1>3 DEF Send
  <2>2. call' = [call EXCEPT !.at = "reply"] /\ UNCHANGED givenUp
    BY <1>3 DEF Send
  <2>3. ServerTypeOK'
    BY <1>1, <2>1, <2>2 DEF ServerInv, ServerTypeOK
  <2>4. At("reply")' /\ call'.task = t
    BY <2>2 DEF At, ServerInv, ServerTypeOK
  <2>5. PipeInOrder'
    <3>1. CASE server.out = <<>>
      <4>1. before \in {"none", "noise", "garbled"}
        BY HeuristicServerAssumption
      <4>2. server'.out \in Orderly(t)'
        <5>1. CASE before = "none"
          <6>1. server'.out = <<Line("value", t)>>
            BY <2>1, <3>1, <5>1
          <6> QED BY <6>1, <2>4 DEF Orderly, Line
        <5>2. CASE before = "noise"
          <6>1. server'.out = <<Line("noise", t), Line("value", t)>>
            BY <2>1, <3>1, <5>2
          <6> QED BY <6>1, <2>4 DEF Orderly, Line
        <5>3. CASE before = "garbled"
          <6>1. server'.out = <<Line("garbled", t)>> /\ t \in spoilt'
            BY <2>1, <3>1, <5>3
          <6> QED BY <6>1, <2>4 DEF Orderly, Line
        <5> QED BY <4>1, <5>1, <5>2, <5>3
      <4> QED BY <2>4, <4>2 DEF PipeInOrder, Orderly
    <3>2. CASE server.out # <<>>
      <4>1. givenUp' /\ t \in misled'
        BY <1>2, <2>1, <2>2, <3>2
      <4> QED BY <2>4, <4>1 DEF PipeInOrder
    <3> QED BY <3>1, <3>2
  <2>6. spoilt \subseteq spoilt' /\ misled \subseteq misled'
    BY <2>1
  <2> QED BY <1>1, <2>3, <2>5, <2>6, NoAnswer DEF ServerInv
<1>4. CASE ~ server.alive
  <2>1. AfterFailure(server) /\ UNCHANGED <<spoilt, misled>>
    BY <1>4 DEF Send
  <2> QED BY <1>1, <2>1, FailureKeeps
<1> QED BY <1>3, <1>4

\* An answer leaves the pipe empty, unless the process is given up.
Answered(value) ==
  /\ MayBeTold(call.task, value)
  /\ \/ memo' = memo
     \/ (value # FailedRank \/ value = Truth[call.task]) /\ memo' = [memo EXCEPT ![call.task] = value]
     \/ call.task \in misled /\ memo' = [memo EXCEPT ![call.task] = value]
  /\ ranked' = [ranked EXCEPT ![call.task] = value]
  /\ call' = [call EXCEPT !.at = "idle"]
  /\ disabled' \in BOOLEAN /\ UNCHANGED <<givenUp, spoilt, misled>>
  /\ givenUp \/ server' = Absent \/ server'.out = <<>>

LEMMA AnswerKeeps == \A value : ServerInv /\ Answered(value) => ServerInv'
<1> SUFFICES ASSUME NEW value, ServerInv, Answered(value) PROVE ServerInv'
  OBVIOUS
<1> USE DEF Answered
<1>1. ServerTypeOK'
  BY DEF ServerInv, ServerTypeOK
<1>2. call.task \in Tasks
  BY DEF ServerInv, ServerTypeOK
<1>3. MemoIsTrue' /\ FailureNeverPrunes'
  <2>1. CASE call.task \in misled /\ memo' = [memo EXCEPT ![call.task] = value]
    BY <1>2, <2>1, HeuristicServerAssumption
       DEF ServerInv, ServerTypeOK, MemoIsTrue, FailureNeverPrunes
  <2>2. CASE ~ (call.task \in misled /\ memo' = [memo EXCEPT ![call.task] = value])
    <3>1. \/ memo' = memo
          \/ (value # FailedRank \/ value = Truth[call.task]) /\ memo' = [memo EXCEPT ![call.task] = value]
      BY <2>2
    <3>2. /\ MayBeTold(call.task, value) /\ spoilt' = spoilt /\ misled' = misled
          /\ ranked' = [ranked EXCEPT ![call.task] = value]
      OBVIOUS
    <3>3. ServerTypeOK /\ MemoIsTrue /\ FailureNeverPrunes
      BY DEF ServerInv
    <3> HIDE DEF Answered
    <3> QED BY <1>2, <3>1, <3>2, <3>3, TrueAnswer
  <2> QED BY <2>1, <2>2
<1>4. ~ At("reply")'
  BY DEF At, ServerInv, ServerTypeOK
<1>5. PipeInOrder'
  BY <1>4 DEF PipeInOrder
<1> QED BY <1>1, <1>3, <1>5 DEF ServerInv

LEMMA ReadLineKeeps == ServerInv /\ ReadLine => ServerInv'
<1> SUFFICES ASSUME ServerInv, ReadLine PROVE ServerInv'
  OBVIOUS
<1> DEFINE line == Head(server.out)
           rest == [server EXCEPT !.out = Tail(@)]
           t    == call.task
<1>1. At("reply") /\ UNCHANGED <<disabled, crashes, spoilt, misled>> /\ server.out # <<>>
  BY DEF ReadLine
<1>2. \/ /\ line.kind = "value" /\ server' = rest
         /\ Remember(t, Truth[line.task]) /\ Answer(t, Truth[line.task])
         /\ UNCHANGED givenUp
      \/ /\ line.kind = "garbled" /\ server' = rest
         /\ Remember(t, Infinite) /\ Answer(t, Infinite)
         /\ UNCHANGED givenUp
      \/ /\ line.kind = "noise" /\ AfterFailure(rest)
         /\ UNCHANGED <<memo, ranked>>
  BY DEF ReadLine
<1>3. disabled' \in BOOLEAN
  BY <1>1 DEF ServerInv, ServerTypeOK
<1>4. CASE line.kind = "noise"
  BY <1>1, <1>2, <1>4, FailureKeeps
<1>5. ASSUME line.kind # "noise", givenUp, t \in misled
      PROVE  ServerInv'
  <2>1. PICK value : Remember(t, value) /\ Answer(t, value) /\ UNCHANGED givenUp
    BY <1>2, <1>5
  <2>2. Answered(value)
    BY <1>1, <1>3, <1>5, <2>1 DEF Answered, MayBeTold, Remember, Answer
  <2> QED BY <2>2, AnswerKeeps
<1>6. ASSUME line.kind # "noise", server.out \in Orderly(t)
      PROVE  ServerInv'
  <2>1. \/ server.out = <<Line("value", t)>>
        \/ server.out = <<Line("garbled", t)>> /\ t \in spoilt
    <3>1. line.kind = "noise" => FALSE
      BY <1>6
    <3>2. server.out = <<Line("noise", t)>> => line.kind = "noise"
      BY DEF Line
    <3>3. server.out = <<Line("noise", t), Line("value", t)>> => line.kind = "noise"
      BY DEF Line
    <3> HIDE DEF line
    <3> QED BY <1>1, <1>6, <3>1, <3>2, <3>3 DEF Orderly
  <2>2. rest.out = <<>>
    <3>1. \A l : Tail(<<l>>) = <<>>
      OBVIOUS
    <3>2. PICK l : server.out = <<l>>
      BY <2>1
    <3>3. Tail(server.out) = <<>>
      BY <3>1, <3>2
    <3> QED BY <3>3
  <2>3. server' = rest /\ UNCHANGED givenUp
    BY <1>2, <1>6
  <2>4. CASE server.out = <<Line("value", t)>>
    <3>1. line.kind = "value" /\ line.task = t
      BY <2>4 DEF Line
    <3>2. Remember(t, Truth[t]) /\ Answer(t, Truth[t])
      BY <1>2, <3>1
    <3>3. Answered(Truth[t])
      BY <1>1, <1>3, <2>2, <2>3, <3>2 DEF Answered, MayBeTold, Remember, Answer
    <3> QED BY <3>3, AnswerKeeps
  <2>5. CASE server.out = <<Line("garbled", t)>> /\ t \in spoilt
    <3>1. line.kind = "garbled"
      BY <2>5 DEF Line
    <3>2. Remember(t, Infinite) /\ Answer(t, Infinite)
      BY <1>2, <3>1
    <3>3. Infinite # FailedRank
      BY HeuristicServerAssumption DEF FailedRank
    <3>4. Answered(Infinite)
      BY <1>1, <1>3, <2>2, <2>3, <2>5, <3>2, <3>3 DEF Answered, MayBeTold, Remember, Answer
    <3> QED BY <3>4, AnswerKeeps
  <2> QED BY <2>1, <2>4, <2>5
<1>7. server.out \in Orderly(t) \/ (givenUp /\ t \in misled)
  BY <1>1 DEF ServerInv, PipeInOrder
<1> QED BY <1>4, <1>5, <1>6, <1>7

LEMMA ReadEndKeeps == ServerInv /\ ReadEnd => ServerInv'
  BY FailureKeeps DEF ReadEnd

LEMMA Only ==
  ASSUME NEW S, NEW s \in Seq(S), Len(s) = 1 PROVE s = <<s[1]>>
  BY SeqEqual

\* A prefix of what the pipe held in order is in order.
LEMMA CrashKeeps == ServerInv /\ Crash => ServerInv'
<1> SUFFICES ASSUME ServerInv, Crash PROVE ServerInv'
  OBVIOUS
<1>1. server # Absent /\ UNCHANGED <<memo, call, disabled, ranked, givenUp, spoilt, misled>>
  BY DEF Crash, history
<1>2. PICK kept \in 0 .. Len(server.out) :
        server' = [alive |-> FALSE, out |-> SubSeq(server.out, 1, kept)]
  BY DEF Crash
<1>3. server'.out = SubSeq(server.out, 1, kept)
  BY <1>2
<1>4. ServerTypeOK'
  BY <1>1 DEF ServerInv, ServerTypeOK
<1>5. ASSUME server.out = <<>> PROVE server'.out = <<>>
  BY <1>2, <1>3, <1>5
<1>6. ASSUME NEW l, server.out = <<l>> PROVE server'.out \in {<<>>, <<l>>}
  <2>1. kept \in {0, 1}
    BY <1>2, <1>6
  <2>2. SubSeq(<<l>>, 1, 0) = <<>>
    OBVIOUS
  <2>3. <<l>> \in Seq({l}) /\ Len(<<l>>) = 1 /\ <<l>>[1] = l
    OBVIOUS
  <2>4. SubSeq(<<l>>, 1, 1) = <<l>>
    BY <2>3, SubSeqFull
  <2> QED BY <1>3, <1>6, <2>1, <2>2, <2>4
<1>7. ASSUME NEW l, NEW m, server.out = <<l, m>> PROVE server'.out \in {<<>>, <<l>>, <<l, m>>}
  <2>1. kept \in {0, 1, 2}
    BY <1>2, <1>7
  <2>2. SubSeq(<<l, m>>, 1, 0) = <<>>
    OBVIOUS
  <2>3. <<l, m>> \in Seq({l, m}) /\ Len(<<l, m>>) = 2 /\ <<l, m>>[1] = l /\ <<l, m>>[2] = m
    OBVIOUS
  <2>4. SubSeq(<<l, m>>, 1, 2) = <<l, m>>
    BY <2>3, SubSeqFull
  <2>5. SubSeq(<<l, m>>, 1, 1) = <<l>>
    <3>1. /\ Len(SubSeq(<<l, m>>, 1, 1)) = 1 /\ SubSeq(<<l, m>>, 1, 1) \in Seq({l, m})
          /\ SubSeq(<<l, m>>, 1, 1)[1] = l
      BY <2>3, SubSeqProperties
    <3>2. SubSeq(<<l, m>>, 1, 1) = <<SubSeq(<<l, m>>, 1, 1)[1]>>
      BY <3>1, Only
    <3> QED BY <3>1, <3>2
  <2> QED BY <1>3, <1>7, <2>1, <2>2, <2>4, <2>5
<1>8. At("reply")' = At("reply") /\ call'.task = call.task
  BY <1>1 DEF At
<1>9. PipeInOrder'
  <2>1. CASE ~ At("reply")
    BY <1>1, <1>5, <1>8, <2>1 DEF ServerInv, PipeInOrder
  <2>2. CASE At("reply")
    <3>1. server.out \in Orderly(call.task) => server'.out \in Orderly(call.task)
      <4> DEFINE v == Line("value", call.task)
                 n == Line("noise", call.task)
                 g == Line("garbled", call.task)
      <4> HIDE DEF v, n, g
      <4>1. Orderly(call.task) = {<<>>, <<v>>, <<n>>, <<n, v>>} \cup
                                 (IF call.task \in spoilt THEN {<<g>>} ELSE {})
        BY DEF Orderly, v, n, g
      <4>2. server.out = <<>> => server'.out \in Orderly(call.task)
        BY <1>5, <4>1
      <4>3. server.out = <<v>> => server'.out \in Orderly(call.task)
        BY <1>6, <4>1
      <4>4. server.out = <<n>> => server'.out \in Orderly(call.task)
        BY <1>6, <4>1
      <4>5. server.out = <<n, v>> => server'.out \in Orderly(call.task)
        BY <1>7, <4>1
      <4>6. server.out = <<g>> /\ call.task \in spoilt => server'.out \in Orderly(call.task)
        BY <1>6, <4>1
      <4> QED BY <4>1, <4>2, <4>3, <4>4, <4>5, <4>6
    <3>2. Orderly(call.task)' = Orderly(call.task)
      BY <1>1 DEF Orderly
    <3> QED BY <1>1, <1>8, <2>2, <3>1, <3>2 DEF ServerInv, PipeInOrder
  <2> QED BY <2>1, <2>2
<1> QED BY <1>1, <1>4, <1>9, NoAnswer DEF ServerInv

\* Nothing is left in the pipe when the one-shot process is tried, or the
\* server is given up.
LEMMA OneShotKeeps == ServerInv /\ (OneShotAnswers \/ OneShotFails) => ServerInv'
<1> SUFFICES ASSUME ServerInv, OneShotAnswers \/ OneShotFails PROVE ServerInv'
  OBVIOUS
<1>1. At("one shot") /\ UNCHANGED <<server, crashes, givenUp, spoilt, misled>>
  BY DEF OneShotAnswers, OneShotFails, history
<1>2. givenUp \/ server' = Absent \/ server'.out = <<>>
  BY <1>1 DEF ServerInv, PipeInOrder, At
<1>3. CASE OneShotAnswers
  <2>1. /\ memo' = memo \/ memo' = [memo EXCEPT ![call.task] = Truth[call.task]]
        /\ ranked' = [ranked EXCEPT ![call.task] = Truth[call.task]]
        /\ call' = [call EXCEPT !.at = "idle"] /\ disabled' = disabled
    BY <1>3 DEF OneShotAnswers, Remember, Answer
  <2>2. disabled' \in BOOLEAN
    BY <2>1 DEF ServerInv, ServerTypeOK
  <2>3. Answered(Truth[call.task])
    BY <1>1, <1>2, <2>1, <2>2 DEF Answered, MayBeTold
  <2> QED BY <2>3, AnswerKeeps
<1>4. CASE OneShotFails
  <2>1. /\ memo' = memo /\ ranked' = [ranked EXCEPT ![call.task] = FailedRank]
        /\ call' = [call EXCEPT !.at = "idle"] /\ disabled' \in BOOLEAN
    BY <1>4 DEF OneShotFails, Remember
  <2>2. Answered(FailedRank)
    BY <1>1, <1>2, <2>1 DEF Answered, MayBeTold
  <2> QED BY <2>2, AnswerKeeps
<1> QED BY <1>3, <1>4

LEMMA ServerInvStep == ServerInv /\ [ServerNext]_serverVars => ServerInv'
<1> SUFFICES ASSUME ServerInv, [ServerNext]_serverVars PROVE ServerInv'
  OBVIOUS
<1>1. CASE UNCHANGED serverVars
  BY <1>1 DEF serverVars, ServerInv, ServerTypeOK, MemoIsTrue, FailureNeverPrunes, PipeInOrder, At, Orderly
<1>2. CASE ServerNext
  BY <1>2, EvaluateKeeps, NewSearchKeeps, SpawnKeeps, SendKeeps, ReadLineKeeps, ReadEndKeeps,
     CrashKeeps, OneShotKeeps DEF ServerNext, Client
<1> QED BY <1>1, <1>2

-----------------------------------------------------------------------------
(* The process.                                                              *)

LEMMA ClientIsServer == (Client \/ Crash \/ NewSearch) => ServerNext
  BY DEF ServerNext

LEMMA RankedIsPortfolio == \A t : Ranked(t) => [Next]_vars
  BY DEF Ranked, Next

\* Every step of the process is a step of the portfolio, of the evaluation, of
\* both, or neither.
LEMMA RuntimeSteps == due \subseteq Tasks /\ [RuntimeNext]_runtimeVars => [Next]_vars /\ [ServerNext]_serverVars
<1> SUFFICES ASSUME due \subseteq Tasks, [RuntimeNext]_runtimeVars PROVE [Next]_vars /\ [ServerNext]_serverVars
  OBVIOUS
<1>1. CASE UNCHANGED runtimeVars
  BY <1>1 DEF runtimeVars
<1>2. CASE Begin
  BY <1>2, ClientIsServer DEF Begin, Next
<1>3. CASE Grow
  BY <1>3 DEF Grow, Next
<1>4. CASE Pass
  BY <1>4 DEF Pass, Next
<1>5. CASE Rank
  <2>1. PICK t \in due : Evaluate(t) /\ Ranked(t)
    BY <1>5 DEF Rank
  <2>2. ServerNext
    BY <2>1 DEF ServerNext
  <2> QED BY <2>1, <2>2, RankedIsPortfolio
<1>6. CASE Reply
  BY <1>6, ClientIsServer, RankedIsPortfolio DEF Reply
<1>7. CASE PlannerDies
  BY <1>7, ClientIsServer DEF PlannerDies
<1>8. CASE Over
  BY <1>8 DEF Over, Next
<1> QED BY <1>1, <1>2, <1>3, <1>4, <1>5, <1>6, <1>7, <1>8 DEF RuntimeNext, Program

\* A stage that was misled, running or ended.
SomeStageMisled == stage.misled \/ \E i \in DOMAIN ran : ran[i].misled

\* No stage is misled unless the planner is to blame.
Blamed == SomeStageMisled => spoilt \cup misled # {}

RuntimeInv == IndInv /\ ServerInv /\ due \subseteq Tasks /\ Blamed

LEMMA RuntimeInvInit == RuntimeInit => RuntimeInv
<1> SUFFICES ASSUME RuntimeInit PROVE RuntimeInv
  OBVIOUS
<1>1. Init /\ ServerInit /\ due = {}
  BY DEF RuntimeInit
<1>2. ran = <<>> /\ stage = Idle
  BY <1>1 DEF Init
<1>3. ~ stage.misled
  BY <1>2 DEF Idle
<1>4. DOMAIN ran = {}
  <2>1. ran \in Seq({}) /\ Len(ran) = 0
    BY <1>2, EmptySeq
  <2> QED BY <2>1, LenProperties
<1>5. Blamed
  BY <1>3, <1>4 DEF Blamed, SomeStageMisled
<1> QED BY <1>1, <1>5, IndInvInit, ServerInvInit DEF RuntimeInv

\* What has gone wrong is not forgotten.
LEMMA BlameStays == [ServerNext]_serverVars => spoilt \subseteq spoilt' /\ misled \subseteq misled'
<1> SUFFICES ASSUME [ServerNext]_serverVars PROVE spoilt \subseteq spoilt' /\ misled \subseteq misled'
  OBVIOUS
<1>1. CASE Send
  BY <1>1 DEF Send
<1>2. CASE ~ Send
  <2>1. spoilt' = spoilt /\ misled' = misled
    BY <1>2 DEF ServerNext, serverVars, history, NewSearch, Evaluate, Client, Spawn, ReadLine, ReadEnd,
                OneShotAnswers, OneShotFails, Crash
  <2> QED BY <2>1
<1> QED BY <1>1, <1>2

\* Only a wrong rank misleads a stage.
LEMMA NoStageMisled ==
  ASSUME IndInv,
         Translate \/ StartStage \/ StopAtDeadline \/ StopForMemory \/ Expand \/ EndStage \/ UNCHANGED vars
  PROVE  SomeStageMisled' => SomeStageMisled
<1>0. /\ stage \in [deadline : Nat \cup {None}, begun : Nat, expanded : Nat, check : Nat,
                    live : Nat, answer : Outcomes \cup {None}, misled : BOOLEAN]
  BY DEF IndInv, TypeOK
<1>1. CASE Translate \/ UNCHANGED vars
  BY <1>1 DEF Translate, vars, SomeStageMisled
<1>2. CASE StartStage
  <2>1. stage' = stage \/ ~ stage'.misled
    BY <1>2 DEF StartStage
  <2>2. ran' = ran
    BY <1>2 DEF StartStage
  <2> QED BY <2>1, <2>2 DEF SomeStageMisled
<1>3. CASE StopAtDeadline \/ StopForMemory
  <2>1. stage'.misled = stage.misled /\ ran' = ran
    BY <1>0, <1>3 DEF StopAtDeadline, StopForMemory
  <2> QED BY <2>1 DEF SomeStageMisled
<1>4. CASE Expand
  <2>1. stage'.misled = stage.misled /\ ran' = ran
    BY <1>0, <1>4 DEF Expand
  <2> QED BY <2>1 DEF SomeStageMisled
<1>5. CASE EndStage
  <2> DEFINE record == [outcome |-> stage.answer, begun |-> stage.begun, ended |-> now,
                        expanded |-> stage.expanded, peak |-> stage.live, misled |-> stage.misled]
             Records == [outcome : Outcomes, begun : Nat, ended : Nat, expanded : Nat, peak : Nat,
                         misled : BOOLEAN]
  <2>1. ran' = Append(ran, record) /\ stage' = Idle /\ stage.answer # None
    BY <1>5 DEF EndStage
  <2>2. record \in Records /\ ran \in Seq(Records)
    BY <2>1, StageFields DEF IndInv, TypeOK
  <2>3. record.misled = stage.misled
    OBVIOUS
  <2> HIDE DEF record, Records
  <2>4. /\ Len(ran') = Len(ran) + 1 /\ ran' \in Seq(Records)
        /\ \A i \in 1 .. Len(ran) : ran'[i] = ran[i]
        /\ ran'[Len(ran) + 1] = record
    BY <2>1, <2>2, AppendProperties
  <2>5. DOMAIN ran' = 1 .. Len(ran) + 1 /\ DOMAIN ran = 1 .. Len(ran) /\ Len(ran) \in Nat
    BY <2>2, <2>4, LenProperties
  <2>6. ASSUME NEW i \in DOMAIN ran', ran'[i].misled PROVE SomeStageMisled
    <3>1. CASE i = Len(ran) + 1
      BY <2>3, <2>4, <2>6, <3>1 DEF SomeStageMisled
    <3>2. CASE i # Len(ran) + 1
      <4>1. i \in DOMAIN ran /\ ran'[i] = ran[i]
        BY <2>4, <2>5, <2>6, <3>2
      <4> QED BY <2>6, <4>1 DEF SomeStageMisled
    <3> QED BY <3>1, <3>2
  <2>7. ~ stage'.misled
    BY <2>1 DEF Idle
  <2> QED BY <2>6, <2>7 DEF SomeStageMisled
<1> QED BY <1>1, <1>2, <1>3, <1>4, <1>5

\* The rank of a task misleads a stage only if the task is one of the exceptions.
LEMMA RankBlames ==
  ASSUME IndInv, Blamed, FailureNeverPrunes', NEW t \in Tasks, Ranked(t),
         spoilt \subseteq spoilt', misled \subseteq misled'
  PROVE  Blamed'
<1>1. CASE WronglyPruned(t)
  <2>1. t \in spoilt' \/ t \in misled'
    BY <1>1 DEF WronglyPruned, FailureNeverPrunes
  <2> QED BY <2>1 DEF Blamed
<1>2. CASE ~ WronglyPruned(t)
  <2>1. UNCHANGED vars
    BY <1>2 DEF Ranked
  <2> QED BY <2>1, NoStageMisled DEF Blamed
<1> QED BY <1>1, <1>2

LEMMA RuntimeInvStep == RuntimeInv /\ [RuntimeNext]_runtimeVars => RuntimeInv'
<1> SUFFICES ASSUME RuntimeInv, [RuntimeNext]_runtimeVars PROVE RuntimeInv'
  OBVIOUS
<1>1. IndInv /\ ServerInv /\ due \subseteq Tasks /\ Blamed
  BY DEF RuntimeInv
<1>2. [Next]_vars /\ [ServerNext]_serverVars
  BY <1>1, RuntimeSteps
<1>3. IndInv' /\ ServerInv'
  BY <1>1, <1>2, IndInvStep, ServerInvStep
<1>4. spoilt \subseteq spoilt' /\ misled \subseteq misled'
  BY <1>2, BlameStays
<1>5. (due \subseteq Tasks)'
  <2>1. CASE Begin \/ Grow
    <3>1. due' \in Generated
      BY <2>1 DEF Begin, Grow
    <3> QED BY <3>1 DEF Generated
  <2>2. CASE Rank
    BY <1>1, <2>2 DEF Rank
  <2>3. CASE ~ (Begin \/ Grow \/ Rank)
    <3>1. due' = due
      BY <2>3 DEF RuntimeNext, Program, Pass, Reply, PlannerDies, Over, runtimeVars
    <3> QED BY <1>1, <3>1
  <2> QED BY <2>1, <2>2, <2>3
<1>6. Blamed'
  <2>1. CASE Rank
    <3>1. PICK t \in due : Ranked(t)
      BY <2>1 DEF Rank
    <3> QED BY <1>1, <1>3, <1>4, <3>1, RankBlames DEF ServerInv
  <2>2. CASE Reply
    <3>1. Ranked(call.task) /\ call.task \in Tasks
      BY <1>1, <2>2 DEF Reply, ServerInv, ServerTypeOK
    <3> QED BY <1>1, <1>3, <1>4, <3>1, RankBlames DEF ServerInv
  <2>3. CASE ~ (Rank \/ Reply)
    <3>1. Translate \/ StartStage \/ StopAtDeadline \/ StopForMemory \/ Expand \/ EndStage \/ UNCHANGED vars
      BY <2>3 DEF RuntimeNext, Program, Begin, Grow, Pass, PlannerDies, Over, Ended, runtimeVars
    <3>2. SomeStageMisled' => SomeStageMisled
      BY <1>1, <3>1, NoStageMisled
    <3> QED BY <1>1, <1>4, <3>2 DEF Blamed
  <2> QED BY <2>1, <2>2, <2>3
<1> QED BY <1>3, <1>5, <1>6 DEF RuntimeInv

LEMMA LastOf == \A n \in Nat \ {0} : \A i \in 1 .. n : i \in 1 .. i
  OBVIOUS

LEMMA RuntimeInvHolds == RuntimeSpec => []RuntimeInv
  BY RuntimeInvInit, RuntimeInvStep, PTL DEF RuntimeSpec

(* The process is a portfolio and an evaluation: whatever order the stages *)
(* of run_portfolio, the requests of run_h_server_eval and the deaths of   *)
(* the planner come in, each does only what its own specification allows.  *)
(* What is proved of the portfolio alone holds of the process.             *)
THEOREM ProcessImplementsBoth == RuntimeSpec => Spec /\ ServerSpec
<1>1. RuntimeInit => Init /\ ServerInit
  BY DEF RuntimeInit
<1>2. RuntimeInv /\ [RuntimeNext]_runtimeVars => [Next]_vars /\ [ServerNext]_serverVars
  BY RuntimeSteps DEF RuntimeInv
<1> QED BY <1>1, <1>2, RuntimeInvHolds, PTL DEF RuntimeSpec, Spec, ServerSpec

(* run_h_server_eval and compile_rank: whenever the planner dies, cannot be *)
(* started or writes what cannot be read, and however often a request is    *)
(* repeated, a wrong value is remembered and a plan pruned only for a task  *)
(* whose own value was not a number, or that met a given-up process with    *)
(* lines unread.                                                            *)
THEOREM FailureStaysContained == RuntimeSpec => []FailureIsContained
<1>1. RuntimeInv => FailureIsContained
  BY DEF RuntimeInv, ServerInv, FailureIsContained
<1> QED BY <1>1, RuntimeInvHolds, PTL

(* A failing planner costs a solvable problem its answer only in those two *)
(* cases, in whatever stage and however the table of remembered values was *)
(* filled by the stages before.                                            *)
THEOREM AnswersAreLostToFaultsOnly == RuntimeSpec => []NoAnswerIsLost
<1>1. RuntimeInv => NoAnswerIsLost
  <2> SUFFICES ASSUME RuntimeInv, phase = "done", last = "no solution", cli.solvable
               PROVE  spoilt \cup misled # {}
    BY DEF NoAnswerIsLost
  <2>1. ran[Len(ran)].misled
    BY DEF RuntimeInv, IndInv, Truthful
  <2>2. Len(ran) \in DOMAIN ran
    <3>1. IndInv
      BY DEF RuntimeInv
    <3>2. Len(ran) = index
      BY <3>1 DEF IndInv, Turns
    <3>3. index \in 1 .. Stages /\ Stages \in Nat \ {0}
      BY <3>1, Lists, StageFields
    <3>4. DOMAIN ran = 1 .. Len(ran)
      BY <3>1, Lists
    <3>5. index \in 1 .. index
      BY <3>3, LastOf, Zenon
    <3> QED BY <3>2, <3>4, <3>5, Zenon
  <2> QED BY <2>1, <2>2 DEF RuntimeInv, Blamed, SomeStageMisled
<1> QED BY <1>1, RuntimeInvHolds, PTL
=============================================================================
