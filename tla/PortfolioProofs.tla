--------------------------- MODULE PortfolioProofs ---------------------------
(***************************************************************************)
(* Proofs about the restart portfolio for every command line, grain and    *)
(* check interval, and for every point at which the model's clock stops.   *)
(*                                                                         *)
(* The inductive invariant says what is known of the stage in turn (its    *)
(* deadline and the pages its predecessors left) and of the stages that    *)
(* ended: stage i of the command line left the i-th record.                *)
(***************************************************************************)
EXTENDS Portfolio, SequenceTheorems, TLAPS

Phases == {"translate", "start", "search", "done", "aborted"}

TypeOK ==
  /\ cli \in CommandLines
  /\ now \in Nat
  /\ phase \in Phases
  /\ index \in 1 .. Stages
  /\ stage \in [deadline : Nat \cup {None}, begun : Nat, expanded : Nat, check : Nat,
                live : Nat, answer : Outcomes \cup {None}, misled : BOOLEAN]
  /\ held \in Nat
  /\ last \in Outcomes
  /\ total \in [generated : Nat, peak : Nat]
  /\ ran \in Seq([outcome : Outcomes, begun : Nat, ended : Nat, expanded : Nat, peak : Nat,
                 misled : BOOLEAN])

\* Every stage but the one in turn has left its record.
Turns == Len(ran) = IF phase = "done" THEN index ELSE index - 1

Truthful(answer, misled) == /\ answer = "no solution" => ~ cli.solvable \/ misled
                            /\ answer = "solved" => cli.solvable

\* Once the translation is over every stage of several can be evaluated.
Checked ==
  /\ phase = "translate" => cli.fdr /\ index = 1 /\ now = 0
  /\ cli.fdr /\ phase \in {"start", "search"} => Preflight
  /\ index = 1 /\ phase # "done" => total.generated = 0
  /\ phase = "aborted" => index = 1

Share == cli.stages[index].share

\* The pieces of work up to the end of stage i, and when its turn comes and it
\* ends at the latest.
Pieces(i) == IF cli.fdr THEN i + 1 ELSE i
LatestTurn(i) == Max({cli.limit, 1}) + Grain * (Pieces(i) - 1)
LatestEnd(i) == Max({cli.limit, 1}) + Grain * Pieces(i)

\* Stage i, begun at one time, has kept to its bounds at time t.
InTime(i, share, begun, expanded, t) ==
  /\ share # None => t < begun + Max({share, 1}) + Grain
  /\ cli.limit # None =>
       /\ begun < cli.limit => t < cli.limit + Grain
       /\ begun >= cli.limit => expanded = 0 /\ t <= begun + Grain
       /\ t < LatestEnd(i)

OnTurn == cli.limit # None /\ phase = "start" => now < LatestTurn(index)

\* The stage in turn, while it searches.
Running ==
  /\ stage.deadline = Earliest(Plus(stage.begun, Share), cli.limit)
  /\ stage.begun <= now
  /\ InTime(index, Share, stage.begun, stage.expanded, now)
  /\ stage.check >= CheckInterval
  /\ Truthful(stage.answer, stage.misled)
  /\ cli.limit # None /\ stage.begun >= cli.limit => stage.answer \in {None, "time limit reached"}
  /\ stage.answer = "time limit reached" => Late
  /\ stage.answer = "memory bound reached" =>
       (cli.trims => stage.live > cli.ceiling) /\ stage.expanded >= CheckInterval

\* The record of a stage that ended.
Settled(i) ==
  LET share == cli.stages[i].share
      r     == ran[i] IN
  /\ r.outcome = "time limit reached" =>
       \/ share # None /\ r.ended - r.begun >= share
       \/ cli.limit # None /\ r.ended >= cli.limit
  /\ InTime(i, share, r.begun, r.expanded, r.ended)
  /\ cli.limit # None /\ r.begun >= cli.limit => r.outcome = "time limit reached"
  /\ r.outcome = "memory bound reached" =>
       (cli.trims => r.peak > cli.ceiling) /\ r.expanded >= CheckInterval

IndInv ==
  /\ TypeOK /\ Turns /\ Checked /\ OnTurn
  /\ phase = "search" => Running
  /\ phase = "done" => Truthful(last, ran[Len(ran)].misled) /\ (EndsThePortfolio(last) \/ index = Stages)
  /\ cli.trims => held = 0
  /\ \A i \in DOMAIN ran : Settled(i)

-----------------------------------------------------------------------------
LEMMA MaxOfTwo ==
  ASSUME NEW a \in Nat, NEW b \in Nat
  PROVE  /\ Max({a, b}) \in Nat
         /\ Max({a, b}) = IF a >= b THEN a ELSE b
<1> DEFINE top(x) == x \in {a, b} /\ \A y \in {a, b} : x >= y
<1>1. Max({a, b}) = CHOOSE x \in {a, b} : \A y \in {a, b} : x >= y
  BY DEF Max
<1>2. \E x \in {a, b} : \A y \in {a, b} : x >= y
  <2>1. CASE a >= b
    BY <2>1
  <2>2. CASE b >= a
    BY <2>2
  <2> QED BY <2>1, <2>2
<1> QED BY <1>1, <1>2

LEMMA MinOfTwo ==
  ASSUME NEW a \in Nat, NEW b \in Nat
  PROVE  Min({a, b}) \in Nat /\ Min({a, b}) = IF a <= b THEN a ELSE b
<1>1. Min({a, b}) = CHOOSE x \in {a, b} : \A y \in {a, b} : x <= y
  BY DEF Min
<1>2. \E x \in {a, b} : \A y \in {a, b} : x <= y
  <2>1. CASE a <= b
    BY <2>1
  <2>2. CASE b <= a
    BY <2>2
  <2> QED BY <2>1, <2>2
<1> QED BY <1>1, <1>2

\* What the accepted command lines are made of.
LEMMA CommandLine ==
  ASSUME NEW c \in CommandLines
  PROVE  /\ Len(c.stages) \in Nat \ {0}
         /\ \A i \in 1 .. Len(c.stages) : /\ c.stages[i].share \in Nat \cup {None}
                                          /\ c.stages[i].evaluable \in BOOLEAN
         /\ c.limit \in Nat \cup {None} /\ c.ceiling \in Nat \cup {None}
         /\ c.nodes \in Nat \cup {None} /\ c.space \in Nat \cup {None}
         /\ c.fdr \in BOOLEAN /\ c.trims \in BOOLEAN /\ c.solvable \in BOOLEAN
<1>1. /\ c.stages \in Seq([share : Nat \cup {None}, evaluable : BOOLEAN, compiled : BOOLEAN]) /\ c.stages # <<>>
      /\ {c.limit, c.ceiling, c.nodes, c.space} \subseteq Nat \cup {None}
      /\ {c.fdr, c.trims, c.solvable} \subseteq BOOLEAN
  BY PortfolioAssumption
<1>2. \A i \in 1 .. Len(c.stages) : c.stages[i] \in [share : Nat \cup {None}, evaluable : BOOLEAN, compiled : BOOLEAN]
  BY <1>1, ElementOfSeq
<1>3. Len(c.stages) \in Nat \ {0}
  BY <1>1, EmptySeq
<1> QED BY <1>1, <1>2, <1>3

\* The deadline of a stage that begins at time t: the earlier of the two.
EarlierOf(d, t, share, limit) ==
  /\ d \in Nat \cup {None}
  /\ share # None => d # None /\ d <= t + share
  /\ limit # None => d # None /\ d <= limit
  /\ \/ d = None
     \/ share # None /\ d = t + share
     \/ limit # None /\ d = limit

LEMMA DeadlineOf ==
  ASSUME NEW t \in Nat, NEW share \in Nat \cup {None}, NEW limit \in Nat \cup {None}
  PROVE  EarlierOf(Earliest(Plus(t, share), limit), t, share, limit)
<1>1. None \notin Nat
  BY PortfolioAssumption
<1>2. CASE share # None /\ limit # None
  BY <1>1, <1>2, MinOfTwo DEF Earliest, Plus, EarlierOf
<1>3. CASE share = None \/ limit = None
  BY <1>1, <1>3 DEF Earliest, Plus, EarlierOf
<1> QED BY <1>2, <1>3

\* The latest turns and ends, one piece of work after the other.
LEMMA Latest ==
  ASSUME cli \in CommandLines, cli.limit # None, NEW i \in Nat \ {0}
  PROVE  /\ LatestTurn(i) \in Nat /\ LatestTurn(i) >= cli.limit /\ LatestTurn(i) >= 1
         /\ LatestEnd(i) = LatestTurn(i) + Grain
         /\ LatestTurn(i + 1) = LatestEnd(i)
         /\ cli.fdr => LatestTurn(i) >= 1 + Grain
<1> DEFINE limit == Max({cli.limit, 1})
<1>1. limit \in Nat /\ limit >= cli.limit /\ limit >= 1
  <2>1. cli.limit \in Nat /\ 1 \in Nat
    BY CommandLine
  <2> QED BY <2>1, MaxOfTwo
<1>2. Grain \in Nat
  BY PortfolioAssumption
<1>3. \A n \in Nat : Grain * n \in Nat /\ Grain * (n + 1) = Grain * n + Grain
  BY <1>2
<1>4. PICK n \in Nat : Pieces(i) = n + 1 /\ Pieces(i + 1) = n + 2 /\ (cli.fdr => n >= 1)
  <2>1. cli.fdr \in BOOLEAN
    BY CommandLine
  <2>2. CASE cli.fdr
    BY <2>2 DEF Pieces
  <2>3. CASE ~ cli.fdr
    <3>1. i - 1 \in Nat /\ Pieces(i) = (i - 1) + 1 /\ Pieces(i + 1) = (i - 1) + 2
      BY <2>3 DEF Pieces
    <3> QED BY <3>1, <2>3
  <2> QED BY <2>1, <2>2, <2>3
<1>5. /\ LatestTurn(i) = limit + Grain * n
      /\ LatestEnd(i) = limit + Grain * (n + 1)
      /\ LatestTurn(i + 1) = limit + Grain * (n + 1)
  <2>1. Pieces(i) - 1 = n /\ Pieces(i + 1) - 1 = n + 1
    BY <1>4
  <2> QED BY <1>4, <2>1 DEF LatestTurn, LatestEnd
<1>6. Grain * n \in Nat /\ Grain * (n + 1) = Grain * n + Grain
  BY <1>3
<1>7. n >= 1 => Grain * n >= Grain
  <2>1. SUFFICES ASSUME n >= 1 PROVE Grain * n >= Grain
    OBVIOUS
  <2>2. n - 1 \in Nat /\ (n - 1) + 1 = n
    BY <2>1
  <2>3. Grain * (n - 1) \in Nat /\ Grain * n = Grain * (n - 1) + Grain
    BY <1>3, <2>2
  <2> QED BY <1>2, <2>3
<1> DEFINE before == Grain * n
           after  == Grain * (n + 1)
<1>8. before \in Nat /\ after = before + Grain /\ (n >= 1 => before >= Grain)
  BY <1>6, <1>7
<1>9. LatestTurn(i) = limit + before /\ LatestEnd(i) = limit + after /\ LatestTurn(i + 1) = limit + after
  BY <1>5
<1>10. cli.limit \in Nat
  BY CommandLine
<1>11. cli.fdr => before >= Grain
  BY <1>4, <1>8
<1> HIDE DEF limit, before, after
<1> QED BY <1>1, <1>2, <1>8, <1>9, <1>10, <1>11

LEMMA IndInvInit == Init => IndInv
<1> SUFFICES ASSUME Init PROVE IndInv
  OBVIOUS
<1>1. /\ cli \in CommandLines /\ now = 0 /\ index = 1 /\ held = 0
      /\ phase \in {"translate", "start"}
      /\ stage = Idle /\ last = "no solution"
      /\ total = [generated |-> 0, peak |-> 0] /\ ran = <<>>
  BY DEF Init
<1>2. TypeOK
  <2>1. stage \in [deadline : Nat \cup {None}, begun : Nat, expanded : Nat, check : Nat,
                   live : Nat, answer : Outcomes \cup {None}, misled : BOOLEAN]
    BY <1>1 DEF Idle
  <2>2. Len(cli.stages) \in Nat \ {0}
    BY <1>1, CommandLine
  <2>3. ran \in Seq([outcome : Outcomes, begun : Nat, ended : Nat, expanded : Nat, peak : Nat,
                     misled : BOOLEAN])
    BY <1>1, EmptySeq
  <2>4. index \in 1 .. Stages /\ phase \in Phases /\ last \in Outcomes
    <3>1. phase \in Phases /\ last \in Outcomes
      BY <1>1 DEF Phases, Outcomes
    <3>2. index = 1
      BY <1>1
    <3>3. 1 \in 1 .. Len(cli.stages)
      BY <2>2
    <3> QED BY <3>1, <3>2, <3>3 DEF Stages
  <2>5. total \in [generated : Nat, peak : Nat]
    BY <1>1
  <2> QED BY <1>1, <2>1, <2>3, <2>4, <2>5 DEF TypeOK
<1>3. Checked
  <2>1. (cli.fdr => phase = "translate") /\ (phase = "translate" => cli.fdr)
    BY DEF Init
  <2> QED BY <1>1, <2>1 DEF Checked
<1>6. OnTurn
  <2>1. now = 0 /\ index = 1 /\ cli \in CommandLines
    BY <1>1
  <2>2. cli.limit # None => LatestTurn(1) \in Nat /\ LatestTurn(1) >= 1
    <3>1. 1 \in Nat \ {0}
      OBVIOUS
    <3> QED BY <2>1, <3>1, Latest
  <2>3. cli.limit # None => now < LatestTurn(index)
    BY <2>1, <2>2
  <2> QED BY <2>3, Zenon DEF OnTurn
<1>4. Len(ran) = 0 /\ DOMAIN ran = {}
  <2>1. ran \in Seq({}) /\ Len(ran) = 0
    BY <1>1, EmptySeq
  <2> QED BY <2>1, LenProperties
<1>5. Turns
  <2>1. phase # "done" /\ index = 1
    BY <1>1
  <2> QED BY <2>1, <1>4 DEF Turns
<1> QED BY <1>1, <1>2, <1>3, <1>4, <1>5, <1>6 DEF IndInv

\* The shape of the lists, as the provers need it.
LEMMA Lists ==
  ASSUME IndInv
  PROVE  /\ Stages \in Nat \ {0}
         /\ cli.limit \in Nat \cup {None} /\ cli.ceiling \in Nat \cup {None}
         /\ Share \in Nat \cup {None}
         /\ None \notin Nat /\ None \notin Outcomes
         /\ Len(ran) \in Nat /\ DOMAIN ran = 1 .. Len(ran)
         /\ Grain \in Nat \ {0} /\ CheckInterval \in Nat \ {0}
<1>1. cli \in CommandLines /\ index \in 1 .. Stages
  BY DEF IndInv, TypeOK
<1>2. Len(ran) \in Nat /\ DOMAIN ran = 1 .. Len(ran)
  BY LenProperties DEF IndInv, TypeOK
<1> QED BY <1>1, <1>2, CommandLine, PortfolioAssumption DEF Stages, Share

\* A piece of work takes at most a grain.
LEMMA Clock ==
  ASSUME IndInv, NEW t \in 1 .. Grain
  PROVE  Later(t) \in Nat /\ now <= Later(t) /\ Later(t) <= now + Grain
  BY PortfolioAssumption DEF IndInv, TypeOK, Later

LEMMA TranslateKeeps == IndInv /\ Translate => IndInv'
<1> SUFFICES ASSUME IndInv, Translate PROVE IndInv'
  OBVIOUS
<1>1. /\ phase = "translate"
      /\ phase' = (IF Preflight THEN "start" ELSE "aborted")
      /\ UNCHANGED <<cli, index, stage, held, last, total, ran>>
      /\ now' \in Nat /\ now' <= now + Grain
  BY Clock DEF Translate
<1>2. TypeOK'
  BY <1>1 DEF IndInv, TypeOK, Phases, Stages
<1>3. Turns' /\ Checked'
  BY <1>1 DEF IndInv, Turns, Checked, Preflight, Stages
<1>4. ASSUME NEW i \in DOMAIN ran' PROVE Settled(i)'
  BY <1>1, <1>4 DEF IndInv, Settled, InTime, LatestEnd, Pieces
<1>5. OnTurn'
  <2>1. now = 0 /\ index = 1 /\ cli \in CommandLines /\ Grain \in Nat
    BY <1>1, PortfolioAssumption DEF IndInv, Checked, TypeOK
  <2>2. cli.fdr
    BY <1>1 DEF IndInv, Checked
  <2>3. cli.limit # None => LatestTurn(index) \in Nat /\ LatestTurn(index) >= 1 + Grain
    BY <2>1, <2>2, Latest
  <2> QED BY <1>1, <2>1, <2>3 DEF OnTurn, LatestTurn, Pieces
<1> QED BY <1>1, <1>2, <1>3, <1>4, <1>5 DEF IndInv

LEMMA StartStageKeeps == IndInv /\ StartStage => IndInv'
<1> SUFFICES ASSUME IndInv, StartStage PROVE IndInv'
  OBVIOUS
<1> USE Lists
<1>1. /\ phase = "start"
      /\ UNCHANGED <<cli, index, held, last, total, ran>>
  BY DEF StartStage
<1>2. ASSUME NEW i \in DOMAIN ran' PROVE Settled(i)'
  BY <1>1, <1>2 DEF IndInv, Settled, InTime, LatestEnd, Pieces
<1>3. CASE cli.fdr /\ ~ cli.stages[index].evaluable
  <2>1. phase' = "aborted" /\ UNCHANGED <<now, stage>>
    BY <1>3 DEF StartStage
  <2>2. TypeOK'
    BY <1>1, <2>1 DEF IndInv, TypeOK, Phases, Stages
  <2>3. index = 1
    <3>1. Stages > 1 => \A i \in 1 .. Stages : cli.stages[i].evaluable
      BY <1>1, <1>3 DEF IndInv, Checked, Preflight
    <3>2. index \in 1 .. Stages
      BY DEF IndInv, TypeOK
    <3> QED BY <1>3, <3>1, <3>2
  <2>4. Turns' /\ Checked'
    BY <1>1, <2>1, <2>3 DEF IndInv, Turns, Checked
  <2> QED BY <1>1, <1>2, <2>1, <2>2, <2>4 DEF IndInv, OnTurn
<1>4. CASE ~ (cli.fdr /\ ~ cli.stages[index].evaluable)
  <2>1. /\ phase' = "search"
        /\ now' \in Nat /\ now <= now' /\ now' <= now + Grain
        /\ stage' = [deadline |-> StageDeadline(cli.stages[index], now), begun |-> now,
                     expanded |-> 0, check |-> CheckInterval, live |-> 1, answer |-> None,
                     misled |-> FALSE]
    BY <1>4, Clock DEF StartStage
  <2> DEFINE d == StageDeadline(cli.stages[index], now)
  <2>2. d = Earliest(Plus(now, Share), cli.limit) /\ d \in Nat \cup {None}
    <3>1. now \in Nat
      BY DEF IndInv, TypeOK
    <3>2. EarlierOf(Earliest(Plus(now, Share), cli.limit), now, Share, cli.limit)
      BY <3>1, DeadlineOf
    <3> QED BY <3>2 DEF EarlierOf, StageDeadline, Share
  <2> HIDE DEF d
  <2>3. TypeOK'
    BY <1>1, <2>1, <2>2 DEF IndInv, TypeOK, Phases, Stages, d
  <2>4. Turns' /\ Checked'
    BY <1>1, <2>1 DEF IndInv, Turns, Checked, Preflight, Stages
  <2>5. InTime(index, Share, now, 0, now')
    <3>1. now \in Nat /\ index \in 1 .. Stages /\ cli \in CommandLines
      BY DEF IndInv, TypeOK
    <3>2. Share # None => Max({Share, 1}) \in Nat /\ Max({Share, 1}) >= 1
      BY MaxOfTwo
    <3>3. cli.limit # None => now' < LatestEnd(index)
      <4>1. SUFFICES ASSUME cli.limit # None PROVE now' < LatestEnd(index)
        OBVIOUS
      <4>2. now < LatestTurn(index)
        BY <1>1, <4>1 DEF IndInv, OnTurn
      <4>3. index \in Nat \ {0}
        BY <3>1
      <4>4. LatestTurn(index) \in Nat /\ LatestEnd(index) = LatestTurn(index) + Grain
        BY <3>1, <4>1, <4>3, Latest
      <4> QED BY <2>1, <3>1, <4>2, <4>4
    <3>4. Share # None => now' < now + Max({Share, 1}) + Grain
      BY <2>1, <3>1, <3>2
    <3>5. cli.limit # None => (now < cli.limit => now' < cli.limit + Grain) /\ now' <= now + Grain
      BY <2>1, <3>1
    <3> QED BY <3>3, <3>4, <3>5 DEF InTime
  <2>6. Running'
    <3>1. /\ stage'.deadline = d /\ stage'.begun = now /\ stage'.check = CheckInterval
          /\ stage'.answer = None /\ stage'.expanded = 0 /\ stage'.misled = FALSE
      BY <2>1 DEF d
    <3>2. InTime(index, Share, stage.begun, stage.expanded, now)'
      BY <1>1, <2>5, <3>1 DEF Share, InTime, LatestEnd, Pieces
    <3>3. /\ None # "no solution" /\ None # "solved" /\ None # "time limit reached"
          /\ None # "memory bound reached"
      BY DEF Outcomes
    <3>4. stage'.deadline = Earliest(Plus(stage.begun, Share), cli.limit)'
      BY <1>1, <2>2, <3>1 DEF Share, Earliest, Plus
    <3>5. /\ Truthful(stage.answer, stage.misled)'
          /\ stage'.answer \in {None, "time limit reached"}
          /\ stage'.check >= CheckInterval
          /\ stage'.answer # "time limit reached" /\ stage'.answer # "memory bound reached"
      <4>1. CheckInterval >= CheckInterval
        OBVIOUS
      <4> QED BY <3>1, <3>3, <4>1, Zenon DEF Truthful
    <3> QED BY <2>1, <3>1, <3>2, <3>4, <3>5 DEF Running
  <2> QED BY <1>1, <1>2, <2>1, <2>3, <2>4, <2>6 DEF IndInv, OnTurn
<1> QED BY <1>3, <1>4

\* What TypeOK says of the stage in turn, field by field.
LEMMA StageFields ==
  ASSUME IndInv
  PROVE  /\ now \in Nat /\ held \in Nat /\ index \in 1 .. Stages
         /\ stage.deadline \in Nat \cup {None} /\ stage.begun \in Nat
         /\ stage.expanded \in Nat /\ stage.check \in Nat /\ stage.live \in Nat
         /\ stage.answer \in Outcomes \cup {None} /\ stage.misled \in BOOLEAN
         /\ total.generated \in Nat /\ total.peak \in Nat
         /\ Resident \in Nat /\ (cli.trims => Resident = stage.live)
<1>1. /\ now \in Nat /\ held \in Nat /\ index \in 1 .. Stages
      /\ stage.deadline \in Nat \cup {None} /\ stage.begun \in Nat
      /\ stage.expanded \in Nat /\ stage.check \in Nat /\ stage.live \in Nat
      /\ stage.answer \in Outcomes \cup {None} /\ stage.misled \in BOOLEAN
      /\ total.generated \in Nat /\ total.peak \in Nat
  BY DEF IndInv, TypeOK
<1>2. cli.trims => held = 0
  BY DEF IndInv
<1> QED BY <1>1, <1>2, MaxOfTwo DEF Resident

\* A step that only writes to the stage in turn leaves the rest as it was.
LEMMA StageStep ==
  ASSUME IndInv, phase = "search",
         UNCHANGED <<cli, phase, index, held, last, total, ran>>,
         now' \in Nat, Running',
         stage' \in [deadline : Nat \cup {None}, begun : Nat, expanded : Nat, check : Nat,
                    live : Nat, answer : Outcomes \cup {None}, misled : BOOLEAN]
  PROVE  IndInv'
<1>1. TypeOK'
  BY DEF IndInv, TypeOK, Stages
<1>2. Turns' /\ Checked'
  BY DEF IndInv, Turns, Checked, Preflight, Stages
<1>3. ASSUME NEW i \in DOMAIN ran' PROVE Settled(i)'
  BY <1>3 DEF IndInv, Settled, InTime, LatestEnd, Pieces
<1> QED BY <1>1, <1>2, <1>3 DEF IndInv, OnTurn

\* Before its deadline a stage is within its share and the limit, and it began
\* within the limit.
LEMMA NotLate ==
  ASSUME IndInv, phase = "search", ~ Late
  PROVE  /\ Share # None => now < stage.begun + Share
         /\ cli.limit # None => now < cli.limit /\ stage.begun < cli.limit
<1>1. /\ now \in Nat /\ stage.begun \in Nat /\ stage.deadline \in Nat \cup {None}
      /\ Share \in Nat \cup {None} /\ cli.limit \in Nat \cup {None} /\ None \notin Nat
  BY Lists, StageFields
<1>2. stage.deadline = None \/ now < stage.deadline
  BY <1>1 DEF Late
<1>3. /\ stage.deadline = Earliest(Plus(stage.begun, Share), cli.limit)
      /\ stage.begun <= now
  BY DEF IndInv, Running
<1>4. EarlierOf(stage.deadline, stage.begun, Share, cli.limit)
  BY <1>1, <1>3, DeadlineOf
<1>5. Share # None => stage.deadline # None /\ stage.deadline <= stage.begun + Share
  BY <1>4 DEF EarlierOf
<1>6. cli.limit # None => stage.deadline # None /\ stage.deadline <= cli.limit
  BY <1>4 DEF EarlierOf
<1> QED BY <1>1, <1>2, <1>3, <1>5, <1>6

LEMMA StopKeeps == IndInv /\ (StopAtDeadline \/ StopForMemory) => IndInv'
<1> SUFFICES ASSUME IndInv, StopAtDeadline \/ StopForMemory PROVE IndInv'
  OBVIOUS
<1> USE Lists, StageFields
<1> DEFINE answer == IF Late THEN "time limit reached" ELSE "memory bound reached"
<1>1. /\ phase = "search"
      /\ UNCHANGED <<cli, phase, index, held, last, total, ran>> /\ UNCHANGED now
      /\ stage' = [stage EXCEPT !.answer = answer]
      /\ ~ Late => Resident > cli.ceiling /\ DueForMemory
  BY DEF StopAtDeadline, StopForMemory, Searching
<1>2. answer \in Outcomes /\ Truthful(answer, stage.misled)
  BY DEF Outcomes, Truthful
<1>3. answer = "memory bound reached" => ~ Late
  OBVIOUS
<1>4. answer = "time limit reached" => Late
  OBVIOUS
<1> HIDE DEF answer
<1>5. stage' \in [deadline : Nat \cup {None}, begun : Nat, expanded : Nat, check : Nat,
                 live : Nat, answer : Outcomes \cup {None}, misled : BOOLEAN]
  BY <1>1, <1>2 DEF IndInv, TypeOK
<1>6. /\ stage'.deadline = stage.deadline /\ stage'.begun = stage.begun
      /\ stage'.check = stage.check /\ stage'.live = stage.live
      /\ stage'.expanded = stage.expanded /\ stage'.answer = answer
      /\ stage'.misled = stage.misled
  BY <1>1 DEF IndInv, TypeOK
<1>7. Running
  BY <1>1 DEF IndInv
<1>8. /\ (stage.deadline = Earliest(Plus(stage.begun, Share), cli.limit))'
      /\ InTime(index, Share, stage.begun, stage.expanded, now)'
      /\ (stage.check >= CheckInterval)' /\ (stage.begun <= now)'
  BY <1>1, <1>6, <1>7 DEF Running, Earliest, Plus, Share, InTime, LatestEnd, Pieces
<1>13. (cli.limit # None /\ stage.begun >= cli.limit => stage.answer = "time limit reached")'
  <2>1. ~ Late /\ cli.limit # None => stage.begun < cli.limit
    BY <1>1, NotLate
  <2>2. Late => answer = "time limit reached"
    BY DEF answer
  <2>3. stage.begun < cli.limit => ~ (stage.begun >= cli.limit) \/ cli.limit = None
    BY StageFields
  <2> QED BY <1>1, <1>6, <2>1, <2>2, <2>3
<1>9. Truthful(stage.answer, stage.misled)'
  BY <1>1, <1>2, <1>6 DEF Truthful
<1>10. stage'.answer = "time limit reached" => Late'
  BY <1>1, <1>4, <1>6 DEF Late
<1>11. stage'.answer = "memory bound reached" =>
         (cli'.trims => stage'.live > cli'.ceiling) /\ stage'.expanded >= CheckInterval
  <2> SUFFICES ASSUME ~ Late
               PROVE  (cli.trims => stage.live > cli.ceiling) /\ stage.expanded >= CheckInterval
    BY <1>1, <1>3, <1>6
  <2>1. stage.expanded >= stage.check /\ stage.check >= CheckInterval
    BY <1>1, <1>7 DEF DueForMemory, Running
  <2>2. Resident > cli.ceiling
    BY <1>1
  <2> QED BY <2>1, <2>2
<1>12. Running'
  BY <1>8, <1>9, <1>10, <1>11, <1>13 DEF Running
<1> QED BY <1>1, <1>5, <1>12, StageStep

LEMMA MisleadKeeps == IndInv /\ Mislead => IndInv'
<1> SUFFICES ASSUME IndInv, Mislead PROVE IndInv'
  OBVIOUS
<1>1. /\ phase = "search" /\ stage.answer = None
      /\ UNCHANGED <<cli, phase, index, held, last, total, ran>> /\ UNCHANGED now
      /\ stage' = [stage EXCEPT !.misled = TRUE]
  BY DEF Mislead, Searching
<1>2. /\ stage' \in [deadline : Nat \cup {None}, begun : Nat, expanded : Nat, check : Nat,
                     live : Nat, answer : Outcomes \cup {None}, misled : BOOLEAN]
      /\ stage'.deadline = stage.deadline /\ stage'.begun = stage.begun
      /\ stage'.check = stage.check /\ stage'.live = stage.live
      /\ stage'.expanded = stage.expanded /\ stage'.answer = stage.answer
  BY <1>1 DEF IndInv, TypeOK
<1>3. Running
  BY <1>1 DEF IndInv
<1>4. /\ None # "no solution" /\ None # "solved"
      /\ None # "time limit reached" /\ None # "memory bound reached"
  BY Lists DEF Outcomes
<1>5. Truthful(stage.answer, stage.misled)'
  BY <1>1, <1>2, <1>4 DEF Truthful
<1>6. Running'
  BY <1>1, <1>2, <1>3, <1>4, <1>5 DEF Running, Share, InTime, LatestEnd, Pieces, Earliest, Plus
<1> QED BY <1>1, <1>2, <1>6, Lists, StageFields, StageStep DEF IndInv, TypeOK

LEMMA ExpandKeeps == IndInv /\ Expand => IndInv'
<1> SUFFICES ASSUME IndInv, Expand PROVE IndInv'
  OBVIOUS
<1>0. /\ now \in Nat /\ stage.begun \in Nat /\ stage.expanded \in Nat /\ stage.live \in Nat
      /\ stage.check \in Nat /\ Grain \in Nat
  BY Lists, StageFields
<1>a. /\ Share \in Nat \cup {None} /\ cli.limit \in Nat \cup {None} /\ None \notin Nat
      /\ CheckInterval \in Nat
  BY Lists
<1>1. /\ phase = "search" /\ ~ Late /\ stage.answer = None
      /\ UNCHANGED <<cli, phase, index, held, last, total, ran>>
  BY DEF Expand, Searching
<1>2. PICK t \in 1 .. Grain, pages \in 0 .. 1, answer \in Answers(stage.expanded + 1) :
        /\ now' = Later(t)
        /\ stage' = [stage EXCEPT
                       !.expanded = Min({@ + 1, MaxTime}), !.live = Min({@ + pages, MaxPages}),
                       !.answer = answer,
                       !.check = IF DueForMemory THEN stage.expanded + CheckInterval ELSE @]
  BY DEF Expand
<1>3. now' \in Nat /\ now <= now' /\ now' <= now + Grain
  BY <1>2, Clock, Lists
<1>4. /\ answer \in Outcomes \cup {None}
      /\ Truthful(answer, stage.misled)
      /\ answer # "time limit reached" /\ answer # "memory bound reached"
  <2>1. answer \in {None, "limit reached"} \cup Found
    BY <1>2 DEF Answers
  <2>2. None # "time limit reached" /\ None # "memory bound reached"
        /\ None # "solved" /\ None # "no solution"
    BY Lists DEF Outcomes
  <2>3. CASE answer = None
    BY <2>2, <2>3 DEF Truthful
  <2>4. CASE answer = "limit reached"
    BY <2>4 DEF Truthful, Outcomes
  <2>5. CASE answer \in Found
    BY <2>5 DEF Found, Truthful, Outcomes
  <2> QED BY <2>1, <2>3, <2>4, <2>5
<1>5. /\ Min({stage.expanded + 1, MaxTime}) \in Nat
      /\ Min({stage.live + pages, MaxPages}) \in Nat
  <2>1. stage.expanded + 1 \in Nat /\ stage.live + pages \in Nat /\ MaxTime \in Nat /\ MaxPages \in Nat
    BY <1>0, PortfolioAssumption
  <2> QED BY <2>1, MinOfTwo
<1> DEFINE check == IF DueForMemory THEN stage.expanded + CheckInterval ELSE stage.check
<1>6. Running
  BY <1>1 DEF IndInv
<1>7. check \in Nat /\ check >= CheckInterval
  <2>1. stage.check >= CheckInterval
    BY <1>6 DEF Running
  <2> QED BY <1>0, <1>a, <2>1
<1> HIDE DEF check
<1>8. stage' = [stage EXCEPT !.expanded = Min({stage.expanded + 1, MaxTime}),
                             !.live = Min({stage.live + pages, MaxPages}),
                             !.answer = answer, !.check = check]
  BY <1>2 DEF check
<1>9. /\ stage' \in [deadline : Nat \cup {None}, begun : Nat, expanded : Nat, check : Nat,
                     live : Nat, answer : Outcomes \cup {None}, misled : BOOLEAN]
      /\ stage'.deadline = stage.deadline /\ stage'.begun = stage.begun
      /\ stage'.check = check /\ stage'.answer = answer /\ stage'.misled = stage.misled
  BY <1>4, <1>5, <1>7, <1>8 DEF IndInv, TypeOK
<1>10. (stage.deadline = Earliest(Plus(stage.begun, Share), cli.limit))'
  BY <1>1, <1>6, <1>9 DEF Running, Earliest, Plus, Share
<1>11. /\ Share # None => now < stage.begun + Share
       /\ cli.limit # None => now < cli.limit /\ stage.begun < cli.limit
  BY <1>1, NotLate
<1>12. InTime(index, Share, stage.begun, stage.expanded, now)'
  <2>1. Share # None => now' < stage.begun + Max({Share, 1}) + Grain
    <3> SUFFICES ASSUME Share # None PROVE now' < stage.begun + Max({Share, 1}) + Grain
      OBVIOUS
    <3>1. Share \in Nat /\ 1 \in Nat
      BY <1>a
    <3>2. Max({Share, 1}) \in Nat /\ Max({Share, 1}) >= Share
      BY <3>1, MaxOfTwo
    <3> QED BY <1>0, <1>3, <1>11, <3>1, <3>2
  <2>2. cli.limit # None => now' < cli.limit + Grain /\ now' < LatestEnd(index)
    <3> SUFFICES ASSUME cli.limit # None
                 PROVE  now' < cli.limit + Grain /\ now' < LatestEnd(index)
      OBVIOUS
    <3>1. index \in Nat \ {0} /\ cli \in CommandLines
      BY Lists DEF IndInv, TypeOK
    <3>2. /\ LatestTurn(index) \in Nat /\ LatestTurn(index) >= cli.limit
          /\ LatestEnd(index) = LatestTurn(index) + Grain
      BY <3>1, Latest
    <3>3. cli.limit \in Nat
      BY <1>a
    <3> QED BY <1>0, <1>3, <1>11, <3>2, <3>3
  <2>3. cli.limit # None => ~ (stage.begun >= cli.limit)
    BY <1>0, <1>a, <1>11
  <2>4. /\ cli' = cli /\ index' = index /\ stage'.begun = stage.begun
        /\ Share' = Share /\ LatestEnd(index)' = LatestEnd(index)
    BY <1>1, <1>9 DEF Share, LatestEnd, Pieces
  <2> QED BY <2>1, <2>2, <2>3, <2>4 DEF InTime
<1>13. Truthful(stage.answer, stage.misled)'
  BY <1>1, <1>4, <1>9 DEF Truthful
<1>15. (cli.limit # None => ~ (stage.begun >= cli.limit))' /\ (stage.begun <= now)'
  <2>1. stage.begun <= now
    BY <1>6 DEF Running
  <2>2. cli.limit # None => ~ (stage.begun >= cli.limit)
    BY <1>0, <1>a, <1>11
  <2> QED BY <1>0, <1>1, <1>3, <1>9, <2>1, <2>2
<1>14. Running'
  BY <1>4, <1>7, <1>9, <1>10, <1>12, <1>13, <1>15 DEF Running
<1> QED BY <1>1, <1>3, <1>9, <1>14, StageStep

LEMMA EndStageKeeps == IndInv /\ EndStage => IndInv'
<1> SUFFICES ASSUME IndInv, EndStage PROVE IndInv'
  OBVIOUS
<1>0. /\ now \in Nat /\ stage.begun \in Nat /\ stage.expanded \in Nat /\ stage.live \in Nat
      /\ index \in 1 .. Stages /\ Stages \in Nat /\ held \in Nat /\ Resident \in Nat
      /\ total.generated \in Nat /\ total.peak \in Nat
  BY Lists, StageFields
<1>a. Share \in Nat \cup {None} /\ cli.limit \in Nat \cup {None} /\ None \notin Nat
  BY Lists
<1> DEFINE record == [outcome |-> stage.answer, begun |-> stage.begun, ended |-> now,
                      expanded |-> stage.expanded, peak |-> stage.live, misled |-> stage.misled]
           Records == [outcome : Outcomes, begun : Nat, ended : Nat, expanded : Nat, peak : Nat,
                       misled : BOOLEAN]
<1>1. /\ phase = "search" /\ stage.answer # None
      /\ total' = AddStats(total, stage) /\ last' = stage.answer
      /\ ran' = Append(ran, record) /\ stage' = Idle
      /\ UNCHANGED <<cli, now>>
  BY DEF EndStage
<1>2. \/ /\ EndsThePortfolio(stage.answer) \/ index = Stages
         /\ phase' = "done" /\ index' = index /\ held' = held
      \/ /\ ~ (EndsThePortfolio(stage.answer) \/ index = Stages)
         /\ phase' = "start" /\ index' = index + 1 /\ held' = HeldBetweenStages(Resident)
  BY DEF EndStage, IsLast
<1>3. Running
  BY <1>1 DEF IndInv
<1>4. record \in Records /\ stage.answer \in Outcomes
  BY <1>1, StageFields
<1>5. ran \in Seq(Records) /\ Len(ran) = index - 1
  BY <1>1 DEF IndInv, TypeOK, Turns
<1> HIDE DEF Records
<1>6. /\ ran' \in Seq(Records) /\ Len(ran') = index
      /\ DOMAIN ran' = 1 .. index
      /\ \A i \in 1 .. index - 1 : ran'[i] = ran[i]
      /\ ran'[index] = record
  <2>1. /\ ran' \in Seq(Records) /\ Len(ran') = Len(ran) + 1
        /\ \A i \in 1 .. Len(ran) : ran'[i] = ran[i]
        /\ ran'[Len(ran) + 1] = record
    BY <1>1, <1>4, <1>5, AppendProperties, LenProperties
  <2>2. DOMAIN ran' = 1 .. Len(ran')
    BY <2>1, LenProperties
  <2> QED BY <1>0, <1>5, <2>1, <2>2
<1>7. total'.generated \in Nat /\ total'.peak \in Nat /\ total' \in [generated : Nat, peak : Nat]
  <2>1. Max({total.peak, stage.live}) \in Nat
    BY <1>0, MaxOfTwo
  <2> QED BY <1>0, <1>1, <2>1 DEF AddStats
<1>8. /\ phase' \in Phases /\ index' \in 1 .. Stages /\ held' \in Nat
      /\ cli.trims => held' = 0
  <2>1. cli.trims => held = 0
    BY DEF IndInv
  <2> QED BY <1>0, <1>2, <2>1 DEF Phases, HeldBetweenStages
<1>9. TypeOK'
  <2>1. stage' \in [deadline : Nat \cup {None}, begun : Nat, expanded : Nat, check : Nat,
                   live : Nat, answer : Outcomes \cup {None}, misled : BOOLEAN]
    BY <1>1 DEF Idle
  <2>2. cli' \in CommandLines /\ now' \in Nat
    BY <1>1 DEF IndInv, TypeOK
  <2>3. index' \in 1 .. Stages'
    BY <1>1, <1>8 DEF Stages
  <2> QED BY <1>1, <1>4, <1>6, <1>7, <1>8, <2>1, <2>2, <2>3 DEF TypeOK, Records
<1>10. Turns' /\ Checked'
  <2>1. Turns'
    BY <1>0, <1>2, <1>6 DEF Turns
  <2>2. (cli.fdr => Preflight) /\ Preflight' = Preflight
    BY <1>1 DEF IndInv, Checked, Preflight, Stages
  <2> QED BY <1>0, <1>1, <1>2, <2>1, <2>2 DEF Checked
<1>11. phase' = "done" => /\ Truthful(last, ran[Len(ran)].misled)'
                          /\ EndsThePortfolio(last') \/ index' = Stages'
  <2>1. ran'[Len(ran')].misled = stage.misled
    BY <1>6
  <2>2. Truthful(stage.answer, stage.misled)
    BY <1>3 DEF Running
  <2> QED BY <1>1, <1>2, <2>1, <2>2 DEF Truthful, Stages
<1>13. OnTurn'
  <2> SUFFICES ASSUME cli.limit # None, phase' = "start" PROVE now < LatestTurn(index + 1)
    BY <1>1, <1>2 DEF OnTurn, LatestTurn, Pieces
  <2>1. now < LatestEnd(index)
    BY <1>3 DEF Running, InTime
  <2>2. index \in Nat \ {0} /\ cli \in CommandLines
    BY <1>0 DEF IndInv, TypeOK
  <2> QED BY <2>1, <2>2, Latest
<1>12. ASSUME NEW i \in DOMAIN ran' PROVE Settled(i)'
  <2>1. CASE i # index
    <3>1. Settled(i)
      BY <1>5, <1>6, <1>12, <2>1 DEF IndInv
    <3>2. ran'[i] = ran[i]
      <4>1. i \in 1 .. index - 1
        BY <1>0, <1>6, <1>12, <2>1
      <4> QED BY <1>6, <4>1
    <3> QED BY <1>1, <3>1, <3>2 DEF Settled, InTime, LatestEnd, Pieces
  <2>2. CASE i = index
    <3>1. /\ ran'[i].outcome = stage.answer /\ ran'[i].begun = stage.begun
          /\ ran'[i].ended = now /\ ran'[i].expanded = stage.expanded
          /\ ran'[i].peak = stage.live
      BY <1>6, <2>2
    <3>2. stage.answer = "time limit reached" =>
            \/ Share # None /\ now - stage.begun >= Share
            \/ cli.limit # None /\ now >= cli.limit
      <4>0. SUFFICES ASSUME stage.answer = "time limit reached"
                     PROVE  \/ Share # None /\ now - stage.begun >= Share
                            \/ cli.limit # None /\ now >= cli.limit
        OBVIOUS
      <4>1. stage.deadline # None /\ now >= stage.deadline
        BY <1>3, <4>0 DEF Running, Late
      <4>2. stage.deadline = Earliest(Plus(stage.begun, Share), cli.limit)
        BY <1>3 DEF Running
      <4>3. \/ Share # None /\ stage.deadline = stage.begun + Share
            \/ cli.limit # None /\ stage.deadline = cli.limit
        <5>1. EarlierOf(stage.deadline, stage.begun, Share, cli.limit)
          BY <1>0, <1>a, <4>2, DeadlineOf
        <5> QED BY <4>1, <5>1 DEF EarlierOf
      <4>4. ASSUME NEW x \in Nat, now >= stage.begun + x PROVE now - stage.begun >= x
        BY <1>0, <4>4
      <4> QED BY <1>a, <4>1, <4>3, <4>4
    <3>3. /\ InTime(index, Share, stage.begun, stage.expanded, now)
          /\ cli.limit # None /\ stage.begun >= cli.limit => stage.answer = "time limit reached"
      BY <1>1, <1>3 DEF Running
    <3>4. stage.answer = "memory bound reached" =>
            (cli.trims => stage.live > cli.ceiling) /\ stage.expanded >= CheckInterval
      BY <1>3 DEF Running
    <3>5. cli'.stages[i].share = Share /\ cli' = cli
      BY <1>1, <2>2 DEF Share
    <3> QED BY <2>2, <3>1, <3>2, <3>3, <3>4, <3>5 DEF Settled, InTime, LatestEnd, Pieces
  <2> QED BY <2>1, <2>2
<1> QED BY <1>1, <1>2, <1>8, <1>9, <1>10, <1>11, <1>12, <1>13 DEF IndInv

LEMMA IndInvStep == IndInv /\ [Next]_vars => IndInv'
<1> SUFFICES ASSUME IndInv, [Next]_vars PROVE IndInv'
  OBVIOUS
<1>1. CASE UNCHANGED vars
  <2> USE <1>1 DEF vars
  <2>1. TypeOK' /\ Turns' /\ Checked'
    BY DEF IndInv, TypeOK, Turns, Checked, Stages, Preflight
  <2>3. phase' = "search" => Running'
    BY DEF IndInv, Running, Share, InTime, Truthful, Late, Earliest, Plus, LatestEnd, Pieces
  <2>2. ASSUME NEW i \in DOMAIN ran' PROVE Settled(i)'
    BY <2>2 DEF IndInv, Settled, InTime, LatestEnd, Pieces
  <2>4. OnTurn'
    BY DEF IndInv, OnTurn, LatestTurn, Pieces
  <2> QED BY <2>1, <2>2, <2>3, <2>4 DEF IndInv, Truthful, Stages
<1>2. CASE Translate
  BY <1>2, TranslateKeeps
<1>3. CASE StartStage
  BY <1>3, StartStageKeeps
<1>4. CASE StopAtDeadline \/ StopForMemory
  BY <1>4, StopKeeps
<1>5. CASE Expand
  BY <1>5, ExpandKeeps
<1>6. CASE EndStage
  BY <1>6, EndStageKeeps
<1>7. CASE Mislead
  BY <1>7, MisleadKeeps
<1> QED BY <1>1, <1>2, <1>3, <1>4, <1>5, <1>6, <1>7 DEF Next, Ended

-----------------------------------------------------------------------------
(* However many stages run out of time, nodes or memory, the portfolio     *)
(* answers "no solution" only for a problem without one, or when its last  *)
(* stage was misled, and "solved" only for a solvable one.                 *)
THEOREM AnswerStaysTrue == Spec => []AnswerIsTrue
<1>1. IndInv => AnswerIsTrue
  BY DEF IndInv, AnswerIsTrue, Truthful
<1> QED BY IndInvInit, IndInvStep, <1>1, PTL DEF Spec

LEMMA SettledStages == IndInv => ShareIsHonoured /\ StageStopsInTime /\ MemoryStopIsItsOwn
<1> SUFFICES ASSUME IndInv, NEW i \in DOMAIN ran
             PROVE  LET share == cli.stages[i].share
                        r     == ran[i] IN
                    /\ r.outcome = "time limit reached" =>
                         \/ share # None /\ r.ended - r.begun >= share
                         \/ cli.limit # None /\ r.ended >= cli.limit
                    /\ InTime(i, share, r.begun, r.expanded, r.ended)
                    /\ cli.limit # None /\ r.begun >= cli.limit => r.outcome = "time limit reached"
                    /\ r.outcome = "memory bound reached" =>
                         (cli.trims => r.peak > cli.ceiling) /\ r.expanded >= CheckInterval
  BY DEF ShareIsHonoured, StageStopsInTime, MemoryStopIsItsOwn, InTime, LatestEnd, Pieces
<1> QED BY DEF IndInv, Settled

(* No stage is stopped by another stage's clock or pages, and none outstays *)
(* its share by more than one uninterruptible piece of work.  A stage that *)
(* begins within the problem's limit outlives it by less than one piece; a *)
(* stage whose turn comes later expands nothing; and what all of them add  *)
(* to the limit is bounded by one piece each.  A portfolio that gives up   *)
(* has given every stage its turn, and a run that aborts has searched      *)
(* nothing.                                                                *)
THEOREM StopsStayEarned == Spec => []StopsAreEarned
<1>1. IndInv => StopsAreEarned
  <2> SUFFICES ASSUME IndInv PROVE StopsAreEarned
    OBVIOUS
  <2>1. GivesUpLast
    BY DEF IndInv, GivesUpLast, Turns, EndsThePortfolio
  <2>2. AbortSpendsNothing
    <3> SUFFICES ASSUME phase = "aborted" PROVE ran = <<>> /\ total.generated = 0
      BY DEF AbortSpendsNothing
    <3>1. index = 1 /\ total.generated = 0 /\ Len(ran) = 0
      BY DEF IndInv, Checked, Turns
    <3> QED BY <3>1, EmptySeq DEF IndInv, TypeOK
  <2> QED BY <2>1, <2>2, SettledStages DEF StopsAreEarned
<1> QED BY IndInvInit, IndInvStep, <1>1, PTL DEF Spec

=============================================================================
