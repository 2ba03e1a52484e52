---------------------------- MODULE OrderingRows ----------------------------
(***************************************************************************)
(* The ordering collection as it is stored (src/src/orderings.rs): its     *)
(* rows live in a row table.  Each refinement reads the rows through the   *)
(* table, grows the table when the step is new, and writes the rows that   *)
(* change.  OrderingStore, whose rows are a function of the step, is the   *)
(* specification this implements.                                          *)
(***************************************************************************)
EXTENDS OrderingStore, RowTable

\* A row is the set of its 1 bits, and none is set at first.
ASSUME EmptyRowAssumption == EmptyRow = {}

VARIABLES
  high_id,  \* BinaryOrderings.high_id
  table     \* BinaryOrderings.succ

rowVars == <<ord, asserted, high_id, table>>

\* The collection as it is stored; step k has the row at index k - 1.
Read == [high |-> high_id, succ |-> [k \in 1 .. high_id |-> GetRow(table, k - 1)]]

GrownTable(high) == IF high > high_id THEN ExpandedTable(table, high) ELSE table

\* The row of step k; a step that is new has none yet.
RowBefore(k) == IF k <= high_id THEN GetRow(table, k - 1) ELSE EmptyRow

\* expanded, then a write for each row that changed.
Written(o) ==
  LET after[k \in 0 .. o.high] ==
        IF k = 0 THEN GrownTable(o.high)
        ELSE IF o.succ[k] = RowBefore(k) THEN after[k - 1]
        ELSE WriteRow(after[k - 1], k - 1, o.succ[k])
  IN  after[o.high]

Stores(o) == high_id' = o.high /\ table' = Written(o)

RowsInit == Init /\ high_id = 0 /\ table = NewTable

AddStepRows(c) == AddStep(c) /\ Stores(RefineWithStep(Read, high_id + 1, c, high_id + 1))

ReuseStepRows(s, c) == ReuseStep(s, c) /\ Stores(RefineWithStep(Read, s, c, s))

NewOrderingRows(a, b) == NewOrdering(a, b) /\ Stores(Refine(Read, a, b))

RowsNext ==
  \/ \E c \in 1 .. GoalId : AddStepRows(c)
  \/ \E s \in 0 .. GoalId, c \in 1 .. GoalId : ReuseStepRows(s, c)
  \/ \E a, b \in 0 .. GoalId : NewOrderingRows(a, b)

RowsSpec == RowsInit /\ [][RowsNext]_rowVars

(* Blocks implement rows: read through division and remainder by the block  *)
(* size, the table is an ordering collection and takes exactly its steps.   *)
(* Growing it (flat, from flat to blocked, within the last block, with a    *)
(* new block) keeps every row, adds empty rows, and a write changes one.    *)
Stored == INSTANCE OrderingStore WITH ord <- Read
ImplementsStore == Stored!Spec

=============================================================================
