------------------------------ MODULE RowTable ------------------------------
(***************************************************************************)
(* The layout of the ordering rows (src/src/orderings.rs, RowTable): one   *)
(* flat vector while there are at most BlockSize rows, after that a        *)
(* directory of blocks that plans share.  All blocks but the last are      *)
(* full.  Operators on a table                                             *)
(*                                                                         *)
(*    [layout |-> "flat", rows]   or   [layout |-> "blocked", blocks]      *)
(*                                                                         *)
(* with the code's indices, from 0.                                        *)
(***************************************************************************)
EXTENDS Integers, Sequences

CONSTANTS EmptyRow,   \* Row::default()
          BlockSize,  \* ROW_BLOCK_SIZE, 32 in the code
          NotThere    \* the answer None, no row

ASSUME RowTableAssumption == BlockSize \in Nat \ {0} /\ NotThere # EmptyRow

Flat(rows)      == [layout |-> "flat", rows |-> rows]
Blocked(blocks) == [layout |-> "blocked", blocks |-> blocks]
IsFlat(t) == t.layout = "flat"

NewTable == Flat(<<>>)

Empties(n) == [k \in 1 .. n |-> EmptyRow]

LeastOf(a, b) == IF a < b THEN a ELSE b

\* Row at index i, None past the end.
GetRow(t, i) ==
  IF IsFlat(t)
  THEN IF i < Len(t.rows) THEN t.rows[i + 1] ELSE NotThere
  ELSE LET b == i \div BlockSize
           k == i % BlockSize
       IN  IF b < Len(t.blocks) /\ k < Len(t.blocks[b + 1])
           THEN t.blocks[b + 1][k + 1]
           ELSE NotThere

\* Mutant of OldBlocks: the flat vector is left behind.
OldBlocks_Blocked(t) == IF IsFlat(t) THEN <<>> ELSE t.blocks

\* The blocks the old table already has, the flat vector being the first.
OldBlocks(t) ==
  IF IsFlat(t) THEN (IF t.rows = <<>> THEN <<>> ELSE <<t.rows>>) ELSE t.blocks

\* The last old block, filled up as far as new_len asks.
FillTail(blocks, new_len) ==
  IF blocks = <<>> THEN blocks
  ELSE LET tail_len == LeastOf(new_len - (Len(blocks) - 1) * BlockSize, BlockSize)
           last     == blocks[Len(blocks)]
       IN  IF Len(last) < tail_len
           THEN [blocks EXCEPT ![Len(blocks)] = last \o Empties(tail_len - Len(last))]
           ELSE blocks

\* Empty blocks until new_len rows fit; only the last may be short.
AppendBlocks(blocks, new_len) ==
  LET count  == (new_len + BlockSize - 1) \div BlockSize
      len(b) == LeastOf(new_len - (b - 1) * BlockSize, BlockSize)
  IN  [b \in 1 .. (IF count > Len(blocks) THEN count ELSE Len(blocks)) |->
         IF b <= Len(blocks) THEN blocks[b] ELSE Empties(len(b))]

ExpandedTable(t, new_len) ==
  IF IsFlat(t) /\ new_len <= BlockSize
  THEN Flat(t.rows \o Empties(new_len - Len(t.rows)))
  ELSE Blocked(AppendBlocks(FillTail(OldBlocks(t), new_len), new_len))

\* fill_transitive writes the row at index i.
WriteRow(t, i, r) ==
  IF IsFlat(t) THEN [t EXCEPT !.rows[i + 1] = r]
  ELSE [t EXCEPT !.blocks[i \div BlockSize + 1][(i % BlockSize) + 1] = r]

=============================================================================
