\* Four real steps: every partial order the refinements can build on them, in
\* blocks of two rows: flat, one block, and two blocks.
CONSTANTS
  MaxSteps = 4
  BlockSize = 2
  EmptyRow = {}
  NotThere = NotThere
SPECIFICATION RowsSpec
INVARIANTS
  ClosureExact
  PossiblyMeansSomeLinearization
  ScheduleIsLongestChain
PROPERTY
  ImplementsStore
