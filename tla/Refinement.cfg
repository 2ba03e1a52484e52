\* Two tasks, plans of up to three steps.
CONSTANTS
  atomP = atomP
  atomQ = atomQ
  atomR = atomR
  make = make
  swap = swap
  lift = lift
  enter = enter
  clear = clear
  Atoms <- MCAtoms
  Problems <- MCProblems
  MaxSteps = 3
  NoLimit = 1000
  Value <- MCValue
  Orders <- MCOrders
  None = None
SPECIFICATION Spec
INVARIANTS
  FlawsAreComplete
  CompletePlanExecutes
  NoSolutionLost
  SelectionIsMeant
CHECK_DEADLOCK FALSE
