\* Every algorithm with and without bounds and stops, and two flaw orders.
CONSTANTS
  Tasks <- MCTasks
  FirstSwitch = 2
  MaxSwitch = 8
  BoostGain = 3
  Slack = 2
  Infinite = 9
SPECIFICATION Spec
INVARIANTS NoSolutionIsProof FrontierCovers SolvedIsCheapest HandOverEnds
PROPERTY EndsOrStranded
