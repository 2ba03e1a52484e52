\* IDA* with two flaw orders.
CONSTANTS
  Tasks <- IdaOrderTasks
  FirstSwitch = 2
  MaxSwitch = 8
  BoostGain = 3
  Slack = 2
  Infinite = 9
SPECIFICATION Spec
INVARIANT NoSolutionIsProof
