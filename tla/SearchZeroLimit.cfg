\* Two flaw orders, the second with a node limit of zero.
CONSTANTS
  Tasks <- ZeroLimitTasks
  FirstSwitch = 2
  MaxSwitch = 8
  BoostGain = 3
  Slack = 2
  Infinite = 9
SPECIFICATION Spec
PROPERTY Terminates
