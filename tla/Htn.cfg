CONSTANTS
  MaxSteps = 14
  CostCap = 20
  NoFocus = NoFocus
  NoPlan = NoPlan
  Overflow = Overflow
  NoIndex = NoIndex
  NoLimit = NoLimit
  CacheEntries = 3
  CacheTaskIds = 10
  Configs <- MCConfigs
SPECIFICATION Spec
INVARIANTS
  WitnessesKept
  BoundsAreTrue
  AnswersAreTrue
  EffortIsExact
CHECK_DEADLOCK FALSE
