CONSTANTS
  MaxSteps = 4
  Configs <- MCConfigs
  Planner <- BuiltTables
  ConditionValues <- RelaxedValues
  WorthQueueing <- PassesTests
SPECIFICATION Spec
INVARIANTS
  ThreatCacheExact
  NoSolutionLost
  CompletePlanExecutes
  EstimatesAreTrue
  QueuedChildrenAreKept
CHECK_DEADLOCK FALSE
