CONSTANTS
  Truck = Truck
  Parcel = Parcel
  Van = Van
  L1 = L1
  L2 = L2
  L3 = L3
  Red = Red
  Blue = Blue
  Home = Home
  Free = Free
  Unlimited = Unlimited
  NoBindings = NoBindings
  CellBudget = 40
  MaxParts = 3
  MaxSteps = 6
  LiftedTasks <- CheckedTasks
SPECIFICATION Spec
INVARIANT GraphCoversStates
INVARIANT ArgumentsKept
INVARIANT MutexesHold
INVARIANT LandmarksAreTrue
INVARIANT RelaxedPlanReaches
CHECK_DEADLOCK FALSE
