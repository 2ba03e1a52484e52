\* Every accepted command line of one or two stages, and a planner that dies,
\* fails to start and writes lines nobody can read.
CONSTANTS
  None = None
  CommandLines <- MCCommandLines
  Grain = 2
  CheckInterval = 1
  MaxTime = 9
  MaxPages = 2
  taskA = taskA
  taskB = taskB
  taskC = taskC
  Tasks <- MCTasks
  Truth <- MCTruth
  Infinite = Infinite
  Miss = Miss
  Absent = Absent
  Faults <- AllFaults
  MaxCrashes = 1
  MaxChildren = 1
SPECIFICATION RuntimeSpec
INVARIANTS AnswerIsTrue StopsAreEarned FailureIsContained NoAnswerIsLost
PROPERTIES Terminates CallReturns
