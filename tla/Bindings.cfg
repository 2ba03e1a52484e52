\* Three bindings over three variables and two objects.
SPECIFICATION Spec
CONSTANTS
  x = x
  y = y
  z = z
  a = a
  b = b
  any = any
  sub = sub
  None = None
  StepVars <- MCStepVars
  Objects <- MCObjects
  Types <- MCTypes
  Sub <- MCSub
  VarType <- MCVarType
  ObjType <- MCObjType
  StepOf <- MCStepOf
  Batches <- MCBatches
  Patterns <- MCPatterns
  Rows <- MCRows
  Columns <- MCColumns
  Threshold = 2
  MaxPrefix = 2
  MaxMembers = 4
  MaxBindings = 3
INVARIANTS IndexAgreesWithScan NothingForgotten AnswersAreEntailed PatternsAreExact
 
CHECK_DEADLOCK FALSE
