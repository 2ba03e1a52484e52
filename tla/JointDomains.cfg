\* Two branches of refinements on two steps of two schemas.
SPECIFICATION JointSpec
CONSTANTS
  x = x
  y = y
  z = z
  w = w
  a = a
  b = b
  o = o
  p = p
  q = q
  any = any
  sub = sub
  None = None
  StepVars <- MCStepVars
  Objects <- MCObjects
  Types <- MCTypes
  Sub <- MCSub
  VarType <- MCVarType
  ObjType <- MCObjType
  StepOf <- MCStepOf
  Batches <- MCBatches
  Patterns = {}
  Rows = {}
  Columns = {}
  Threshold = 30
  MaxPrefix = 2
  MaxMembers = 4
  MaxBindings = 0
  BranchBindings <- MCBranchBindings
  Schemas = {p, q}
  TermsOf <- MCTermsOf
  TableSets <- MCTables
  MinRows = 4
INVARIANTS PropagationIsSound IncrementalIsReference
CHECK_DEADLOCK FALSE
