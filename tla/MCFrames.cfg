CONSTANTS
  Nil = nil
  True = true
  False = false
  Literals = {lit}
  ErrorName = lit
  Mentioned = {}
  Compares = FALSE
  start = start
  send = send
  evaluate = evaluate
  Methods <- MCMethods
  NumArgs <- MCTwoArgs
  NumTemps <- MCTwoTemps
  ValueMethods = {evaluate}
  OtherPrimitives = {send}
  FrameSize = 3
  VectorSizes = {}
  BlockArgs = {1}
  CopiedCounts = {2}
  Indices = {}
  NumGlobals = 0
  ReceiverSize = 0
  MaxContexts = 3
  MaxObjects = 2
SPECIFICATION Spec
PROPERTY ImplementsOperandStacks
CHECK_DEADLOCK FALSE
