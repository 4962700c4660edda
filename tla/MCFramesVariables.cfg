CONSTANTS
  Nil = nil
  True = true
  False = false
  Literals = {lit}
  ErrorName = lit
  Mentioned = {}
  Compares = TRUE
  start = start
  send = send
  evaluate = evaluate
  Methods <- MCMethods
  NumArgs <- MCNumArgs
  NumTemps <- MCNumTemps
  ValueMethods = {evaluate}
  OtherPrimitives = {send}
  FrameSize = 2
  VectorSizes = {2}
  BlockArgs = {0}
  CopiedCounts = {2}
  Indices = {0, 1}
  NumGlobals = 1
  ReceiverSize = 1
  MaxContexts = 1
  MaxObjects = 2
SPECIFICATION Spec
PROPERTY ImplementsOperandStacks
CHECK_DEADLOCK FALSE
