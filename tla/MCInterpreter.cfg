CONSTANTS
  Methods <- MCMethods
  NumArgs <- MCNumArgs
  NumTemps <- MCNumTemps
  FrameSize <- MCFrameSize
  Primitive <- MCPrimitive
  BlockArgs = {0}
  CopiedCounts = {1}
  StackEffects <- MCStackEffects
  CodeSize = 3
  MaxContexts = 4
  MaxClosures = 2
  MaxInitial = 2
SPECIFICATION Spec
INVARIANTS SendersAreOlder RegistersCurrent ReturnTargetReady
PROPERTIES SuspendedUntouched WalkTerminates ImplementsActivationStack
CHECK_DEADLOCK FALSE
