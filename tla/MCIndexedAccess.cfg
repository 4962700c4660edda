CONSTANTS
  Shapes <- MCShapes
  Radix = 4
  Indices <- MCIndices
  Numbers <- MCNumbers
  MaxStores = 2
SPECIFICATION Spec
INVARIANTS  ReadsWhatWasWritten AtReachesAll
PROPERTIES InstanceVariablesKept MethodHeaderKept
CHECK_DEADLOCK FALSE
