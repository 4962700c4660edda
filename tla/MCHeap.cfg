CONSTANTS
  Capacity = 12
  PageWords = 5
  Big = 3
  Requests <- SmallRequests
  Stored <- SmallStored
SPECIFICATION Spec
INVARIANTS TypeOK ObjectsTile HeadersDecode WalkIsOnObjects AfterIsNext
PROPERTIES WalkIsComplete ObjectsKept
CHECK_DEADLOCK FALSE
