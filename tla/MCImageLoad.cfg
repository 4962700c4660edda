CONSTANTS
  Big = 3
  WordBytes = 8
  PageWords = 4
  RootCount = 3
  DefaultCapacity = 32
  Capacities <- OtherCapacities
  Mapped <- TwoMappings
  Images <- AllFiles
SPECIFICATION Spec
INVARIANTS EachReferenceMovedOnce RootsUsable RunsOnWholeHeaps WalkEndsAtSize
PROPERTIES LoadsEnd
CHECK_DEADLOCK FALSE
