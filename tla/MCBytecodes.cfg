SPECIFICATION Spec
CONSTANTS
  Methods <- MCMethods
  Alternate <- MCAlternate
  InitialPC <- MCInitialPC
  Code <- MCCode
  Entries <- MCEntries
  Callees <- MCCallees
  Listing <- MCListing
  IndexAt <- MCIndexAt
  LeftToRight = TRUE
  MaxCallers = 2
  MaxClosures = 2
PROPERTY ImplementsInstructions
CHECK_DEADLOCK FALSE
