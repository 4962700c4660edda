CONSTANTS
  Depth = 2
  MaxSize = 2
  Selectors = {at, put}
  Methods = {m1, m2}
  NilObject = nil
  HashRange = 3
  Generated = {0, 2, 3, 7}
SPECIFICATION LookupSpec
INVARIANT AnswerIsFirst
PROPERTY LookupEnds
CHECK_DEADLOCK FALSE
