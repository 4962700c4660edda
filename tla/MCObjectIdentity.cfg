CONSTANTS
  Image <- SmallImage
  NewObjects = {n1, n2}
  Nil = "nil"
  HashField = 8
  PageSize = 2
  Pages = {0, 1, 3}
  ClassAt <- SmallClassAt
  ImageHash <- SmallHash
  ImageClass <- SmallClass
  Word = 32
  Modulus = 27
  Multiplier = 5
  Increment = 3
SPECIFICATION Spec
INVARIANTS ClassesAreTheTables ClassKept AnswerIsOfHeader
PROPERTY HashStable
CHECK_DEADLOCK FALSE
