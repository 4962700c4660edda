CONSTANTS
  Tags = 8
  Half = 16
  WordBits = 8
  OtherOperands = {64, 2, 10, 122, 12}
SPECIFICATION Spec
INVARIANTS AnswersAreExact AnswersAreCanonical FailsExactly CharactersComeBack
PROPERTIES FailureSticks
CHECK_DEADLOCK FALSE
