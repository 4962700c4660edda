CONSTANTS
  ExponentBits = 5
  MantissaBits = 4
  TagBits = 3
  Tags = 8
  Half = 64
  IntegerOperands <- MCIntegers
  FloatOperands <- MCFloats
SPECIFICATION FloatSpec
INVARIANT RoundTrips
CHECK_DEADLOCK FALSE
