CONSTANTS
  ByteBits = 3
  Values <- MCValues
SPECIFICATION Spec
INVARIANT
  StreamCountWithinLimit
