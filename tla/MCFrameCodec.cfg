CONSTANTS
  ByteBits = 3
  Values <- MCValues
SPECIFICATION Spec
INVARIANTS
  FrameRoundTrip
  TruncatedFrameRejected
