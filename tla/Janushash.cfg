SPECIFICATION Spec
CHECK_DEADLOCK FALSE
CONSTANTS
  Chunkings <- MCChunkings
  Writings <- MCWritings
  Turns = 2
  Picks = {0, 511}
  RoundCounts = {0, 7}
  LowBits <- MCLowBits
  Width = 8
  LaneWidth = 7
  KeyLength = {7}
  Length = {6}
  ByteBits = 2
  MantissaBytes = 2
  HashBytes = 4
  TargetBits = 3
  Threshold <- MCThreshold
  ShaHashes <- MCShaHashes
  Powers <- MCPowers
  Zeros = {0, 1, 3, 6, 9}
INVARIANTS
  BlocksFollowMessage
  EveryByteCounts
  StaysInKey
  ArithmeticIsExact
  TakesPaddedMessage
  VerdictIsExact
