CONSTANTS
  LimbBits <- MCLimbBits
  ByteBits <- MCByteBits
  Values <- MCValues
  Cap = 8
  Slack = 0
  Bytes <- MCBytes
  Blank <- MCBlank
  Steps = {}
  MaxWrite = 2
  MaxCount = 8
SPECIFICATION CodecSpec
INVARIANT CodecRoundTrip
INVARIANT IInv
PROPERTY CodecRefines
