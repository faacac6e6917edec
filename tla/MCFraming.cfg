CONSTANTS
  Invalid = Invalid
  EncodeBufSize = 5
  EncodeBufKeep = 8
  Handles <- MCHandles
  Datas <- MCDatas
  Names <- MCNames
  Numbers <- MCNumbers
  MaxPacketLength = 11
  Word = 32
  BadLengths = {12, 31}
  MaxPackets = 2
SPECIFICATION Spec
CHECK_DEADLOCK FALSE
INVARIANTS TypeOK DecodedAsSent NoStall AllocationBounded
