SPECIFICATION Spec
CONSTANTS
  ByteBits = 2
  Regions <- MCRegions
  MaxPort = 5
  FieldLists <- MCFieldLists
  FlagBytes = {0, 2, 6, 33, 35, 66, 68, 96}
  Stored = {0, 1, 3, 31}
  Memories <- MCMemories
INVARIANTS
  StoresReadBack
PROPERTIES
  OtherBitsFollowRule
CHECK_DEADLOCK FALSE
