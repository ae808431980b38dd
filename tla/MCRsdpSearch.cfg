SPECIFICATION SearchSpec
CONSTANTS
  BiosFirst = 8
  BiosLast = 11
  EbdaFirst = 2
  EbdaLast = 5
  PointerSlot = 1
  KiB = 2
  Segments = {0, 2, 4, 5, 9}
  Slots <- MCSlots
  Contents <- MCContents
  Memories <- MCMemories
INVARIANTS
  FindsFirstValid
  MappingsAreDropped
CHECK_DEADLOCK FALSE
