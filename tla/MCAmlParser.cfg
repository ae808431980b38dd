SPECIFICATION Spec
CONSTANTS
  Tables <- MCTables
  Known <- MCKnown
INVARIANTS
  DeclaresWhatIsWritten
  CutDeclaresPrefix
  BlockLengthsOnlyMoveNames
PROPERTIES
  AlwaysForward
CHECK_DEADLOCK FALSE
