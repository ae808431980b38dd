SPECIFICATION Spec
CONSTANTS
  Names = {x, y, z}
  Locals = {l}
  ByteBits = 2
  IntegerConstants <- MCIntegers
  Programs <- MCPrograms
  OverflowChecks = TRUE
  KeepsHead = TRUE
SYMMETRY NameSymmetry
PROPERTIES
  FieldsWrittenExactly
  NamesKeepType
  ErrorsChangeNothing
CHECK_DEADLOCK FALSE
