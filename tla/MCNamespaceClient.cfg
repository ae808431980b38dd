SPECIFICATION MCSpec
CONSTANTS
  Segs = {"A", "B"}
  LevelTypes = {"Scope", "Device"}
  Values = {"v"}
  HandleSpace = 4
  OverflowChecks = TRUE
  Names <- MCNames
  MaxLen = 5
  MaxScope = 4
INVARIANTS
  NormalizeIsCancellation
  ResolveComposes
  PrintedNamesReadBack
  BoundHandlesExist
  SearchFindsNearest
PROPERTIES
  IsHandleStore
  FailureAddsNoName
  OnlyRemovalForgets
CHECK_DEADLOCK FALSE
