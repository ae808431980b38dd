SPECIFICATION Spec
CONSTANTS
  Segs <- MCSegs
  LevelTypes = {"Scope", "Device"}
  Values = {}
  HandleSpace = 100
  OverflowChecks = TRUE
  Firmwares <- MCFirmwares
  Questions <- MCQuestions
  Links <- MCLinks
  GsiSpace = 256
INVARIANTS
  ReadsBack
PROPERTIES
  RoutesAsListed
  CallsEnd
CHECK_DEADLOCK FALSE
