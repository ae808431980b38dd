SPECIFICATION PlatformSpec
CONSTANTS
  Firmwares <- MCFirmwares
  PcieFunctions <- MCPcieFunctions
  MaxQuestions = 2
  MaxEntries = 3
INVARIANTS
  SlicesFilledInOrder
  XapicFits
  ReportedInFull
  BlocksAsDocumented
  FunctionsApart
PROPERTIES
  PlatformInfoEnds
CHECK_DEADLOCK FALSE
