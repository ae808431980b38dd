SPECIFICATION Spec
CONSTANTS
  Segs = {"A", "O", "S"}
  LevelTypes = {"Scope", "Device", "Processor", "PowerResource", "ThermalZone", "MethodLocals"}
  Values <- MCValues
  HandleSpace = 8
  OverflowChecks = TRUE
  OSI <- MCOSI
  Predefined <- MCPredefined
  Programs <- Recursion
  MaxDepth = 3
PROPERTIES
  ResumesCaller
