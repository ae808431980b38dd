SPECIFICATION Spec
CONSTANTS
  Sdts <- MCSdts
  TypeWords <- MCTypeWords
  Machines <- MCMachines
  RsdpAddress = 1
  RootAddress = 50
  MaxHeld = 2
  MaxEntries = 2
  OverflowChecks = TRUE
INVARIANTS
  ReusedStaysMapped
CHECK_DEADLOCK FALSE
