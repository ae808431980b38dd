SPECIFICATION Spec
CONSTANTS
  Namespaces <- MCNamespaces
  SB <- MCSB
  Statuses = {0, 1, 8, 15}
  NewDevices <- MCNewDevices
INVARIANTS
  InitializedOnceInOrder
  TraversalIsBounded
CHECK_DEADLOCK FALSE
