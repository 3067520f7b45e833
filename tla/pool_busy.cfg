CONSTANTS
  MaxConnections = 1
  MaxQueries = 3
  MaxCloses = 0
SPECIFICATION Spec
INVARIANT PickedIsFree
CHECK_DEADLOCK FALSE
