CONSTANTS
  MaxConnections = 2
  MaxQueries = 4
  MaxCloses = 1
SPECIFICATION FairSpec
INVARIANTS TypeOK NoLeak Exclusive
PROPERTY QueriesEnd
CHECK_DEADLOCK FALSE
