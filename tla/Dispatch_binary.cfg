CONSTANTS
  Items = {a, b}
  Null = null
  SemMax = 1
  MaxPuts = 2
SPECIFICATION FairSpec
PROPERTIES PutIsExecuted
CHECK_DEADLOCK FALSE
