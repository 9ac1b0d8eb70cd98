CONSTANTS
  Null = Null
  Items = {handler, other}
  Handler = handler
  SemMax = 2
  MaxPuts = 2
  Bits = {b0, b1}
  Users = {u1, u2}
  HandlersRead = FALSE
  MaxOps = 5
SPECIFICATION ExpFairSpec
INVARIANTS NoneStranded 
PROPERTIES InputIsSeen
CHECK_DEADLOCK FALSE
