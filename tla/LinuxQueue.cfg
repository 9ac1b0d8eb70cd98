CONSTANTS
  Producers = {p1, p2}
  Consumers = {c1, c2}
  Messages = {m1, m2}
  Slots = 3
  Permits = 1
  HasMutex = TRUE
  MaxPuts = 4
SPECIFICATION FairSpec
INVARIANT NobodySleepsInVain
PROPERTIES IsFifo PutReturns
CHECK_DEADLOCK FALSE
