CONSTANTS
  Producers = {c1}
  Consumers = {runner}
  Messages = {j1, j2, j3, j4, quit}
  Slots = 3
  Permits = 7
  HasMutex = FALSE
  MaxPuts = 5
  Runner = runner
  Owner = c1
  WaitJobs = {j2, j3}
  Quit = quit
SPECIFICATION FairBatchSpec
INVARIANTS JobsAreDone
PROPERTIES DeleteReturns
CHECK_DEADLOCK FALSE
