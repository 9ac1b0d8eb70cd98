CONSTANTS
  Producers = {c1, c2}
  Consumers = {runner}
  Messages = {j1, j2, j3, quit}
  Slots = 4
  Permits = 7
  HasMutex = FALSE
  MaxPuts = 4
  Runner = runner
  Owner = c1
  WaitJobs = {}
  Quit = quit
SPECIFICATION BatchSpec
INVARIANTS SharedTaskRunsAll
CHECK_DEADLOCK FALSE
