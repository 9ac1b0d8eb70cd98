CONSTANTS
  Modulus = 8
  Start = 6
  MaxClock = 3
  MaxReload = 2
  BootPeriod = 2
  Waiters = {w1, w2}
  Delays = {1, 2}
  LastCall = 3
  IdleWait = 3
  SemMax = 1
  MaxPosts = 1
SPECIFICATION MCSpec
INVARIANTS EventsAlive LinkedInOrder 
PROPERTIES WakesAreRight 
