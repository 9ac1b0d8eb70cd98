CONSTANTS
  Modulus = 16
  Start = 14
  MaxClock = 3
  MaxReload = 15
  BootPeriod = 1
  Waiters = {w1, w2}
  Delays = {1, 2}
  LastCall = 3
  IdleWait = 2
  SemMax = 1
  MaxPosts = 0
SPECIFICATION Spec
PROPERTIES GivesUpWhenDue
