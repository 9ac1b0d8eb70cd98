CONSTANTS
  Devices = {a, b, c}
  Names = {a, b, c, missing}
  CanFail = {c}
  Loops = 3
  Count = 4
  Platforms = {"linux", "freertos"}
  AccessPoints = {ap1, ap2}
  Observers = {o1, o2}
  Waiter = w
  None = none
  MaxEvents = 3
  Topics = {t1, t2, t3, t4}
  AddTimes = {"before", "connected"}
  MaxDrops = 3
  Items = {e1, e2, e3}
  Null = null
  Owner <- MCOwner
  Periodic = {e3}
  Modulus = 16
  FirstNow = 14
  LastTime = 3
  Watched = {e1, e2}
  Holdoffs = {1, 2}
  WdModulus = 8
  WdFirstNow = 6
  WdLastTime = 4
  Kinds = {"echo", "cli", "tx"}
  TxClients = 1
  EndsEarly = FALSE
SPECIFICATION MCSpec
INVARIANTS InitIsRight ThreadsAreSound  ConnectedMeansAsked   
PROPERTIES DueIsDone  AskedOnce
CHECK_DEADLOCK FALSE
