CONSTANTS
  Steps = 12
  Size = 5
  MaxCommands = 4
  Tasks = {"T1", "T2"}
  Types <- SomeTypes
  MaxDepth = 3
  EspPins = {0, 1, 2}
  ArmPins <- SomePins
  Timers = {2, 3}
  nleds = 3
  Colours <- SomeColours
  Times <- SomeTimes
  MaxCalls = 4
  Chips <- SomeChips
  Sensors = {"t1", "t2"}
  Temps = {20, 85}
SPECIFICATION MCSpec
INVARIANTS  StripShows TemperatureIsMeasured  PinsAreOwned NoEdgeIsLost
PROPERTIES BrakesInTime MotorArrives
CHECK_DEADLOCK FALSE
