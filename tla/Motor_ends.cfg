CONSTANTS
  Steps = 9
  Size = 2
  MaxCommands = 2
SPECIFICATION Spec
PROPERTIES StaysInRange
CHECK_DEADLOCK FALSE
