SPECIFICATION Spec
CONSTANTS
  Devices = {0, 1, 2}
  LoRange = 4
  MidRange = 2
  CounterRange = 16
PROPERTY
  ExitCommandHalts
CHECK_DEADLOCK FALSE
