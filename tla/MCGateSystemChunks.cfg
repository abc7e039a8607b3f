SPECIFICATION SystemFairSpec
CONSTANTS
  s1 = s1
  s2 = s2
  Sessions = {s1}
  GateIds = {0}
  ClientMessages <- MCChanges
  ArduinoMessages <- MCArduinoMessages
  MaxClientMessages = 1
  MaxArduinoMessages = 0
  PermissionsOf <- MCPermissionsOf
  Leavers = {s1}
  Aligned = FALSE
  ConfigFirst = TRUE
  GATE_PINS_SIZE = 1
  Full = 3
  Step = 2
  Queries <- MCQueries
  MaxSerial = 4
PROPERTIES
  PageShowsGates
CHECK_DEADLOCK FALSE
