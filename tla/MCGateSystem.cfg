SPECIFICATION SystemSpec
CONSTANTS
  s1 = s1
  s2 = s2
  Sessions = {s1, s2}
  GateIds = {0}
  ClientMessages <- MCChanges
  ArduinoMessages <- MCArduinoMessages
  MaxClientMessages = 1
  MaxArduinoMessages = 0
  PermissionsOf <- MCAnyPermission
  Leavers = {s1, s2}
  Aligned = TRUE
  ConfigFirst = TRUE
  GATE_PINS_SIZE = 1
  Full = 3
  Step = 2
  Queries <- MCQueries
  MaxSerial = 4
SYMMETRY Symmetry
INVARIANTS
  PagesConverge
  NoControllerNoMovement
CHECK_DEADLOCK FALSE
