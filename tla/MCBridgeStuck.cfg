SPECIFICATION FairSpec
CONSTANTS
  s1 = s1
  s2 = s2
  g1 = g1
  Sessions = {s1}
  GateIds = {g1}
  ClientMessages <- MCCommands
  ArduinoMessages <- MCReportsAndErrors
  MaxClientMessages = 1
  MaxArduinoMessages = 2
  PermissionsOf <- MCPermissionsOf
  Leavers = {s1}
  Aligned = FALSE
  ConfigFirst = TRUE
PROPERTIES
  ReportsReachPages
CHECK_DEADLOCK FALSE
