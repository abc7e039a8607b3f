SPECIFICATION DeliverySpec
CONSTANTS
  s1 = s1
  s2 = s2
  g1 = g1
  Sessions = {s1, s2}
  GateIds = {g1}
  ClientMessages <- MCCommands
  ArduinoMessages <- MCReports
  MaxClientMessages = 0
  MaxArduinoMessages = 2
  PermissionsOf <- MCReaders
  Leavers = {s1, s2}
  Aligned = FALSE
  ConfigFirst = TRUE
INVARIANTS
  GapFreeDelivery
  LiveSessionsRegistered
PROPERTIES
  ImplementsBroadcast
SYMMETRY Symmetry
CHECK_DEADLOCK FALSE
