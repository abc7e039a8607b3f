SPECIFICATION FairSpec
CONSTANTS
  s1 = s1
  s2 = s2
  g1 = g1
  Sessions = {s1}
  GateIds = {g1}
  ClientMessages <- MCClientMessages
  ArduinoMessages <- MCReports
  MaxClientMessages = 1
  MaxArduinoMessages = 2
  PermissionsOf <- MCPermissionsOf
  Leavers = {s1}
  Aligned = FALSE
  ConfigFirst = FALSE
INVARIANTS
  TypeOK
  NoControllerNoCommand
PROPERTIES
  RequestsWritten
  ReportsReachPages
  ClosedSessionsForgottenByTraffic
  FailedSessionsForgotten
CHECK_DEADLOCK FALSE
