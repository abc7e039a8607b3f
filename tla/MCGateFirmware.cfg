SPECIFICATION FairSpec
CONSTANTS
  GATE_PINS_SIZE = 2
  Full = 5
  Step = 2
  Queries <- MCQueries
  MaxSerial = 1
INVARIANTS
  TypeOK
  GetStateDefined
  ReportsCurrent
  ReportMatchesPin
PROPERTIES
  ImplementsGate
  RaisingEnds
  LoweringEnds
