SPECIFICATION FairSpec
CONSTANTS
  c1 = c1
  c2 = c2
  c3 = c3
  alone = alone
  known = known
  stranger = stranger
  home = home
  office = office
  Conns = {c1, c2, c3}
  BrowserOf <- MCBrowserOf
  AddressOf <- MCAddressOf
  UserOf <- MCUserOf
  PagesOf <- MCPagesOf
  NonceCount = 12
INVARIANTS
  TypeOK
  RefusedOnceUnlessRival
  DroppedOnlyByRival
PROPERTIES
  AloneGetsIn
CHECK_DEADLOCK FALSE
