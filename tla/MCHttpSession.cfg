SPECIFICATION Spec
CONSTANTS
  c1 = c1
  c2 = c2
  t1 = t1
  t2 = t2
  Conns = {c1, c2}
  Threads = {t1, t2}
  KindsOf <- MCKindsOf
  QueueLimit = 2
  MaxRequests <- MCMaxRequests
  Pipeliners = {c1, c2}
  Prompt = FALSE
SYMMETRY Symmetry
INVARIANTS
  TypeOK
  PermitAccounting
  ResponsesInOrder
  QueueNeverFills
PROPERTIES
  WedgedForEver
CHECK_DEADLOCK FALSE
